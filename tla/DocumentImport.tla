--------------------------- MODULE DocumentImport ---------------------------
(***************************************************************************)
(* The import of a document: content/document_import.py turns a Markdown,  *)
(* Word or PDF file into pages and a list of issues, and import_document   *)
(* (routes/document_import.py) drops the images it may not keep and has    *)
(* content/validation.py judge every page before it stores any.            *)
(*                                                                         *)
(* The file is read one top-level block at a time, the order in which the  *)
(* converters take them.  What a block says is abstracted to pieces: where *)
(* in the file it stands (its address) and of which kind it is.  Blocks    *)
(* within blocks are kept flat: a tree is a function from numbers, in the  *)
(* order a reader meets them, to nodes, and a node names the nodes it lies *)
(* within.  The rows and objects an import makes, and what it leaves of    *)
(* them when it fails, are AssetStore's subject.                           *)
(***************************************************************************)
EXTENDS Integers, Sequences, FiniteSets

CONSTANTS
    MarkdownBlocks, \* top-level nodes of a Markdown file, with all that lies in them
    Paragraphs,     \* paragraphs of a Word file
    ImageSizes,
    MaxBlocks,      \* bound: the length of a file
    MaxPages,       \* maxPagesPerModule
    MaxDepth,       \* validation.MAX_DEPTH
    MaxNodes,       \* validation.MAX_NODES
    MaxBytes,       \* validation.MAX_BYTES, by what the JSON of a node takes
    LongText,       \* what a long text takes more
    MaxImage,       \* asset_max_image_bytes
    MaxTotal        \* asset_max_module_bytes

Lists == {"bullets", "numbers"}
Containers == Lists \cup {"item", "quote"}
Leaves == {"heading", "paragraph", "fence", "rule", "table"}
MarkdownInline == {"text", "long text", "bad link", "long link", "twice marked", "image", "struck"}
MarkdownNodes ==
    [type : Containers \cup Leaves, level : Nat, inline : Seq(MarkdownInline), within : SUBSET Nat]

\* What markdown-it makes of a file: the first node is the block itself, every
\* other one lies in one before it that is still open, a list holds items and
\* nothing else does, only leaves have text, and code has nothing but text.
ASSUME MarkdownGrammar ==
    \A b \in MarkdownBlocks :
        /\ b \in Seq(MarkdownNodes) /\ b # <<>>
        /\ b[1].within = {} /\ b[1].type # "item"
        /\ \A k \in 2..Len(b) : \E p \in 1..(k - 1) :
              /\ p \in b[k - 1].within \cup {k - 1}
              /\ b[k].within = b[p].within \cup {p}
              /\ b[p].type \in Containers
              /\ b[k].type = "item" <=> b[p].type \in Lists
        /\ \A k \in DOMAIN b :
              /\ b[k].type \in Containers \cup {"rule"} => b[k].inline = <<>>
              /\ b[k].type = "fence" => b[k].inline \in Seq({"text", "long text"})

\* What python-docx hands over of a paragraph, and what it does not: runs within
\* tracked insertions, content controls, fields and the like, and of a run what
\* is neither text nor a drawing with a picture (notes, symbols, charts).
WordInline == {"text", "long text", "bad link", "long link",
               "image", "captioned image", "bad image", "missing image", "linked image",
               "pictured link", "passed over"}
ASSUME WordGrammar ==
    Paragraphs \subseteq
        [type : {"paragraph"}, heading : 0..9, list : {"none", "unclassified"} \cup Lists,
         inline : Seq(WordInline)]

\* It is 20; what the converters of Word and PDF files build needs five levels.
ASSUME DepthSuffices == MaxDepth \in Nat /\ MaxDepth >= 5

VARIABLES
    format,
    phase,
    source,     \* the blocks read so far
    title,      \* the module's title, or nothing: the name of the file then
    events,     \* the blocks and page breaks converted
    listed,     \* the Word list being collected
    issues,     \* the conversion report
    images,     \* the images extracted and not yet weighed
    kept,       \* those that will be stored
    total,      \* total_image_bytes
    pages       \* by where their section begins

vars == <<format, phase, source, title, events, listed, issues, images, kept, total, pages>>

Formats == {"markdown", "docx", "pdf"}

\* The nth piece of text of a node of a block; nth 0 is the whole node.
At(block, node, nth) == [block |-> block, node |-> node, nth |-> nth]
Nowhere == At(0, 0, 0)
Piece(at, kind) == [at |-> at, kind |-> kind]
Issue(code, at) == [code |-> code, at |-> at]
Node(type, attr, pieces, within) ==
    [type |-> type, attr |-> attr, pieces |-> pieces, within |-> within]
Page(heading, blocks) == [title |-> heading, blocks |-> blocks]

Init ==
    /\ format \in Formats
    /\ phase = "reading"
    /\ source = <<>>
    /\ title = <<>>
    /\ events = <<>>
    /\ listed = <<>>
    /\ issues = {}
    /\ images = {}
    /\ kept = {}
    /\ total = 0
    /\ pages = <<>>

-----------------------------------------------------------------------------
(* The node builders                                                       *)

\* A link that is not allowed stays as its text (_is_allowed_href).  Emphasis
\* within emphasis of the same kind gives a text the same mark twice.
BecomesText == {"text", "long text", "bad link", "long link", "twice marked"}
Texts(inline) == {n \in DOMAIN inline : inline[n] \in BecomesText}
TextOf(inline, i, k) == [n \in Texts(inline) |-> Piece(At(i, k, n), inline[n])]

\* Mutant of Clamped: a heading keeps its level.
Unclamped(level) == level
Clamped(level) ==
    IF level \in 2..4 THEN level ELSE IF level <= 1 THEN 2 ELSE 4

Break(i, text) ==
    [kind |-> "page_break", at |-> At(i, 1, 0), title |-> text, nodes |-> <<>>]
Block(nodes) ==
    [kind |-> "block", at |-> Nowhere, title |-> <<>>, nodes |-> nodes]
\* Every builder gives a node or None, and None makes no event.
Given(nodes) == IF DOMAIN nodes = {} THEN <<>> ELSE <<Block(nodes)>>

-----------------------------------------------------------------------------
(* convert_markdown                                                        *)

\* What is never dropped: a heading with text, code, a rule, an item (it gets a
\* blank paragraph if need be) and a paragraph that is more than an image.
Stands(n) ==
    \/ n.type = "heading" /\ Texts(n.inline) # {}
    \/ n.type = "paragraph" /\ n.inline # <<"image">>
    \/ n.type \in {"item", "fence", "rule"}
\* _convert_markdown_node gives a node for those, and for the lists and quotes
\* in which one of them stands.
Kept(b) == {k \in DOMAIN b : \E d \in DOMAIN b : k \in b[d].within \cup {d} /\ Stands(b[d])}
\* _list_item: one in which nothing was kept.
Bare(b) == {k \in Kept(b) : b[k].type = "item" /\ \A c \in Kept(b) : k \notin b[c].within}

ConvertedNode(n, i, k) ==
    Node(n.type, IF n.type = "heading" THEN Clamped(n.level) ELSE n.level,
         TextOf(n.inline, i, k), n.within)
BlankIn(n, k) == Node("paragraph", 0, <<>>, n.within \cup {k})

\* The tree the ith block becomes; blank paragraphs are numbered after the others.
Convert(b, i) ==
    [k \in Kept(b) \cup {Len(b) + j : j \in Bare(b)} |->
        IF k <= Len(b) THEN ConvertedNode(b[k], i, k) ELSE BlankIn(b[k - Len(b)], k - Len(b))]

ReportedInline(inline, i, k) ==
    {Issue("image_reference_dropped", At(i, k, n)) : n \in {m \in DOMAIN inline : inline[m] = "image"}}
    \cup {Issue("unsupported_inline_dropped", At(i, k, n)) :
            n \in {m \in DOMAIN inline : inline[m] = "struck"}}
    \cup {Issue("link_dropped", Nowhere) : n \in {m \in DOMAIN inline : inline[m] = "bad link"}}

ReportedNode(n, i, k) ==
    IF n.type = "table" THEN {Issue("unsupported_block_dropped", At(i, k, 0))}
    ELSE ReportedInline(n.inline, i, k)
         \cup {Issue("heading_level_adjusted", At(i, k, 0)) :
                 level \in {n.level} \ IF n.type = "heading" THEN 2..4 ELSE {n.level}}

\* What follows an opening fence: nothing, blanks only, a language, or one of more
\* than 2048 characters.
BlankInfo == 1
LongLanguage == 3
\* `node.info.strip().split()[0]`
HasBlankInfo(b) == \E k \in DOMAIN b : b[k].type = "fence" /\ b[k].level = BlankInfo

Here == Len(source) + 1
Reads(f, b) ==
    /\ phase = "reading" /\ format = f /\ Len(source) < MaxBlocks
    /\ source' = Append(source, b)

ReadBlock(b) ==
    /\ Reads("markdown", b)
    /\ ~HasBlankInfo(b)
    /\ LET leading == b[1].type = "heading" /\ b[1].level = 1 /\ source = <<>>
           breaks == b[1].type = "heading" /\ b[1].level = 2
           text == TextOf(b[1].inline, Here, 1)
       IN /\ title' = IF leading THEN text ELSE title
          /\ events' = events \o
                (IF leading THEN <<>>
                 ELSE IF breaks THEN <<Break(Here, text)>>
                 ELSE Given(Convert(b, Here)))
          /\ issues' = issues \cup
                (IF leading \/ breaks THEN ReportedInline(b[1].inline, Here, 1)
                 ELSE UNION {ReportedNode(b[k], Here, k) : k \in DOMAIN b})
    /\ UNCHANGED <<format, phase, listed, images, kept, total, pages>>

\* An IndexError, which no handler catches.
ReadBlankInfo(b) ==
    /\ Reads("markdown", b)
    /\ HasBlankInfo(b)
    /\ phase' = "failed"
    /\ UNCHANGED <<format, title, events, listed, issues, images, kept, total, pages>>

-----------------------------------------------------------------------------
(* convert_docx                                                            *)

\* _docx_runs_to_pm: a run with a drawing gives the drawing and not its text.
Drawings == {"image", "captioned image"}
Pictured(inline) == {n \in DOMAIN inline : inline[n] \in Drawings}

\* Its source is a placeholder until the image has been stored.
Placeholder == 0
AssetUrl == 1
\* The images of a paragraph follow it, each a block of its own.
Pictures(p, i) ==
    [n \in Pictured(p.inline) |->
        Node("image", Placeholder, <<Piece(At(i, 1, n), "image")>>, {})]

Line(p, text) ==
    IF p.heading = 0 THEN <<Node("paragraph", 0, text, {})>>
    ELSE IF DOMAIN text = {} THEN <<>>
    ELSE <<Node("heading", Clamped(p.heading), text, {})>>

\* An item with one paragraph, in the list given or in a new one.
Listing(list, kind, text) ==
    LET open == IF list = <<>> THEN <<Node(kind, 1, <<>>, {})>> ELSE list
    IN open \o <<Node("item", 0, <<>>, {1}), Node("paragraph", 0, text, {1, Len(open) + 1})>>

\* Mutant of Flushed: the list being collected is forgotten.
Forgotten == <<>>
\* flush_list
Flushed == Given(listed)

\* _docx_list_kind: anything numbered whose style is not a list's is a bullet.
ListKind(p) == IF p.list = "unclassified" THEN "bullets" ELSE p.list

\* An image elsewhere (`r:link`), a link around a picture, whose text is empty,
\* and what python-docx passes over are skipped without a word.
ReportedParagraph(p, i) ==
    LET holds(kind) == {n \in DOMAIN p.inline : p.inline[n] = kind}
    IN {Issue("image_dropped", At(i, 1, n)) : n \in holds("bad image")}
       \cup {Issue("image_unavailable", Nowhere) : n \in holds("missing image")}
       \cup {Issue("link_dropped", Nowhere) : n \in holds("bad link")}

\* Content controls and whatever else there is between paragraphs and tables.
Other == [type |-> "other"]
\* `first`
IsFirst(i) == \A j \in 1..(i - 1) : source[j] = Other

ReadParagraph(p) ==
    /\ Reads("docx", p)
    /\ LET text == TextOf(p.inline, Here, 1)
           pictures == Pictures(p, Here)
           leading == p.heading = 1 /\ IsFirst(Here)
           breaks == p.heading = 2
           item == ~leading /\ ~breaks /\ p.list # "none"
           \* A list of another kind ends the one before it.
           goesOn == item /\ listed # <<>> /\ listed[1].type = ListKind(p)
           list == Listing(IF goesOn THEN listed ELSE <<>>, ListKind(p), text)
           collects == item /\ DOMAIN pictures = {}
       IN /\ title' = IF leading THEN text ELSE title
          /\ events' = events
                \o (IF goesOn THEN <<>> ELSE Flushed)
                \o (IF breaks THEN <<Break(Here, text)>>
                    ELSE IF leading \/ collects THEN <<>>
                    ELSE Given(IF item THEN list ELSE Line(p, text)))
                \o Given(pictures)
          /\ listed' = IF collects THEN list ELSE <<>>
          /\ images' = images \cup {At(Here, 1, n) : n \in DOMAIN pictures}
          /\ issues' = issues \cup ReportedParagraph(p, Here)
                \cup {Issue("list_style_assumed_bullet", Nowhere) :
                        kind \in {p.list} \cap IF item THEN {"unclassified"} ELSE {}}
                \cup {Issue("heading_level_adjusted", At(Here, 1, 0)) :
                        level \in {p.heading} \cap
                                  IF leading \/ item THEN {} ELSE {1, 5, 6, 7, 8, 9}}
    /\ UNCHANGED <<format, phase, kept, total, pages>>

Table == [type |-> "table"]
ReadTable ==
    /\ Reads("docx", Table)
    /\ events' = events \o Flushed
    /\ listed' = <<>>
    /\ issues' = issues \cup {Issue("table_dropped", Nowhere)}
    /\ UNCHANGED <<format, phase, title, images, kept, total, pages>>

\* _iter_block_items steps over it: a list goes on, and a heading is still the first.
ReadOther ==
    /\ Reads("docx", Other)
    /\ UNCHANGED <<format, phase, title, events, listed, issues, images, kept, total, pages>>

-----------------------------------------------------------------------------
(* convert_pdf                                                             *)

PdfTexts == {"text", "long text"}
PdfPages == PdfTexts \cup {"blank", "unreadable"}

\* Its title is its number, its text a paragraph.
PdfPage(i, kind) ==
    Page(<<Piece(At(i, 1, 0), "number")>>,
         <<<<Node("paragraph", 0, <<Piece(At(i, 1, 1), kind)>>, {})>>>>)

ReadPage(p) ==
    /\ Reads("pdf", p)
    /\ pages' = IF p \in PdfTexts
                THEN [i \in DOMAIN pages \cup {Here} |-> IF i = Here THEN PdfPage(i, p) ELSE pages[i]]
                ELSE pages
    /\ issues' = issues
          \cup {Issue("page_extraction_failed", At(Here, 1, 0)) : q \in {p} \cap {"unreadable"}}
          \cup {Issue("empty_page_dropped", At(Here, 1, 0)) : q \in {p} \ PdfTexts}
    /\ UNCHANGED <<format, phase, title, events, listed, images, kept, total>>

-----------------------------------------------------------------------------
(* The pages                                                               *)

\* _group_sections: one begins with the document and one at every page break.
Sections(all) == {0} \cup {s \in DOMAIN all : all[s].kind = "page_break"}
BlocksOf(all, s) ==
    {e \in DOMAIN all : s < e /\ \A f \in (s + 1)..e : all[f].kind = "block"}

\* _finalize_pages: the sections with nothing in them are dropped.
Filled(all) == {s \in Sections(all) : BlocksOf(all, s) # {}}
PagesOf(all) ==
    [s \in Filled(all) |->
        Page(IF s = 0 THEN <<>> ELSE all[s].title,
             [e \in BlocksOf(all, s) |-> all[e].nodes])]
EmptySections(all) ==
    {Issue("empty_section_dropped", all[s].at) : s \in Sections(all) \ (Filled(all) \cup {0})}

\* Refused: not what its name says, not readable, encrypted, an archive too large.
Refuse ==
    /\ phase = "reading" /\ source = <<>>
    /\ phase' = "refused"
    /\ UNCHANGED <<format, source, title, events, listed, issues, images, kept, total, pages>>

EndOfDocument ==
    /\ phase = "reading"
    /\ LET all == events \o Flushed
           made == IF format = "pdf" THEN pages ELSE PagesOf(all)
       IN /\ pages' = made
          /\ issues' = issues \cup IF format = "pdf" THEN {} ELSE EmptySections(all)
          /\ phase' = IF Cardinality(DOMAIN made) \in 1..MaxPages THEN "converted" ELSE "refused"
    /\ UNCHANGED <<format, source, title, events, listed, images, kept, total>>

-----------------------------------------------------------------------------
(* import_document                                                         *)

\* In the order of the file.
Sooner(a, b) == a.block < b.block \/ (a.block = b.block /\ a.nth < b.nth)
Stays(size) == size <= MaxImage /\ total + size <= MaxTotal

\* What is too large for the module counts against it all the same.
WeighImage ==
    /\ phase = "converted"
    /\ \E at \in images, size \in ImageSizes :
          /\ \A other \in images \ {at} : Sooner(at, other)
          /\ images' = images \ {at}
          /\ total' = IF size <= MaxImage THEN total + size ELSE total
          /\ kept' = IF Stays(size) THEN kept \cup {at} ELSE kept
          /\ issues' = IF Stays(size) THEN issues ELSE issues \cup {Issue("image_dropped", at)}
    /\ UNCHANGED <<format, phase, source, title, events, listed, pages>>

\* _rewrite_image_placeholders, on the images of one block and on those of a page.
Stored(nodes) ==
    [k \in {j \in DOMAIN nodes : nodes[j].type = "image" => nodes[j].pieces[1].at \in kept} |->
        IF nodes[k].type = "image" THEN [nodes[k] EXCEPT !.attr = AssetUrl] ELSE nodes[k]]
Rewritten(p) ==
    Page(p.title,
         [e \in {f \in DOMAIN p.blocks : DOMAIN Stored(p.blocks[f]) # {}} |-> Stored(p.blocks[e])])

\* _drop_empty_pages: they are left blank.
BlankPage(heading) == Page(heading, <<<<Node("paragraph", 0, <<>>, {})>>>>)
Finished(p) == IF DOMAIN Rewritten(p).blocks = {} THEN BlankPage(p.title) ELSE Rewritten(p)

BlockTypes == {"paragraph", "heading", "bullets", "numbers", "quote", "fence", "rule", "image"}

\* The document is the first level and a node's text one more.
Depth(n) ==
    2 + Cardinality(n.within) + IF n.type # "image" /\ DOMAIN n.pieces # {} THEN 1 ELSE 0
Inside(nodes, k) == {c \in DOMAIN nodes : nodes[c].within = nodes[k].within \cup {k}}

\* An address of more than 2048 characters, and a mark that Node.check finds twice.
BadlyMarked == {"long link", "twice marked"}

\* validate_document: the limits and attributes of _walk and the marks of
\* Node.check, then the content the checked-in schema allows in a node.
Allowed(n) ==
    /\ Depth(n) <= MaxDepth
    /\ n.type = "heading" => n.attr \in 2..4
    /\ n.type = "numbers" => n.attr >= 1
    /\ n.type = "fence" => n.attr # LongLanguage
    /\ n.type = "image" => n.attr = AssetUrl
    /\ \A i \in DOMAIN n.pieces : n.pieces[i].kind \notin BadlyMarked
Fits(nodes, k) ==
    /\ nodes[k].within = {} => nodes[k].type \in BlockTypes
    /\ nodes[k].type \in Containers => Inside(nodes, k) # {}
    /\ \A c \in Inside(nodes, k) :
          nodes[c].type \in
              IF nodes[k].type \in Lists THEN {"item"}
              ELSE IF nodes[k].type = "item" /\ \A d \in Inside(nodes, k) : c <= d THEN {"paragraph"}
              ELSE BlockTypes
Conforms(nodes) == \A k \in DOMAIN nodes : Allowed(nodes[k]) /\ Fits(nodes, k)

WellFormed(p) == DOMAIN p.blocks # {} /\ \A e \in DOMAIN p.blocks : Conforms(p.blocks[e])

\* _NodeCounter and _check_size: the document, its blocks and the texts in them.
NodesIn(p) == UNION {{p.blocks[e][k] : k \in DOMAIN p.blocks[e]} : e \in DOMAIN p.blocks}
PlacesIn(p) == UNION {{<<e, k>> : k \in DOMAIN p.blocks[e]} : e \in DOMAIN p.blocks}
TextsIn(p) ==
    UNION {{n.pieces[i] : i \in DOMAIN n.pieces} : n \in {m \in NodesIn(p) : m.type # "image"}}
Count(p) == 1 + Cardinality(PlacesIn(p)) + Cardinality(TextsIn(p))
Bytes(p) ==
    Count(p) + LongText * Cardinality({text \in TextsIn(p) : text.kind = "long text"})
TooLarge(p) == Count(p) > MaxNodes \/ Bytes(p) > MaxBytes

ValidPage(p) == WellFormed(p) /\ ~TooLarge(p)

Assemble ==
    /\ phase = "converted" /\ images = {}
    /\ pages' = [s \in DOMAIN pages |-> Finished(pages[s])]
    /\ issues' = issues \cup
          {Issue("page_left_blank", At(s, 0, 0)) :
              s \in {t \in DOMAIN pages : DOMAIN Rewritten(pages[t]).blocks = {}}}
    /\ phase' = IF \A s \in DOMAIN pages : ValidPage(Finished(pages[s])) THEN "created" ELSE "invalid"
    /\ UNCHANGED <<format, source, title, events, listed, images, kept, total>>

Next ==
    \/ \E b \in MarkdownBlocks : ReadBlock(b) \/ ReadBlankInfo(b)
    \/ \E p \in Paragraphs : ReadParagraph(p)
    \/ ReadTable
    \/ ReadOther
    \/ \E p \in PdfPages : ReadPage(p)
    \/ Refuse
    \/ EndOfDocument
    \/ WeighImage
    \/ Assemble

Spec == Init /\ [][Next]_vars

-----------------------------------------------------------------------------
(* Properties                                                              *)

\* Where a reader of the module meets which piece.
Showing(page, event, node, nth, piece) ==
    [page |-> page, event |-> event, node |-> node, nth |-> nth, piece |-> piece]
BlockShows(s, e, nodes) ==
    UNION {{Showing(s, e, k, n, nodes[k].pieces[n]) : n \in DOMAIN nodes[k].pieces} : k \in DOMAIN nodes}
PageShows(s, p) ==
    {Showing(s, 0, 0, n, p.title[n]) : n \in DOMAIN p.title}
    \cup UNION {BlockShows(s, e, p.blocks[e]) : e \in DOMAIN p.blocks}
Shown ==
    {Showing(-1, 0, 0, n, title[n]) : n \in DOMAIN title}
    \cup UNION {PageShows(s, pages[s]) : s \in DOMAIN pages}

Before(x, y) ==
    \/ x.page < y.page
    \/ x.page = y.page /\ \/ x.event < y.event
                          \/ x.event = y.event /\ \/ x.node < y.node
                                                  \/ x.node = y.node /\ x.nth < y.nth

\* The order of the file, but that the images of a node come after its text.
Late(piece) == IF piece.kind = "image" THEN 1 ELSE 0
Earlier(p, q) ==
    \/ p.at.block < q.at.block
    \/ p.at.block = q.at.block /\ \/ p.at.node < q.at.node
                                  \/ p.at.node = q.at.node /\ \/ Late(p) < Late(q)
                                                              \/ Late(p) = Late(q) /\ p.at.nth < q.at.nth

\* The pieces there are in a block of the file.
Written(inline, i, k) == {Piece(At(i, k, n), inline[n]) : n \in DOMAIN inline}
WrittenIn(i) ==
    CASE format = "markdown" -> UNION {Written(source[i][k].inline, i, k) : k \in DOMAIN source[i]}
      [] format = "pdf" -> {Piece(At(i, 1, 1), p) : p \in {source[i]} \ {"blank"}}
      [] OTHER -> CASE source[i].type = "table" -> {Piece(At(i, 1, 1), "cell")}
                    [] source[i].type = "other" -> {Piece(At(i, 1, 1), "passed over")}
                    [] OTHER -> Written(source[i].inline, i, 1)

\* Which issue tells of which piece.
Tells(issue, piece) ==
    CASE issue.code \in {"unsupported_block_dropped", "empty_section_dropped", "page_extraction_failed"} ->
            issue.at = At(piece.at.block, piece.at.node, 0)
      [] issue.code \in {"image_reference_dropped", "image_dropped", "unsupported_inline_dropped"} ->
            issue.at = piece.at
      [] issue.code = "image_unavailable" -> piece.kind = "missing image"
      [] issue.code = "table_dropped" -> piece.kind = "cell"
      [] OTHER -> FALSE

AsShown(piece) ==
    IF piece.kind = "captioned image" THEN Piece(piece.at, "image") ELSE piece

\* Losses of a Word file that no issue tells of: an image kept elsewhere and linked
\* to (_extract_docx_image), a picture that is a link, whatever in a paragraph is
\* neither a run nor a link (_docx_runs_to_pm), and whatever in the body is neither
\* a paragraph nor a table (_iter_block_items).  The docstring of
\* document_import.py (lines 4 to 7) promises an issue for each.
Silent == {"linked image", "pictured link", "passed over"}

\* A module that was created shows every text and image of the file once and in
\* the order of the file, or its report tells of it: through list flushing, page
\* breaks, dropped sections and images.  The exceptions are those of Silent and
\* the text of a run that also holds a drawing, which _docx_runs_to_pm skips:
\* a "captioned image" is shown as its image.
NothingIsLost ==
    phase = "created" =>
        /\ \A i \in DOMAIN source : \A piece \in WrittenIn(i) :
              \/ piece.kind \in Silent
              \/ \E x \in Shown : x.piece = AsShown(piece)
              \/ \E issue \in issues : Tells(issue, piece)
        /\ \A x, y \in Shown : Before(x, y) => Earlier(x.piece, y.piece)

\* What the converters let through and the validator does not take in a block: a
\* list that starts at nought, a link or a language of more than 2048 characters,
\* text with the same mark twice, a list item that starts with something else than
\* a paragraph, blocks nested too deeply.
StartsOtherwise(b, k) ==
    \E c \in Kept(b) :
        /\ b[c].within = b[k].within \cup {k} /\ b[c].type # "paragraph"
        /\ \A d \in Kept(b) : b[d].within = b[k].within \cup {k} => c <= d
Height(b, k) ==
    2 + Cardinality(b[k].within) + IF Texts(b[k].inline) # {} THEN 1 ELSE 0
Unfit(b) ==
    \E k \in Kept(b) :
        \/ b[k].type = "numbers" /\ b[k].level = 0
        \/ b[k].type = "item" /\ StartsOtherwise(b, k)
        \/ b[k].type = "fence" /\ b[k].level = LongLanguage
        \/ \E n \in DOMAIN b[k].inline : b[k].inline[n] \in BadlyMarked
        \/ Height(b, k) > MaxDepth
        \/ k \in Bare(b) /\ 2 + Cardinality(b[k].within \cup {k}) > MaxDepth

\* The blocks that become titles, whose links are dropped with all formatting.
IsTitle(i) ==
    CASE format = "markdown" ->
            source[i][1].type = "heading" /\ (source[i][1].level = 2 \/ (source[i][1].level = 1 /\ i = 1))
      [] format = "docx" ->
            /\ source[i].type = "paragraph"
            /\ source[i].heading = 2 \/ (source[i].heading = 1 /\ IsFirst(i))
      [] OTHER -> FALSE
Objectionable(i) ==
    CASE format = "markdown" -> Unfit(source[i])
      [] format = "docx" ->
            /\ source[i].type = "paragraph"
            /\ \E n \in DOMAIN source[i].inline : source[i].inline[n] \in BadlyMarked
      [] OTHER -> FALSE

\* The validator refuses a document for one of those reasons, or because a page of
\* it is too large, and for no other: whatever else is in the file, every page the
\* converters build and the images leave is one the schema allows, so an import
\* fails after its images were stored in these cases only.
RefusalIsExplained ==
    phase \in {"created", "invalid"} =>
        (phase = "invalid" <=>
            \/ \E i \in DOMAIN source : ~IsTitle(i) /\ Objectionable(i)
            \/ \E s \in DOMAIN pages : TooLarge(pages[s]))
=============================================================================
