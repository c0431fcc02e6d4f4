------------------------- MODULE MCDocumentImport -------------------------
(***************************************************************************)
(* Small files for DocumentImport: every kind of block and of inline text, *)
(* lists and quotes of up to two blocks, and a list within a list, which   *)
(* the bound on the depth refuses.                                         *)
(***************************************************************************)
EXTENDS DocumentImport

Top(type, level, inline) ==
    <<[type |-> type, level |-> level, inline |-> inline, within |-> {}]>>
Shifted(b, by, outer) ==
    [k \in DOMAIN b |-> [b[k] EXCEPT !.within = outer \cup {w + by : w \in @}]]
\* One after the other, and one in the other.
Beside(a, b) == a \o Shifted(b, Len(a), {})
Around(a, b) == a \o Shifted(b, 1, {1})

Text(type) == Top(type, 3, <<"text">>)
Item(blocks) == Around(Top("item", 0, <<>>), blocks)
Bullets(items) == Around(Top("bullets", 1, <<>>), items)

\* Markdown's inline text: words, a reference to an image, a struck-out word.
Inlines == {<<"text">>, <<"long text">>, <<"image">>, <<"image", "text">>,
            <<"bad link", "struck">>, <<"long link">>, <<"twice marked">>}
Fences == {Top("fence", info, <<"text">>) : info \in 0..LongLanguage}
Inner == {Text("paragraph"), Top("paragraph", 3, <<"image">>), Text("heading"),
          Bullets(Item(Text("paragraph")))}
Content == {<<>>, Beside(Text("heading"), Text("paragraph"))}
           \cup Inner \cup {Beside(Text("paragraph"), b) : b \in Inner}

MCMarkdownBlocks ==
    {Top("heading", level, inline) :
        level \in {1, 2, 5}, inline \in {<<>>, <<"text">>, <<"image", "struck">>}}
    \cup {Top("paragraph", 0, inline) : inline \in Inlines}
    \cup {Bullets(Item(c)) : c \in Content}
    \cup {Around(Top("numbers", start, <<>>), Beside(Item(Text("paragraph")), Item(<<>>))) :
            start \in {0, 3}}
    \cup {Around(Top("quote", 0, <<>>), c) :
            c \in {<<>>, Text("heading"), Top("paragraph", 3, <<"image">>)}}
    \cup Fences
    \cup {Top("rule", 0, <<>>), Text("table")}

Styled(heading, list, inline) ==
    [type |-> "paragraph", heading |-> heading, list |-> list, inline |-> inline]
MCParagraphs ==
    {Styled(0, list, inline) :
        list \in {"none", "bullets", "numbers", "unclassified"},
        inline \in {<<>>, <<"text">>, <<"image", "text">>, <<"captioned image">>,
                    <<"bad link", "bad image">>}}
    \cup {Styled(0, "none", <<kind>>) :
        kind \in {"long text", "long link", "missing image", "linked image", "passed over"}}
    \cup {Styled(0, "none", <<"text", "pictured link">>)}
    \cup {Styled(heading, "none", inline) :
        heading \in {1, 2, 5}, inline \in {<<>>, <<"text">>, <<"image", "text">>, <<"long link">>}}
    \cup {Styled(heading, "unclassified", <<"text">>) : heading \in {1, 2, 5}}

-----------------------------------------------------------------------------
(* _convert_markdown_node and _convert_markdown_children as they call each *)
(* other: Convert is what they come to.                                    *)

RECURSIVE Built(_, _)
Built(b, k) ==
    LET content == UNION {Built(b, c) : c \in Inside(b, k)}
        node == b[k]
    IN CASE node.type = "item" ->
              {k} \cup IF content = {} THEN {Len(b) + k} ELSE content
         [] node.type \in Lists \cup {"quote"} ->
              IF content = {} THEN {} ELSE {k} \cup content
         [] node.type = "heading" -> IF Texts(node.inline) = {} THEN {} ELSE {k}
         [] node.type = "paragraph" -> IF node.inline = <<"image">> THEN {} ELSE {k}
         [] node.type \in {"fence", "rule"} -> {k}
         [] OTHER -> {}

\* Also for blocks one and two levels further in.
Deeper(blocks) ==
    {Around(Top("quote", 0, <<>>), b) : b \in blocks} \cup {Bullets(Item(b)) : b \in blocks}
ASSUME ConvertIsTheRecursion ==
    LET blocks == MCMarkdownBlocks
    IN \A b \in blocks \cup Deeper(blocks) \cup Deeper(Deeper(blocks)) :
          DOMAIN Convert(b, 1) = Built(b, 1)
=============================================================================
