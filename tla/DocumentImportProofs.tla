------------------------ MODULE DocumentImportProofs ------------------------
(***************************************************************************)
(* Proofs about DocumentImport: whatever the file, its blocks, the limits  *)
(* and the sizes of its images, an import that succeeds shows or reports   *)
(* every piece of the file in its order but for the kinds that Silent      *)
(* names, and the validator refuses what the converters built for the      *)
(* reasons RefusalIsExplained lists only.                                  *)
(***************************************************************************)
EXTENDS DocumentImport, SequenceTheorems, FiniteSetTheorems, WellFoundedInduction, TLAPS

-----------------------------------------------------------------------------
(* The inductive invariant                                                 *)

Values(s) == {s[e] : e \in DOMAIN s}
IsSeq(s) == s \in Seq(Values(s))

NodePieces(nodes) ==
    UNION {{nodes[k].pieces[n] : n \in DOMAIN nodes[k].pieces} : k \in DOMAIN nodes}
TextPieces(text) == {text[n] : n \in DOMAIN text}
PiecesOf(ev) == NodePieces(ev.nodes) \cup TextPieces(ev.title)

\* What some events have in their blocks, and in the titles of their sections.
Body(all) == UNION {NodePieces(ev.nodes) : ev \in Values(all)}
Headings(all) == UNION {TextPieces(ev.title) : ev \in Values(all)}
Pieces(all) == Body(all) \cup Headings(all)

\* The events there would be if the document ended here.
All == events \o Flushed

Addresses == [block : Nat, node : Nat, nth : Nat]
IsText(text) == DOMAIN text \subseteq Nat /\ \A n \in DOMAIN text : text[n].at \in Addresses
IsTree(nodes) ==
    DOMAIN nodes \subseteq Nat /\ \A k \in DOMAIN nodes : IsText(nodes[k].pieces)
\* The title of a section is a text of one node, where the section begins.
IsEvent(ev) ==
    /\ IsTree(ev.nodes) /\ IsText(ev.title)
    /\ \/ ev.kind = "block" /\ DOMAIN ev.nodes # {} /\ DOMAIN ev.title = {}
       \/ /\ ev.kind = "page_break" /\ DOMAIN ev.nodes = {}
          /\ \A p \in TextPieces(ev.title) : ev.at = At(p.at.block, p.at.node, 0)

OrderedText(text) == \A m, n \in DOMAIN text : m < n => Earlier(text[m], text[n])
OrderedNodes(nodes) ==
    \A j, k \in DOMAIN nodes : \A m \in DOMAIN nodes[j].pieces, n \in DOMAIN nodes[k].pieces :
        j < k \/ (j = k /\ m < n) => Earlier(nodes[j].pieces[m], nodes[k].pieces[n])
AllBefore(P, Q) == \A p \in P, q \in Q : Earlier(p, q)

\* Events whose pieces come from the first n blocks and are in their order.
Sound(all, n) ==
    /\ IsSeq(all)
    /\ \A ev \in Values(all) :
          /\ IsEvent(ev) /\ OrderedNodes(ev.nodes) /\ OrderedText(ev.title)
          /\ \A p \in PiecesOf(ev) : p.at.block \in 1..n
    /\ \A e, f \in DOMAIN all : e < f => AllBefore(PiecesOf(all[e]), PiecesOf(all[f]))

TypeInv ==
    /\ format \in Formats
    /\ phase \in {"reading", "failed", "refused", "converted", "created", "invalid"}
    /\ source \in Seq(CASE format = "markdown" -> MarkdownBlocks
                        [] format = "docx" -> Paragraphs \cup {Table, Other}
                        [] OTHER -> PdfPages)
    /\ IsSeq(events)

TitleFirst ==
    /\ IsText(title) /\ OrderedText(title)
    /\ \A p \in TextPieces(title) : p.at.block \in DOMAIN source
    /\ AllBefore(TextPieces(title), Pieces(All))
    /\ format = "pdf" => DOMAIN title = {}
    \* Until there is a first paragraph or table, nothing stands before it.
    /\ format = "docx" /\ (\A i \in DOMAIN source : source[i] = Other) =>
          Pieces(All) = {} /\ TextPieces(title) = {}

\* Every piece is collected, told of or passed over in silence.
Accounted ==
    \A i \in DOMAIN source : \A piece \in WrittenIn(i) :
        \/ piece.kind \in Silent
        \/ format = "pdf" /\ source[i] \in PdfTexts
        \/ AsShown(piece) \in TextPieces(title)
        \/ AsShown(piece) \in Pieces(All)
        \/ \E issue \in issues : Tells(issue, piece)

\* The blocks of a Markdown file become blocks of their own.
FromMarkdown ==
    format = "markdown" =>
        /\ listed = <<>>
        /\ \A ev \in Values(All) : ev.kind = "block" =>
              \E i \in DOMAIN source : ~IsTitle(i) /\ ev.nodes = Convert(source[i], i)
        /\ \A i \in DOMAIN source : ~IsTitle(i) /\ Kept(source[i]) # {} =>
              \E ev \in Values(All) : ev.kind = "block" /\ ev.nodes = Convert(source[i], i)

\* What is built of a Word file: a paragraph or heading, a list, images.
WordText(text) == \A p \in TextPieces(text) : p.kind \in BecomesText
IsLine(nodes) ==
    /\ DOMAIN nodes = {1} /\ nodes[1].within = {} /\ WordText(nodes[1].pieces)
    /\ \/ nodes[1].type = "paragraph"
       \/ nodes[1].type = "heading" /\ nodes[1].attr \in 2..4
IsList(nodes) ==
    /\ IsSeq(nodes) /\ Len(nodes) >= 3
    /\ nodes[1] = Node(nodes[1].type, 1, <<>>, {}) /\ nodes[1].type \in Lists
    /\ nodes[2].type = "item"
    /\ \A k \in 2..Len(nodes) :
          \/ /\ nodes[k] = Node("item", 0, <<>>, {1})
             /\ k < Len(nodes) /\ nodes[k + 1].type = "paragraph"
          \/ /\ nodes[k] = Node("paragraph", 0, nodes[k].pieces, {1, k - 1})
             /\ k >= 3 /\ nodes[k - 1].type = "item" /\ WordText(nodes[k].pieces)
IsPictures(nodes) ==
    \A k \in DOMAIN nodes :
        /\ nodes[k].type = "image" /\ nodes[k].within = {}
        /\ nodes[k].pieces = <<Piece(nodes[k].pieces[1].at, "image")>>
IsWord(nodes) == IsLine(nodes) \/ IsList(nodes) \/ IsPictures(nodes)

FromWord ==
    format = "docx" =>
        /\ listed = <<>> \/ IsList(listed)
        /\ \A ev \in Values(All) : ev.kind = "block" => IsWord(ev.nodes)
        /\ \A p \in Body(All) :
              /\ p.kind \in BadlyMarked =>
                    p.at.block \in DOMAIN source /\ ~IsTitle(p.at.block) /\ Objectionable(p.at.block)
              /\ p.kind = "image" =>
                    p.at \in images \cup kept \/ Issue("image_dropped", p.at) \in issues
        /\ \A i \in DOMAIN source : ~IsTitle(i) /\ Objectionable(i) =>
              \E p \in Body(All) : p.kind \in BadlyMarked

Collected ==
    /\ Sound(All, Len(source))
    /\ TitleFirst
    /\ Accounted
    /\ FromMarkdown
    /\ FromWord
    /\ format = "pdf" => events = <<>> /\ listed = <<>>

PdfMade == [i \in {j \in DOMAIN source : source[j] \in PdfTexts} |-> PdfPage(i, source[i])]
Made == IF format = "pdf" THEN PdfMade ELSE PagesOf(All)

Judged ==
    /\ phase = "reading" /\ format = "pdf" => pages = PdfMade
    /\ phase \in {"converted", "created", "invalid"} /\ format # "pdf" =>
          EmptySections(All) \subseteq issues
    /\ phase = "converted" => pages = Made
    /\ phase \in {"created", "invalid"} =>
          /\ images = {}
          /\ pages = [s \in DOMAIN Made |-> Finished(Made[s])]
          /\ phase = "created" <=> \A s \in DOMAIN Made : ValidPage(Finished(Made[s]))

ImportInv == TypeInv /\ (phase # "failed" => Collected) /\ Judged

-----------------------------------------------------------------------------
(* Sequences and their elements                                            *)

\* The empty sequence and its values.
LEMMA NoValues ==
    IsSeq(<<>>) /\ Values(<<>>) = {} /\ Len(<<>>) = 0 /\ DOMAIN <<>> = {}
<1>1. DOMAIN <<>> = {}
  OBVIOUS
<1>2. Values(<<>>) = {}
  BY <1>1 DEF Values
<1>3. <<>> \in Seq({}) /\ Len(<<>>) = 0
  BY EmptySeq
<1> QED BY <1>1, <1>2, <1>3 DEF IsSeq

\* A sequence of one.
LEMMA OneSeq ==
    ASSUME NEW x
    PROVE  IsSeq(<<x>>) /\ Values(<<x>>) = {x} /\ Len(<<x>>) = 1 /\ DOMAIN <<x>> = {1}
BY DEF IsSeq, Values

\* The events are numbered from 1.
LEMMA SeqDomain ==
    ASSUME NEW s, IsSeq(s)
    PROVE  Len(s) \in Nat /\ DOMAIN s = 1..Len(s)
BY DEF IsSeq

\* What follows comes after, and nothing is lost or made up.
LEMMA Joined ==
    ASSUME NEW s, IsSeq(s), NEW t, IsSeq(t)
    PROVE  /\ IsSeq(s \o t) /\ Len(s \o t) = Len(s) + Len(t)
           /\ Values(s \o t) = Values(s) \cup Values(t)
           /\ \A e \in 1..Len(s) : (s \o t)[e] = s[e]
           /\ \A e \in 1..Len(t) : (s \o t)[Len(s) + e] = t[e]
           /\ \A e \in (Len(s) + 1)..(Len(s) + Len(t)) : (s \o t)[e] = t[e - Len(s)]
<1> DEFINE S == Values(s) \cup Values(t)
           j == s \o t
<1>1. s \in Seq(S) /\ t \in Seq(S)
  BY SeqDomain, ElementOfSeq DEF IsSeq, Values
<1>2. j \in Seq(S) /\ Len(j) = Len(s) + Len(t)
      /\ \A e \in 1..(Len(s) + Len(t)) : j[e] = IF e <= Len(s) THEN s[e] ELSE t[e - Len(s)]
  BY <1>1, ConcatProperties
<1>3. Len(s) \in Nat /\ Len(t) \in Nat /\ DOMAIN s = 1..Len(s) /\ DOMAIN t = 1..Len(t)
  BY SeqDomain
<1>4. DOMAIN j = 1..(Len(s) + Len(t))
  BY <1>2
<1>5. \A e \in 1..Len(s) : j[e] = s[e]
  BY <1>2, <1>3
<1>6. \A e \in 1..Len(t) : Len(s) + e \in DOMAIN j /\ j[Len(s) + e] = t[e]
  <2> SUFFICES ASSUME NEW e \in 1..Len(t)
               PROVE  Len(s) + e \in DOMAIN j /\ j[Len(s) + e] = t[e]
    OBVIOUS
  <2>1. Len(s) + e \in 1..(Len(s) + Len(t)) /\ ~(Len(s) + e <= Len(s)) /\ Len(s) + e - Len(s) = e
    BY <1>3
  <2> QED BY <2>1, <1>2, <1>4
<1>7. \A e \in (Len(s) + 1)..(Len(s) + Len(t)) : j[e] = t[e - Len(s)]
  BY <1>2, <1>3
<1>8. Values(j) = Values(s) \cup Values(t)
  <2>1. Values(j) \subseteq Values(s) \cup Values(t)
    <3> SUFFICES ASSUME NEW e \in DOMAIN j PROVE j[e] \in Values(s) \cup Values(t)
      BY DEF Values
    <3>1. CASE e <= Len(s)
      BY <3>1, <1>3, <1>4, <1>5 DEF Values
    <3>2. CASE e > Len(s)
      <4>1. e \in (Len(s) + 1)..(Len(s) + Len(t)) /\ e - Len(s) \in DOMAIN t
        BY <3>2, <1>3, <1>4
      <4> QED BY <4>1, <1>7 DEF Values
    <3> QED BY <3>1, <3>2, <1>3, <1>4
  <2>2. Values(s) \subseteq Values(j)
    BY <1>3, <1>4, <1>5 DEF Values
  <2>3. Values(t) \subseteq Values(j)
    BY <1>3, <1>6 DEF Values
  <2> QED BY <2>1, <2>2, <2>3
<1>9. j \in Seq(Values(j))
  <2>1. Len(j) \in Nat /\ j \in [1..Len(j) -> S] /\ DOMAIN j = 1..Len(j)
    BY <1>2, LenProperties
  <2>2. \A e \in 1..Len(j) : j[e] \in Values(j)
    BY <2>1 DEF Values
  <2>3. j \in [1..Len(j) -> Values(j)]
    BY <2>1, <2>2
  <2> QED BY <2>1, <2>3, SeqDef
<1> QED BY <1>2, <1>5, <1>6, <1>7, <1>8, <1>9 DEF IsSeq

\* Nothing more was converted.
LEMMA JoinedEmpty ==
    ASSUME NEW s, IsSeq(s)
    PROVE  s \o <<>> = s
BY ConcatEmptySeq DEF IsSeq

\* A builder gives one block or none.
LEMMA GivenValues ==
    ASSUME NEW nodes
    PROVE  /\ IsSeq(Given(nodes))
           /\ Values(Given(nodes)) = IF DOMAIN nodes = {} THEN {} ELSE {Block(nodes)}
           /\ Given(nodes) = IF DOMAIN nodes = {} THEN <<>> ELSE <<Block(nodes)>>
BY NoValues, OneSeq DEF Given

\* The least of some numbers: induction, where it takes a set.
LEMMA Least ==
    ASSUME NEW T, T \subseteq Nat, T # {}
    PROVE  \E x \in T : \A y \in T : x <= y
<1> DEFINE R == OpToRel(<, Nat)
<1>1. IsWellFoundedOn(R, Nat)
  BY NatLessThanWellFounded
<1>2. \E x \in T : \A y \in T : ~(<<y, x>> \in R)
  BY <1>1, WFMin
<1>3. \A x, y \in Nat : <<y, x>> \in R <=> y < x
  BY DEF OpToRel
<1>4. PICK x \in T : \A y \in T : ~(<<y, x>> \in R)
  BY <1>2
<1> HIDE DEF R
<1>5. \A y \in T : ~(y < x)
  BY <1>3, <1>4
<1>6. \A y \in T : x <= y
  BY <1>5
<1> QED BY <1>6

-----------------------------------------------------------------------------
(* Pieces and their order                                                  *)

\* The fields of an address.
LEMMA AddressOf ==
    ASSUME NEW i \in Nat, NEW k \in Nat, NEW n \in Nat
    PROVE  /\ At(i, k, n) \in Addresses
           /\ At(i, k, n).block = i /\ At(i, k, n).node = k /\ At(i, k, n).nth = n
BY DEF At, Addresses

\* The fields of a piece.
LEMMA PieceOf ==
    ASSUME NEW at, NEW kind
    PROVE  Piece(at, kind).at = at /\ Piece(at, kind).kind = kind
BY DEF Piece

\* Of two pieces one at most is earlier.
LEMMA NoneFirst ==
    ASSUME NEW p, NEW q, p.at \in Addresses, q.at \in Addresses, Earlier(p, q)
    PROVE  ~Earlier(q, p)
BY DEF Earlier, Late, Addresses

\* The text of a node, its pieces where they stand in the file.
LEMMA TextOfIs ==
    ASSUME NEW i \in Nat, NEW k \in Nat, NEW inline, DOMAIN inline \subseteq Nat
    PROVE  /\ DOMAIN TextOf(inline, i, k) = Texts(inline)
           /\ IsText(TextOf(inline, i, k)) /\ OrderedText(TextOf(inline, i, k))
           /\ WordText(TextOf(inline, i, k))
           /\ \A p \in TextPieces(TextOf(inline, i, k)) :
                 /\ p = Piece(At(i, k, p.at.nth), inline[p.at.nth])
                 /\ p.at.block = i /\ p.at.node = k
                 /\ p.at.nth \in Texts(inline) /\ p.kind = inline[p.at.nth]
           /\ \A n \in Texts(inline) :
                 Piece(At(i, k, n), inline[n]) \in TextPieces(TextOf(inline, i, k))
<1> DEFINE text == TextOf(inline, i, k)
<1>1. DOMAIN text = Texts(inline) /\ Texts(inline) \subseteq Nat
  BY DEF TextOf, Texts
<1>2. ASSUME NEW n \in Texts(inline)
      PROVE  /\ text[n] = Piece(At(i, k, n), inline[n])
             /\ text[n].at = At(i, k, n) /\ text[n].kind = inline[n]
             /\ text[n].at \in Addresses /\ text[n].at.block = i /\ text[n].at.node = k
             /\ text[n].at.nth = n /\ inline[n] \in BecomesText
  BY <1>1, AddressOf, PieceOf DEF TextOf, Texts
<1>3. ASSUME NEW m \in Texts(inline), NEW n \in Texts(inline), m < n
      PROVE  Earlier(text[m], text[n])
  <2>1. text[m].kind # "image" /\ text[n].kind # "image"
    BY <1>2 DEF BecomesText
  <2> QED BY <2>1, <1>2, <1>3 DEF Earlier, Late
<1> QED
  BY <1>1, <1>2, <1>3 DEF IsText, OrderedText, WordText, TextPieces

\* Events that follow others and whose pieces all come later in the file.
LEMMA SoundJoined ==
    ASSUME NEW m \in Nat, NEW n \in Nat, m <= n, NEW s, Sound(s, m), NEW t, Sound(t, n),
           AllBefore(Pieces(s), Pieces(t))
    PROVE  Sound(s \o t, n)
<1> DEFINE j == s \o t
<1>1. IsSeq(s) /\ IsSeq(t)
  BY DEF Sound
<1>2. IsSeq(j) /\ Values(j) = Values(s) \cup Values(t)
  BY <1>1, Joined
<1>3. Len(s) \in Nat /\ Len(t) \in Nat /\ DOMAIN s = 1..Len(s) /\ DOMAIN t = 1..Len(t)
      /\ DOMAIN j = 1..(Len(s) + Len(t))
  BY <1>1, <1>2, SeqDomain, Joined
<1>4. ASSUME NEW ev \in Values(j)
      PROVE  /\ IsEvent(ev) /\ OrderedNodes(ev.nodes) /\ OrderedText(ev.title)
             /\ \A p \in PiecesOf(ev) : p.at.block \in 1..n
  BY <1>2, <1>4 DEF Sound
<1>5. ASSUME NEW e \in DOMAIN j, NEW f \in DOMAIN j, e < f
      PROVE  AllBefore(PiecesOf(j[e]), PiecesOf(j[f]))
  <2>1. CASE f <= Len(s)
    <3>1. e \in DOMAIN s /\ f \in DOMAIN s /\ j[e] = s[e] /\ j[f] = s[f]
      BY <2>1, <1>1, <1>3, <1>5, Joined
    <3> QED BY <3>1, <1>5 DEF Sound
  <2>2. CASE e > Len(s)
    <3>1. /\ e - Len(s) \in DOMAIN t /\ f - Len(s) \in DOMAIN t /\ e - Len(s) < f - Len(s)
          /\ e \in (Len(s) + 1)..(Len(s) + Len(t)) /\ f \in (Len(s) + 1)..(Len(s) + Len(t))
      BY <2>2, <1>3, <1>5
    <3>2. j[e] = t[e - Len(s)] /\ j[f] = t[f - Len(s)]
      BY <3>1, <1>1, Joined
    <3> QED BY <3>1, <3>2 DEF Sound
  <2>3. CASE e <= Len(s) /\ f > Len(s)
    <3>1. e \in DOMAIN s /\ f - Len(s) \in DOMAIN t /\ f \in (Len(s) + 1)..(Len(s) + Len(t))
      BY <2>3, <1>3
    <3>2. j[e] = s[e] /\ j[f] = t[f - Len(s)]
      BY <3>1, <1>1, <1>3, Joined
    <3>3. j[e] \in Values(s) /\ j[f] \in Values(t)
      BY <3>1, <3>2 DEF Values
    <3>4. PiecesOf(j[e]) \subseteq Pieces(s) /\ PiecesOf(j[f]) \subseteq Pieces(t)
      BY <3>3 DEF Pieces, Body, Headings, PiecesOf
    <3> QED BY <3>4 DEF AllBefore
  <2> QED BY <2>1, <2>2, <2>3, <1>3
<1> QED BY <1>2, <1>4, <1>5 DEF Sound

\* Nothing collected is sound.
LEMMA SoundEmpty ==
    ASSUME NEW n
    PROVE  Sound(<<>>, n)
<1>1. IsSeq(<<>>) /\ Values(<<>>) = {} /\ DOMAIN <<>> = {}
  BY NoValues
<1> QED BY <1>1 DEF Sound

\* One event is sound if its pieces are in order.
LEMMA SoundOne ==
    ASSUME NEW n \in Nat, NEW ev, IsEvent(ev), OrderedNodes(ev.nodes), OrderedText(ev.title),
           \A p \in PiecesOf(ev) : p.at.block \in 1..n
    PROVE  Sound(<<ev>>, n)
<1>1. IsSeq(<<ev>>) /\ Values(<<ev>>) = {ev} /\ DOMAIN <<ev>> = {1}
  BY OneSeq
<1> QED BY <1>1 DEF Sound

\* And so it stays when more of the file has been read.
LEMMA SoundLater ==
    ASSUME NEW m \in Nat, NEW n \in Nat, m <= n, NEW s, Sound(s, m)
    PROVE  Sound(s, n)
BY DEF Sound

\* A block is an event of the pieces of its nodes, a break one of its title's.
LEMMA BlockIs ==
    ASSUME NEW nodes
    PROVE  /\ Block(nodes).kind = "block" /\ Block(nodes).nodes = nodes
           /\ DOMAIN Block(nodes).title = {}
           /\ PiecesOf(Block(nodes)) = NodePieces(nodes)
           /\ IsTree(nodes) /\ DOMAIN nodes # {} => IsEvent(Block(nodes))
           /\ OrderedText(Block(nodes).title)
BY DEF Block, PiecesOf, TextPieces, IsEvent, IsText, OrderedText

\* So is what a builder gives.
LEMMA SoundGiven ==
    ASSUME NEW n \in Nat, NEW nodes, IsTree(nodes), OrderedNodes(nodes),
           \A p \in NodePieces(nodes) : p.at.block \in 1..n
    PROVE  Sound(Given(nodes), n)
BY SoundEmpty, SoundOne, BlockIs DEF Given

-----------------------------------------------------------------------------
(* The trees of a Markdown file                                            *)

\* What the grammar says of every node of a block.
LEMMA MarkdownNode ==
    ASSUME NEW b \in MarkdownBlocks
    PROVE  /\ b \in Seq(MarkdownNodes) /\ Len(b) \in Nat /\ Len(b) >= 1 /\ DOMAIN b = 1..Len(b)
           /\ b[1].within = {} /\ b[1].type # "item"
           /\ \A k \in DOMAIN b :
                 /\ b[k].type \in Containers \cup Leaves /\ b[k].level \in Nat
                 /\ b[k].inline \in Seq(MarkdownInline) /\ DOMAIN b[k].inline \subseteq Nat
                 /\ b[k].within \subseteq Nat
                 /\ b[k].type \in Containers \cup {"rule"} => DOMAIN b[k].inline = {}
                 /\ \A n \in DOMAIN b[k].inline : b[k].inline[n] \in MarkdownInline
<1>1. b \in Seq(MarkdownNodes) /\ b # <<>>
  BY MarkdownGrammar
<1>2. Len(b) \in Nat /\ Len(b) >= 1 /\ DOMAIN b = 1..Len(b)
  BY <1>1, LenProperties, EmptySeq
<1>3. b[1].within = {} /\ b[1].type # "item"
  BY MarkdownGrammar
<1>4. ASSUME NEW k \in DOMAIN b
      PROVE  /\ b[k].type \in Containers \cup Leaves /\ b[k].level \in Nat
             /\ b[k].inline \in Seq(MarkdownInline) /\ b[k].within \subseteq Nat
  <2>1. b[k] \in MarkdownNodes
    BY <1>1, <1>2, ElementOfSeq
  <2> QED BY <2>1 DEF MarkdownNodes
<1>5. ASSUME NEW k \in DOMAIN b
      PROVE  /\ DOMAIN b[k].inline \subseteq Nat
             /\ b[k].type \in Containers \cup {"rule"} => DOMAIN b[k].inline = {}
             /\ \A n \in DOMAIN b[k].inline : b[k].inline[n] \in MarkdownInline
  <2>1. DOMAIN b[k].inline = 1..Len(b[k].inline) /\ Len(b[k].inline) \in Nat
    BY <1>4, LenProperties
  <2>2. \A n \in DOMAIN b[k].inline : b[k].inline[n] \in MarkdownInline
    BY <1>4, <2>1, ElementOfSeq
  <2>3. b[k].type \in Containers \cup {"rule"} => b[k].inline = <<>>
    BY MarkdownGrammar
  <2> QED BY <2>1, <2>2, <2>3, NoValues
<1> QED BY <1>1, <1>2, <1>3, <1>4, <1>5

\* Every node but the first lies in one before it, which is open.
LEMMA Parent ==
    ASSUME NEW b \in MarkdownBlocks, NEW k \in DOMAIN b, k # 1
    PROVE  \E p \in DOMAIN b :
              /\ p < k /\ b[k].within = b[p].within \cup {p}
              /\ b[p].type \in Containers /\ (b[k].type = "item" <=> b[p].type \in Lists)
<1>1. k \in 2..Len(b) /\ DOMAIN b = 1..Len(b) /\ Len(b) \in Nat
  BY MarkdownNode
<1>2. PICK p \in 1..(k - 1) :
         /\ b[k].within = b[p].within \cup {p}
         /\ b[p].type \in Containers
         /\ b[k].type = "item" <=> b[p].type \in Lists
  BY <1>1, MarkdownGrammar
<1>3. p \in DOMAIN b /\ p < k
  BY <1>1
<1> QED BY <1>2, <1>3

\* A node lies within earlier ones.
LEMMA WithinEarlier ==
    ASSUME NEW b \in MarkdownBlocks, NEW k \in DOMAIN b, NEW a \in b[k].within
    PROVE  a \in DOMAIN b /\ a < k
<1> DEFINE Bad == {j \in DOMAIN b : \E c \in b[j].within : ~(c \in DOMAIN b /\ c < j)}
<1>1. DOMAIN b \subseteq Nat /\ b[1].within = {}
  BY MarkdownNode
<1>2. ASSUME Bad # {}
      PROVE  FALSE
  <2>1. PICK j \in Bad : \A i \in Bad : j <= i
    BY <1>1, <1>2, Least
  <2>2. PICK c \in b[j].within : ~(c \in DOMAIN b /\ c < j)
    OBVIOUS
  <2>3. PICK p \in DOMAIN b : p < j /\ b[j].within = b[p].within \cup {p}
    BY <2>2, <1>1, Parent
  <2>4. p \notin Bad /\ c # p
    BY <2>1, <2>2, <2>3, <1>1
  <2>5. c \in DOMAIN b /\ c < p
    BY <2>2, <2>3, <2>4
  <2> QED BY <2>2, <2>3, <2>5, <1>1
<1> QED BY <1>2

\* What a node lies within is closed: the lists and quotes around its own.
LEMMA WithinTransitive ==
    ASSUME NEW b \in MarkdownBlocks, NEW k \in DOMAIN b, NEW c \in b[k].within, NEW a \in b[c].within
    PROVE  a \in b[k].within
<1> DEFINE Bad == {j \in DOMAIN b : \E d \in b[j].within : ~(b[d].within \subseteq b[j].within)}
<1>1. DOMAIN b \subseteq Nat /\ b[1].within = {}
  BY MarkdownNode
<1>2. ASSUME Bad # {}
      PROVE  FALSE
  <2>1. PICK j \in Bad : \A i \in Bad : j <= i
    BY <1>1, <1>2, Least
  <2>2. PICK d \in b[j].within : ~(b[d].within \subseteq b[j].within)
    OBVIOUS
  <2>3. PICK p \in DOMAIN b : p < j /\ b[j].within = b[p].within \cup {p}
    BY <2>2, <1>1, Parent
  <2>4. p \notin Bad /\ d # p
    BY <2>1, <2>2, <2>3, <1>1
  <2>5. b[d].within \subseteq b[p].within
    BY <2>2, <2>3, <2>4
  <2> QED BY <2>2, <2>3, <2>5
<1> QED BY <1>2

\* What lies in a container that is left of a list is an item, and so on.
LEMMA ChildIs ==
    ASSUME NEW b \in MarkdownBlocks, NEW k \in DOMAIN b, NEW c \in DOMAIN b,
           b[c].within = b[k].within \cup {k}
    PROVE  /\ k < c /\ b[k].type \in Containers
           /\ b[c].type = "item" <=> b[k].type \in Lists
<1>1. DOMAIN b \subseteq Nat /\ b[1].within = {}
  BY MarkdownNode
<1>2. PICK p \in DOMAIN b :
         /\ p < c /\ b[c].within = b[p].within \cup {p}
         /\ b[p].type \in Containers /\ (b[c].type = "item" <=> b[p].type \in Lists)
  BY <1>1, Parent
<1>3. p = k
  <2>1. ASSUME p # k PROVE FALSE
    <3>1. p \in b[k].within /\ k \in b[p].within
      BY <1>2, <2>1
    <3>2. p < k /\ k < p
      BY <3>1, WithinEarlier
    <3> QED BY <3>2, <1>1
  <2> QED BY <2>1
<1> QED BY <1>2, <1>3

-----------------------------------------------------------------------------
(* What is kept of them                                                    *)

\* What stands is kept, and with it all it lies within.
LEMMA KeptIs ==
    ASSUME NEW b \in MarkdownBlocks
    PROVE  /\ Kept(b) \subseteq DOMAIN b
           /\ \A k \in DOMAIN b : Stands(b[k]) => k \in Kept(b)
           /\ \A k \in Kept(b) : \A a \in b[k].within : a \in Kept(b)
<1>1. Kept(b) \subseteq DOMAIN b
  BY DEF Kept
<1>2. \A k \in DOMAIN b : Stands(b[k]) => k \in Kept(b)
  BY DEF Kept
<1>3. ASSUME NEW k \in Kept(b), NEW a \in b[k].within
      PROVE  a \in Kept(b)
  <2>1. PICK d \in DOMAIN b : k \in b[d].within \cup {d} /\ Stands(b[d])
    BY DEF Kept
  <2>2. k \in DOMAIN b /\ a \in DOMAIN b
    BY <1>1, <1>3, WithinEarlier
  <2>3. a \in b[d].within
    BY <2>1, <2>2, <1>3, WithinTransitive
  <2> QED BY <2>1, <2>2, <2>3 DEF Kept
<1> QED BY <1>1, <1>2, <1>3

\* What is kept inside a node lies in one of its children, which is kept too.
LEMMA KeptInside ==
    ASSUME NEW b \in MarkdownBlocks, NEW k \in DOMAIN b, NEW d \in Kept(b), k \in b[d].within
    PROVE  \E c \in Kept(b) : b[c].within = b[k].within \cup {k}
<1> DEFINE Under == {e \in Kept(b) : k \in b[e].within}
<1>1. DOMAIN b \subseteq Nat /\ b[1].within = {} /\ Kept(b) \subseteq DOMAIN b
  BY MarkdownNode, KeptIs
<1>2. PICK c \in Under : \A e \in Under : c <= e
  BY <1>1, Least
<1>3. PICK p \in DOMAIN b : p < c /\ b[c].within = b[p].within \cup {p}
  BY <1>1, Parent
<1>4. ASSUME p # k PROVE FALSE
  <2>1. k \in b[p].within /\ p \in Kept(b)
    BY <1>3, <1>4, KeptIs
  <2> QED BY <2>1, <1>1, <1>2, <1>3
<1> QED BY <1>3, <1>4

\* _convert_markdown_node's rule for a list or a quote: it is kept if one of its
\* children is.
LEMMA KeptChild ==
    ASSUME NEW b \in MarkdownBlocks, NEW k \in DOMAIN b, ~Stands(b[k])
    PROVE  k \in Kept(b) <=> \E c \in Kept(b) : b[c].within = b[k].within \cup {k}
<1>1. ASSUME NEW c \in Kept(b), b[c].within = b[k].within \cup {k}
      PROVE  k \in Kept(b)
  BY <1>1, KeptIs
<1>2. ASSUME k \in Kept(b)
      PROVE  \E c \in Kept(b) : b[c].within = b[k].within \cup {k}
  <2>1. PICK d \in DOMAIN b : k \in b[d].within \cup {d} /\ Stands(b[d])
    BY <1>2 DEF Kept
  <2>2. d \in Kept(b) /\ k \in b[d].within
    BY <2>1, KeptIs
  <2> QED BY <2>2, KeptInside
<1> QED BY <1>1, <1>2

\* A container that is kept has a kept child, or is a bare item.
LEMMA KeptContainer ==
    ASSUME NEW b \in MarkdownBlocks, NEW k \in Kept(b), b[k].type \in Containers, k \notin Bare(b)
    PROVE  \E c \in Kept(b) : b[c].within = b[k].within \cup {k}
<1>1. k \in DOMAIN b
  BY KeptIs
<1>2. CASE b[k].type # "item"
  <2>1. ~Stands(b[k])
    BY <1>2 DEF Stands, Containers, Lists
  <2> QED BY <1>1, <2>1, KeptChild
<1>3. CASE b[k].type = "item"
  <2>1. \E d \in Kept(b) : k \in b[d].within
    BY <1>3 DEF Bare
  <2> QED BY <1>1, <2>1, KeptInside
<1> QED BY <1>2, <1>3

\* No table is kept, and no item is a block of its own.
LEMMA KeptTypes ==
    ASSUME NEW b \in MarkdownBlocks, NEW k \in Kept(b)
    PROVE  /\ b[k].type \in BlockTypes \cup {"item"} /\ b[k].type # "image"
           /\ b[k].within = {} => b[k].type # "item"
<1>1. k \in DOMAIN b /\ b[k].type \in Containers \cup Leaves /\ b[1].type # "item"
  BY KeptIs, MarkdownNode
<1>2. b[k].type # "table"
  <2>1. ASSUME b[k].type = "table" PROVE FALSE
    <3>1. ~Stands(b[k])
      BY <2>1 DEF Stands
    <3>2. PICK c \in Kept(b) : b[c].within = b[k].within \cup {k}
      BY <1>1, <3>1, KeptChild
    <3>3. b[k].type \in Containers
      BY <1>1, <3>2, ChildIs, KeptIs
    <3> QED BY <2>1, <3>3 DEF Containers, Lists
  <2> QED BY <2>1
<1>3. k # 1 => b[k].within # {}
  BY <1>1, Parent
<1> QED BY <1>1, <1>2, <1>3 DEF Containers, Lists, Leaves, BlockTypes

\* A node is told by itself and what it lies within.
LEMMA SameParent ==
    ASSUME NEW b \in MarkdownBlocks, NEW j \in DOMAIN b, NEW k \in DOMAIN b,
           b[j].within \cup {j} = b[k].within \cup {k}
    PROVE  j = k
<1>1. ASSUME j # k PROVE FALSE
  <2>1. j \in b[k].within /\ k \in b[j].within
    BY <1>1
  <2>2. j < k /\ k < j
    BY <2>1, WithinEarlier
  <2> QED BY <2>2, MarkdownNode
<1> QED BY <1>1

-----------------------------------------------------------------------------
(* What they become                                                        *)

\* The levels a heading can come out with.
LEMMA ClampedIs ==
    ASSUME NEW level \in Nat
    PROVE  Clamped(level) \in 2..4
BY DEF Clamped

\* The fields of a node.
LEMMA NodeIs ==
    ASSUME NEW type, NEW attr, NEW pieces, NEW within
    PROVE  /\ Node(type, attr, pieces, within).type = type
           /\ Node(type, attr, pieces, within).attr = attr
           /\ Node(type, attr, pieces, within).pieces = pieces
           /\ Node(type, attr, pieces, within).within = within
BY DEF Node

\* The nodes of a converted tree: the kept ones and the blank paragraphs.
LEMMA ConvertIs ==
    ASSUME NEW b \in MarkdownBlocks, NEW i \in Nat
    PROVE  /\ DOMAIN Convert(b, i) = Kept(b) \cup {Len(b) + j : j \in Bare(b)}
           /\ Kept(b) \subseteq DOMAIN b /\ Bare(b) \subseteq Kept(b)
           /\ \A k \in Kept(b) : Convert(b, i)[k] = ConvertedNode(b[k], i, k)
           /\ \A j \in Bare(b) : /\ Len(b) + j \notin DOMAIN b
                                 /\ Convert(b, i)[Len(b) + j] = BlankIn(b[j], j)
<1>1. Kept(b) \subseteq DOMAIN b /\ Bare(b) \subseteq Kept(b) /\ Len(b) \in Nat /\ DOMAIN b = 1..Len(b)
  BY KeptIs, MarkdownNode DEF Bare
<1>2. DOMAIN Convert(b, i) = Kept(b) \cup {Len(b) + j : j \in Bare(b)}
  BY DEF Convert
<1>3. ASSUME NEW k \in Kept(b) PROVE Convert(b, i)[k] = ConvertedNode(b[k], i, k)
  <2>1. k <= Len(b)
    BY <1>1
  <2> QED BY <2>1 DEF Convert
<1>4. ASSUME NEW j \in Bare(b)
      PROVE  Len(b) + j \notin DOMAIN b /\ Convert(b, i)[Len(b) + j] = BlankIn(b[j], j)
  <2>1. j \in Nat /\ j >= 1 /\ ~(Len(b) + j <= Len(b)) /\ Len(b) + j - Len(b) = j
    BY <1>1
  <2> QED BY <1>1, <2>1 DEF Convert
<1> QED BY <1>1, <1>2, <1>3, <1>4

\* What the fields of those are.
LEMMA ConvertFields ==
    ASSUME NEW b \in MarkdownBlocks, NEW i \in Nat
    PROVE  /\ \A k \in Kept(b) :
                 /\ Convert(b, i)[k].type = b[k].type /\ Convert(b, i)[k].within = b[k].within
                 /\ Convert(b, i)[k].attr =
                       IF b[k].type = "heading" THEN Clamped(b[k].level) ELSE b[k].level
                 /\ Convert(b, i)[k].pieces = TextOf(b[k].inline, i, k)
           /\ \A j \in Bare(b) :
                 /\ Convert(b, i)[Len(b) + j].type = "paragraph"
                 /\ Convert(b, i)[Len(b) + j].within = b[j].within \cup {j}
                 /\ DOMAIN Convert(b, i)[Len(b) + j].pieces = {}
<1>1. ASSUME NEW k \in Kept(b)
      PROVE  /\ Convert(b, i)[k].type = b[k].type /\ Convert(b, i)[k].within = b[k].within
             /\ Convert(b, i)[k].attr =
                   IF b[k].type = "heading" THEN Clamped(b[k].level) ELSE b[k].level
             /\ Convert(b, i)[k].pieces = TextOf(b[k].inline, i, k)
  <2>1. Convert(b, i)[k] = ConvertedNode(b[k], i, k)
    BY ConvertIs
  <2>2. /\ ConvertedNode(b[k], i, k).type = b[k].type
        /\ ConvertedNode(b[k], i, k).within = b[k].within
        /\ ConvertedNode(b[k], i, k).attr =
              IF b[k].type = "heading" THEN Clamped(b[k].level) ELSE b[k].level
        /\ ConvertedNode(b[k], i, k).pieces = TextOf(b[k].inline, i, k)
    BY NodeIs DEF ConvertedNode
  <2> QED BY <2>1, <2>2
<1>2. ASSUME NEW j \in Bare(b)
      PROVE  /\ Convert(b, i)[Len(b) + j].type = "paragraph"
             /\ Convert(b, i)[Len(b) + j].within = b[j].within \cup {j}
             /\ DOMAIN Convert(b, i)[Len(b) + j].pieces = {}
  <2>1. Convert(b, i)[Len(b) + j] = BlankIn(b[j], j)
    BY ConvertIs
  <2>2. /\ BlankIn(b[j], j).type = "paragraph" /\ BlankIn(b[j], j).within = b[j].within \cup {j}
        /\ DOMAIN BlankIn(b[j], j).pieces = {}
    BY NodeIs, NoValues DEF BlankIn
  <2> QED BY <2>1, <2>2
<1> QED BY <1>1, <1>2

\* A node has a depth.
LEMMA WithinFinite ==
    ASSUME NEW b \in MarkdownBlocks, NEW k \in DOMAIN b
    PROVE  Cardinality(b[k].within) \in Nat /\ Cardinality(b[k].within \cup {k}) \in Nat
<1>1. DOMAIN b = 1..Len(b) /\ Len(b) \in Int /\ 1 \in Int
  BY MarkdownNode
<1>2. IsFiniteSet(1..Len(b))
  BY <1>1, FS_Interval
<1>3. b[k].within \subseteq 1..Len(b) /\ b[k].within \cup {k} \subseteq 1..Len(b)
  BY <1>1, WithinEarlier
<1>4. IsFiniteSet(b[k].within) /\ IsFiniteSet(b[k].within \cup {k})
  BY <1>2, <1>3, FS_Subset
<1> QED BY <1>4, FS_CardinalityType

\* A tree whose pieces are the texts of the nodes kept.
LEMMA ConvertTree ==
    ASSUME NEW b \in MarkdownBlocks, NEW i \in Nat
    PROVE  /\ IsTree(Convert(b, i)) /\ OrderedNodes(Convert(b, i))
           /\ DOMAIN Convert(b, i) = {} <=> Kept(b) = {}
           /\ \A p \in NodePieces(Convert(b, i)) :
                 p.at.block = i /\ p.kind \in BecomesText
           /\ \A k \in Kept(b) : \A n \in Texts(b[k].inline) :
                 Piece(At(i, k, n), b[k].inline[n]) \in NodePieces(Convert(b, i))
<1> DEFINE nodes == Convert(b, i)
<1>1. Kept(b) \subseteq DOMAIN b /\ Len(b) \in Nat /\ DOMAIN b = 1..Len(b) /\ Bare(b) \subseteq Kept(b)
  BY ConvertIs, MarkdownNode
<1>2. ASSUME NEW k \in Kept(b)
      PROVE  /\ k \in Nat /\ nodes[k].pieces = TextOf(b[k].inline, i, k)
             /\ IsText(nodes[k].pieces) /\ OrderedText(nodes[k].pieces)
             /\ \A p \in TextPieces(nodes[k].pieces) :
                   p.at.block = i /\ p.at.node = k /\ p.kind \in BecomesText
             /\ \A n \in Texts(b[k].inline) :
                   Piece(At(i, k, n), b[k].inline[n]) \in TextPieces(nodes[k].pieces)
  <2>1. k \in Nat /\ k \in DOMAIN b /\ DOMAIN b[k].inline \subseteq Nat
    BY <1>1, MarkdownNode
  <2>3. nodes[k].pieces = TextOf(b[k].inline, i, k)
    BY <1>2, ConvertFields
  <2> QED BY <2>1, <2>3, TextOfIs DEF WordText
<1>3. ASSUME NEW j \in Bare(b)
      PROVE  Len(b) + j \in Nat /\ DOMAIN nodes[Len(b) + j].pieces = {}
  <2>1. DOMAIN nodes[Len(b) + j].pieces = {}
    BY <1>3, ConvertFields
  <2>2. j \in Nat
    BY <1>1
  <2> QED BY <1>1, <2>1, <2>2
<1>4. DOMAIN nodes = Kept(b) \cup {Len(b) + j : j \in Bare(b)}
  BY ConvertIs
<1> HIDE DEF nodes
<1>5. IsTree(nodes)
  <2>1. DOMAIN nodes \subseteq Nat
    BY <1>2, <1>3, <1>4
  <2>2. ASSUME NEW k \in DOMAIN nodes PROVE IsText(nodes[k].pieces)
    <3>1. CASE k \in Kept(b)
      BY <3>1, <1>2
    <3>2. CASE k \notin Kept(b)
      BY <3>2, <1>3, <1>4 DEF IsText
    <3> QED BY <3>1, <3>2
  <2> QED BY <2>1, <2>2 DEF IsTree
<1>6. ASSUME NEW k \in DOMAIN nodes, NEW n \in DOMAIN nodes[k].pieces
      PROVE  /\ k \in Kept(b) /\ nodes[k].pieces[n] \in TextPieces(nodes[k].pieces)
             /\ nodes[k].pieces[n].at.block = i /\ nodes[k].pieces[n].at.node = k
             /\ nodes[k].pieces[n].kind \in BecomesText
  <2>1. k \in Kept(b)
    BY <1>3, <1>4, <1>6
  <2>2. nodes[k].pieces[n] \in TextPieces(nodes[k].pieces)
    BY <1>6 DEF TextPieces
  <2> QED BY <2>1, <2>2, <1>2
<1>7. OrderedNodes(nodes)
  <2> SUFFICES ASSUME NEW j \in DOMAIN nodes, NEW k \in DOMAIN nodes,
                      NEW m \in DOMAIN nodes[j].pieces, NEW n \in DOMAIN nodes[k].pieces,
                      j < k \/ (j = k /\ m < n)
               PROVE  Earlier(nodes[j].pieces[m], nodes[k].pieces[n])
    BY DEF OrderedNodes
  <2>1. CASE j < k
    BY <2>1, <1>6 DEF Earlier
  <2>2. CASE j = k /\ m < n
    BY <2>2, <1>2, <1>6 DEF OrderedText
  <2> QED BY <2>1, <2>2
<1>8. DOMAIN nodes = {} <=> Kept(b) = {}
  BY <1>1, <1>4
<1>9. \A p \in NodePieces(nodes) : p.at.block = i /\ p.kind \in BecomesText
  BY <1>6 DEF NodePieces
<1>10. ASSUME NEW k \in Kept(b), NEW n \in Texts(b[k].inline)
       PROVE  Piece(At(i, k, n), b[k].inline[n]) \in NodePieces(nodes)
  <2>1. k \in DOMAIN nodes /\ Piece(At(i, k, n), b[k].inline[n]) \in TextPieces(nodes[k].pieces)
    BY <1>2, <1>4
  <2> QED BY <2>1 DEF NodePieces, TextPieces
<1> QED BY <1>5, <1>7, <1>8, <1>9, <1>10 DEF nodes

\* Nodes that are not images: what is stored of them is what they were.
LEMMA StoredText ==
    ASSUME NEW nodes, \A k \in DOMAIN nodes : nodes[k].type # "image"
    PROVE  /\ DOMAIN Stored(nodes) = DOMAIN nodes
           /\ \A k \in DOMAIN nodes : Stored(nodes)[k] = nodes[k]
BY DEF Stored

\* Whether a tree conforms depends on its nodes only.
LEMMA ConformsAlike ==
    ASSUME NEW nodes, NEW others, DOMAIN others = DOMAIN nodes,
           \A k \in DOMAIN nodes : others[k] = nodes[k]
    PROVE  Conforms(others) <=> Conforms(nodes)
<1>1. \A k \in DOMAIN nodes : Inside(others, k) = Inside(nodes, k)
  BY DEF Inside
<1>2. \A k \in DOMAIN nodes : Inside(nodes, k) \subseteq DOMAIN nodes
  BY DEF Inside
<1>3. \A k \in DOMAIN nodes : Fits(others, k) <=> Fits(nodes, k)
  BY <1>1, <1>2 DEF Fits
<1> QED BY <1>3 DEF Conforms

\* What lies in a node of a converted tree: what was kept there, or one blank
\* paragraph.
LEMMA ConvertInside ==
    ASSUME NEW b \in MarkdownBlocks, NEW i \in Nat
    PROVE  /\ \A k \in Kept(b) \ Bare(b) :
                 Inside(Convert(b, i), k) = {c \in Kept(b) : b[c].within = b[k].within \cup {k}}
           /\ \A k \in Bare(b) : Inside(Convert(b, i), k) = {Len(b) + k}
           /\ \A k \in Bare(b) : Inside(Convert(b, i), Len(b) + k) = {}
<1> DEFINE nodes == Convert(b, i)
<1>1. Kept(b) \subseteq DOMAIN b /\ Len(b) \in Nat /\ DOMAIN b = 1..Len(b) /\ Bare(b) \subseteq Kept(b)
  BY ConvertIs, MarkdownNode
<1>2. DOMAIN nodes = Kept(b) \cup {Len(b) + j : j \in Bare(b)}
  BY ConvertIs
<1>3. ASSUME NEW k \in Kept(b) PROVE nodes[k].within = b[k].within
  BY ConvertFields
<1>4. ASSUME NEW j \in Bare(b)
      PROVE  nodes[Len(b) + j].within = b[j].within \cup {j} /\ Len(b) + j \notin DOMAIN b
  <2>1. nodes[Len(b) + j].within = b[j].within \cup {j}
    BY ConvertFields
  <2>2. Len(b) + j \notin DOMAIN b
    BY ConvertIs
  <2> QED BY <2>1, <2>2
<1>5. \A k \in DOMAIN b : b[k].within \subseteq DOMAIN b
  BY WithinEarlier
<1> HIDE DEF nodes
<1>6. ASSUME NEW k \in Kept(b), NEW j \in Bare(b)
      PROVE  Len(b) + j \in Inside(nodes, k) <=> j = k
  <2>1. Len(b) + j \in DOMAIN nodes
    BY <1>2
  <2>2. Len(b) + j \in Inside(nodes, k) <=> b[j].within \cup {j} = b[k].within \cup {k}
    BY <2>1, <1>3, <1>4 DEF Inside
  <2>3. k \in DOMAIN b /\ j \in DOMAIN b
    BY <1>1
  <2> QED BY <2>2, <2>3, SameParent
<1>7. ASSUME NEW k \in Kept(b), NEW c \in Kept(b)
      PROVE  c \in Inside(nodes, k) <=> b[c].within = b[k].within \cup {k}
  BY <1>2, <1>3 DEF Inside
<1>8. \A k \in DOMAIN nodes : Inside(nodes, k) \subseteq Kept(b) \cup {Len(b) + j : j \in Bare(b)}
  BY <1>2 DEF Inside
<1>9. ASSUME NEW k \in Kept(b) \ Bare(b)
      PROVE  Inside(nodes, k) = {c \in Kept(b) : b[c].within = b[k].within \cup {k}}
  BY <1>2, <1>6, <1>7, <1>8
<1>10. ASSUME NEW k \in Bare(b) PROVE Inside(nodes, k) = {Len(b) + k}
  <2>1. \A c \in Kept(b) : c \notin Inside(nodes, k)
    <3>1. \A c \in Kept(b) : k \notin b[c].within
      BY DEF Bare
    <3> QED BY <3>1, <1>1, <1>7
  <2> QED BY <2>1, <1>1, <1>2, <1>6, <1>8
<1>11. ASSUME NEW k \in Bare(b) PROVE Inside(nodes, Len(b) + k) = {}
  <2>1. Len(b) + k \in nodes[Len(b) + k].within \cup {Len(b) + k}
    OBVIOUS
  <2>2. \A c \in Kept(b) : Len(b) + k \notin nodes[c].within
    BY <1>1, <1>3, <1>4, <1>5
  <2>3. \A j \in Bare(b) : Len(b) + k \notin nodes[Len(b) + j].within
    BY <1>1, <1>4, <1>5
  <2> QED BY <2>1, <2>2, <2>3, <1>2 DEF Inside
<1> QED BY <1>9, <1>10, <1>11 DEF nodes

\* The validator takes the tree a block becomes, unless the block is unfit.
LEMMA ConvertConforms ==
    ASSUME NEW b \in MarkdownBlocks, NEW i \in Nat
    PROVE  Conforms(Convert(b, i)) <=> ~Unfit(b)
<1> DEFINE nodes == Convert(b, i)
<1>1. /\ Kept(b) \subseteq DOMAIN b /\ Len(b) \in Nat /\ DOMAIN b = 1..Len(b)
      /\ Bare(b) \subseteq Kept(b) /\ \A k \in Bare(b) : b[k].type = "item"
  BY ConvertIs, MarkdownNode DEF Bare
<1>2. DOMAIN nodes = Kept(b) \cup {Len(b) + j : j \in Bare(b)}
  BY ConvertIs
<1>3. ASSUME NEW k \in Kept(b)
      PROVE  /\ nodes[k].type = b[k].type /\ nodes[k].within = b[k].within
             /\ nodes[k].attr = IF b[k].type = "heading" THEN Clamped(b[k].level) ELSE b[k].level
             /\ nodes[k].pieces = TextOf(b[k].inline, i, k)
  BY ConvertFields
<1>4. ASSUME NEW k \in Kept(b)
      PROVE  /\ DOMAIN nodes[k].pieces = Texts(b[k].inline)
             /\ \A n \in Texts(b[k].inline) : nodes[k].pieces[n].kind = b[k].inline[n]
             /\ Depth(nodes[k]) = Height(b, k)
  <2>1. DOMAIN nodes[k].pieces = Texts(b[k].inline)
    BY <1>3 DEF TextOf
  <2>2. ASSUME NEW n \in Texts(b[k].inline) PROVE nodes[k].pieces[n].kind = b[k].inline[n]
    <3>1. TextOf(b[k].inline, i, k)[n] = Piece(At(i, k, n), b[k].inline[n])
      BY DEF TextOf
    <3>2. nodes[k].pieces[n] = Piece(At(i, k, n), b[k].inline[n])
      BY <3>1, <1>3
    <3> QED BY <3>2, PieceOf
  <2>3. nodes[k].type # "image" /\ nodes[k].within = b[k].within
    BY <1>3, KeptTypes
  <2> HIDE DEF nodes
  <2>4. Depth(nodes[k]) = Height(b, k)
    BY <2>1, <2>3 DEF Depth, Height
  <2> QED BY <2>1, <2>2, <2>4
<1>5. ASSUME NEW k \in Bare(b)
      PROVE  /\ nodes[Len(b) + k].type = "paragraph" /\ DOMAIN nodes[Len(b) + k].pieces = {}
             /\ nodes[Len(b) + k].within = b[k].within \cup {k}
             /\ Depth(nodes[Len(b) + k]) = 2 + Cardinality(b[k].within \cup {k}) + 0
  <2>1. /\ nodes[Len(b) + k].type = "paragraph" /\ DOMAIN nodes[Len(b) + k].pieces = {}
        /\ nodes[Len(b) + k].within = b[k].within \cup {k}
    BY ConvertFields
  <2> HIDE DEF nodes
  <2>3. Depth(nodes[Len(b) + k]) = 2 + Cardinality(b[k].within \cup {k}) + 0
    BY <2>1 DEF Depth
  <2> QED BY <2>1, <2>3
<1>6. /\ \A k \in Kept(b) \ Bare(b) : Inside(nodes, k) = {c \in Kept(b) : b[c].within = b[k].within \cup {k}}
      /\ \A k \in Bare(b) : Inside(nodes, k) = {Len(b) + k}
      /\ \A k \in Bare(b) : Inside(nodes, Len(b) + k) = {}
  BY ConvertInside
<1> HIDE DEF nodes
<1>7. ASSUME Conforms(nodes), NEW k \in Kept(b)
      PROVE  /\ ~(b[k].type = "numbers" /\ b[k].level = 0)
             /\ ~(b[k].type = "item" /\ StartsOtherwise(b, k))
             /\ ~(b[k].type = "fence" /\ b[k].level = LongLanguage)
             /\ ~\E n \in DOMAIN b[k].inline : b[k].inline[n] \in BadlyMarked
             /\ ~(Height(b, k) > MaxDepth)
             /\ ~(k \in Bare(b) /\ 2 + Cardinality(b[k].within \cup {k}) > MaxDepth)
  <2>1. Allowed(nodes[k]) /\ Fits(nodes, k)
    BY <1>7, <1>2 DEF Conforms
  <2>2. ~(b[k].type = "numbers" /\ b[k].level = 0)
    <3>1. b[k].type = "numbers" => nodes[k].attr >= 1 /\ nodes[k].attr = b[k].level
      BY <2>1, <1>3 DEF Allowed
    <3> QED BY <3>1
  <2>3. ASSUME b[k].type = "item", StartsOtherwise(b, k) PROVE FALSE
    <3>1. PICK c \in Kept(b) :
             /\ b[c].within = b[k].within \cup {k} /\ b[c].type # "paragraph"
             /\ \A d \in Kept(b) : b[d].within = b[k].within \cup {k} => c <= d
      BY <2>3 DEF StartsOtherwise
    <3>2. k \notin Bare(b)
      BY <3>1 DEF Bare
    <3>3. c \in Inside(nodes, k) /\ \A d \in Inside(nodes, k) : c <= d
      BY <3>1, <3>2, <1>6
    <3>4. nodes[c].type = "paragraph"
      BY <2>1, <2>3, <3>3, <1>3 DEF Fits, Lists
    <3> QED BY <3>1, <3>4, <1>3
  <2>4. ASSUME NEW n \in DOMAIN b[k].inline, b[k].inline[n] \in BadlyMarked PROVE FALSE
    <3>1. n \in Texts(b[k].inline)
      BY <2>4 DEF Texts, BecomesText, BadlyMarked
    <3> QED BY <3>1, <2>1, <2>4, <1>4 DEF Allowed
  <2>10. ~(b[k].type = "fence" /\ b[k].level = LongLanguage)
    <3>1. b[k].type = "fence" => nodes[k].attr # LongLanguage /\ nodes[k].attr = b[k].level
      BY <2>1, <1>3 DEF Allowed
    <3> QED BY <3>1
  <2>5. Height(b, k) <= MaxDepth
    BY <2>1, <1>4 DEF Allowed
  <2>6. ASSUME k \in Bare(b) PROVE 2 + Cardinality(b[k].within \cup {k}) + 0 <= MaxDepth
    <3>1. Allowed(nodes[Len(b) + k])
      BY <2>6, <1>2, <1>7 DEF Conforms
    <3> QED BY <3>1, <2>6, <1>5 DEF Allowed
  <2>7. Cardinality(b[k].within) \in Nat /\ Cardinality(b[k].within \cup {k}) \in Nat
    BY <1>1, WithinFinite
  <2>8. ~(Height(b, k) > MaxDepth)
    BY <2>5, <2>7, DepthSuffices DEF Height
  <2>9. ~(k \in Bare(b) /\ 2 + Cardinality(b[k].within \cup {k}) > MaxDepth)
    BY <2>6, <2>7, DepthSuffices
  <2> QED BY <2>2, <2>3, <2>4, <2>8, <2>9, <2>10
<1>8. ASSUME ~Unfit(b), NEW k \in Kept(b)
      PROVE  Allowed(nodes[k]) /\ Fits(nodes, k)
  <2>1. /\ ~(b[k].type = "numbers" /\ b[k].level = 0)
        /\ b[k].type = "item" => ~StartsOtherwise(b, k)
        /\ ~(b[k].type = "fence" /\ b[k].level = LongLanguage)
        /\ \A n \in DOMAIN b[k].inline : b[k].inline[n] \notin BadlyMarked
        /\ ~(Height(b, k) > MaxDepth)
    BY <1>8 DEF Unfit
  <2>2. b[k].level \in Nat /\ k \in DOMAIN b
    BY <1>1, MarkdownNode
  <2>3. Allowed(nodes[k])
    <3>1. Cardinality(b[k].within) \in Nat
      BY <2>2, WithinFinite
    <3>7. Height(b, k) \in Nat
      BY <3>1 DEF Height
    <3>8. Height(b, k) <= MaxDepth
      <4>1. ~(Height(b, k) > MaxDepth)
        BY <2>1
      <4>2. \A h, m \in Nat : ~(h > m) => h <= m
        OBVIOUS
      <4> QED BY <4>1, <4>2, <3>7, DepthSuffices
    <3>9. Depth(nodes[k]) = Height(b, k)
      BY <1>4
    <3>2. Depth(nodes[k]) <= MaxDepth
      BY <3>8, <3>9
    <3>3. nodes[k].type = "heading" => nodes[k].attr \in 2..4
      BY <1>3, <2>2, ClampedIs
    <3>4. nodes[k].type = "numbers" => nodes[k].attr >= 1
      <4>1. nodes[k].type = "numbers" => nodes[k].attr = b[k].level /\ b[k].level # 0
        BY <1>3, <2>1
      <4> QED BY <4>1, <2>2
    <3>5. \A n \in DOMAIN nodes[k].pieces : nodes[k].pieces[n].kind \notin BadlyMarked
      BY <1>4, <2>1 DEF Texts
    <3>6. nodes[k].type # "image"
      BY <1>3, KeptTypes
    <3>10. nodes[k].type = "fence" => nodes[k].attr # LongLanguage
      BY <1>3, <2>1
    <3> QED BY <3>2, <3>3, <3>4, <3>5, <3>6, <3>10 DEF Allowed
  <2>4. nodes[k].within = {} => nodes[k].type \in BlockTypes
    BY <1>3, KeptTypes
  <2>5. CASE k \in Bare(b)
    <3>1. nodes[k].type = "item" /\ Inside(nodes, k) = {Len(b) + k}
      BY <2>5, <1>1, <1>3, <1>6
    <3>2. nodes[Len(b) + k].type = "paragraph"
      BY <2>5, <1>5
    <3>3. Fits(nodes, k)
      BY <3>1, <3>2, <2>4 DEF Fits, Lists, BlockTypes
    <3> QED BY <2>3, <3>3
  <2>6. CASE k \notin Bare(b)
    <3>1. nodes[k].type \in Containers => Inside(nodes, k) # {}
      BY <2>6, <1>3, <1>6, KeptContainer
    <3>2. ASSUME NEW c \in Inside(nodes, k)
          PROVE  nodes[c].type \in
                     IF nodes[k].type \in Lists THEN {"item"}
                     ELSE IF nodes[k].type = "item" /\ \A d \in Inside(nodes, k) : c <= d
                          THEN {"paragraph"} ELSE BlockTypes
      <4>1. c \in Kept(b) /\ b[c].within = b[k].within \cup {k}
        BY <2>6, <3>2, <1>6
      <4>2. b[c].type = "item" <=> b[k].type \in Lists
        BY <4>1, <2>2, <1>1, ChildIs
      <4>3. nodes[c].type = b[c].type /\ nodes[k].type = b[k].type /\ b[c].type \in BlockTypes \cup {"item"}
        BY <4>1, <1>3, KeptTypes
      <4>4. ASSUME b[k].type = "item", \A d \in Inside(nodes, k) : c <= d
            PROVE  b[c].type = "paragraph"
        <5>1. \A d \in Kept(b) : b[d].within = b[k].within \cup {k} => c <= d
          BY <4>4, <2>6, <1>6
        <5> QED BY <5>1, <4>1, <4>4, <2>1 DEF StartsOtherwise
      <4> QED BY <4>2, <4>3, <4>4
    <3>3. Fits(nodes, k)
      BY <2>4, <3>1, <3>2 DEF Fits
    <3> QED BY <2>3, <3>3
  <2> QED BY <2>5, <2>6
<1>9. ASSUME ~Unfit(b), NEW k \in Bare(b)
      PROVE  Allowed(nodes[Len(b) + k]) /\ Fits(nodes, Len(b) + k)
  <2>1. ~(2 + Cardinality(b[k].within \cup {k}) > MaxDepth) /\ k \in DOMAIN b
    BY <1>1, <1>9 DEF Unfit
  <2>2. Cardinality(b[k].within \cup {k}) \in Nat
    BY <2>1, WithinFinite
  <2>6. 2 + Cardinality(b[k].within \cup {k}) + 0 <= MaxDepth
    BY <2>1, <2>2, DepthSuffices
  <2>7. Depth(nodes[Len(b) + k]) = 2 + Cardinality(b[k].within \cup {k}) + 0
    BY <1>5
  <2>5. Depth(nodes[Len(b) + k]) <= MaxDepth
    BY <2>6, <2>7
  <2>3. Allowed(nodes[Len(b) + k])
    BY <2>5, <1>5 DEF Allowed
  <2>4. Fits(nodes, Len(b) + k)
    BY <1>5, <1>6 DEF Fits, Containers, Lists, BlockTypes
  <2> QED BY <2>3, <2>4
<1>10. ~Unfit(b) => Conforms(nodes)
  BY <1>2, <1>8, <1>9 DEF Conforms
<1>11. Conforms(nodes) => ~Unfit(b)
  BY <1>7 DEF Unfit
<1> QED BY <1>10, <1>11 DEF nodes

-----------------------------------------------------------------------------
(* What is built of a Word file                                            *)

\* What the grammar says of a paragraph.
LEMMA WordParagraph ==
    ASSUME NEW p \in Paragraphs
    PROVE  /\ p.type = "paragraph" /\ p.heading \in 0..9
           /\ p.list \in {"none", "unclassified"} \cup Lists
           /\ DOMAIN p.inline \subseteq Nat
           /\ \A n \in DOMAIN p.inline : p.inline[n] \in WordInline
<1>1. /\ p.type = "paragraph" /\ p.heading \in 0..9
      /\ p.list \in {"none", "unclassified"} \cup Lists /\ p.inline \in Seq(WordInline)
  BY WordGrammar
<1>2. DOMAIN p.inline = 1..Len(p.inline) /\ Len(p.inline) \in Nat
  BY <1>1, LenProperties
<1>3. \A n \in DOMAIN p.inline : p.inline[n] \in WordInline
  BY <1>1, <1>2, ElementOfSeq
<1> QED BY <1>1, <1>2, <1>3

\* The pieces of a node are among those of its tree.
LEMMA NodePiecesOf ==
    ASSUME NEW nodes, NEW k \in DOMAIN nodes
    PROVE  /\ TextPieces(nodes[k].pieces) \subseteq NodePieces(nodes)
           /\ \A n \in DOMAIN nodes[k].pieces : nodes[k].pieces[n] \in NodePieces(nodes)
BY DEF NodePieces, TextPieces

\* A tree of one node has its pieces in their order.
LEMMA OneNode ==
    ASSUME NEW nodes, DOMAIN nodes = {1}, IsText(nodes[1].pieces), OrderedText(nodes[1].pieces)
    PROVE  /\ IsTree(nodes) /\ OrderedNodes(nodes)
           /\ NodePieces(nodes) = TextPieces(nodes[1].pieces)
<1>1. IsTree(nodes)
  BY DEF IsTree
<1>2. OrderedNodes(nodes)
  BY DEF OrderedNodes, OrderedText
<1>3. NodePieces(nodes) = TextPieces(nodes[1].pieces)
  BY DEF NodePieces, TextPieces
<1> QED BY <1>1, <1>2, <1>3

\* No node, and so no piece.
LEMMA NoNode ==
    ASSUME NEW nodes, DOMAIN nodes = {}
    PROVE  IsTree(nodes) /\ OrderedNodes(nodes) /\ NodePieces(nodes) = {}
BY DEF IsTree, OrderedNodes, NodePieces

\* A paragraph or a heading of a Word file is a line, with its text for pieces.
LEMMA LineIs ==
    ASSUME NEW p \in Paragraphs, NEW text, IsText(text), OrderedText(text), WordText(text)
    PROVE  LET nodes == Line(p, text)
           IN /\ IsTree(nodes) /\ OrderedNodes(nodes)
              /\ NodePieces(nodes) = TextPieces(text)
              /\ DOMAIN nodes # {} => IsLine(nodes)
<1> DEFINE nodes == Line(p, text)
<1>1. CASE p.heading # 0 /\ DOMAIN text = {}
  <2>1. DOMAIN nodes = {} /\ TextPieces(text) = {}
    BY <1>1, NoValues DEF Line, TextPieces
  <2> QED BY <2>1, NoNode
<1>2. CASE ~(p.heading # 0 /\ DOMAIN text = {})
  <2>1. PICK type, attr : /\ nodes = <<Node(type, attr, text, {})>>
                          /\ type = "paragraph" \/ (type = "heading" /\ attr \in 2..4)
    <3>1. p.heading \in Nat
      BY WordParagraph
    <3> QED BY <1>2, <3>1, ClampedIs DEF Line
  <2>2. DOMAIN nodes = {1} /\ nodes[1] = Node(type, attr, text, {})
    BY <2>1
  <2>3. nodes[1].type = type /\ nodes[1].attr = attr /\ nodes[1].pieces = text /\ nodes[1].within = {}
    BY <2>2, NodeIs
  <2> HIDE DEF nodes
  <2>4. IsLine(nodes)
    BY <2>1, <2>2, <2>3 DEF IsLine
  <2>5. IsTree(nodes) /\ OrderedNodes(nodes) /\ NodePieces(nodes) = TextPieces(nodes[1].pieces)
    BY <2>2, <2>3, OneNode
  <2>6. NodePieces(nodes) = TextPieces(text)
    BY <2>3, <2>5
  <2> QED BY <2>4, <2>5, <2>6 DEF nodes
<1> QED BY <1>1, <1>2

\* The images of a paragraph, each with its address.
LEMMA PicturesAre ==
    ASSUME NEW p \in Paragraphs, NEW i \in Nat
    PROVE  LET nodes == Pictures(p, i)
           IN /\ DOMAIN nodes = Pictured(p.inline) /\ IsPictures(nodes)
              /\ IsTree(nodes) /\ OrderedNodes(nodes)
              /\ NodePieces(nodes) = {Piece(At(i, 1, n), "image") : n \in Pictured(p.inline)}
<1> DEFINE nodes == Pictures(p, i)
           piece(n) == Piece(At(i, 1, n), "image")
<1>1. DOMAIN nodes = Pictured(p.inline) /\ Pictured(p.inline) \subseteq Nat
  BY WordParagraph DEF Pictures, Pictured
<1>2. ASSUME NEW n \in Pictured(p.inline)
      PROVE  /\ nodes[n].type = "image" /\ nodes[n].within = {}
             /\ nodes[n].pieces = <<piece(n)>>
  <2>1. nodes[n] = Node("image", Placeholder, <<piece(n)>>, {})
    BY <1>2 DEF Pictures
  <2> QED BY <2>1, NodeIs
<1>3. ASSUME NEW n \in Pictured(p.inline)
      PROVE  /\ piece(n).at = At(i, 1, n) /\ piece(n).kind = "image" /\ piece(n).at \in Addresses
             /\ piece(n).at.block = i /\ piece(n).at.node = 1 /\ piece(n).at.nth = n
  BY <1>1, PieceOf, AddressOf
<1>4. ASSUME NEW n \in Pictured(p.inline)
      PROVE  DOMAIN nodes[n].pieces = {1} /\ nodes[n].pieces[1] = piece(n)
  BY <1>2, <1>4
<1> HIDE DEF nodes, piece
<1>5. IsPictures(nodes)
  BY <1>1, <1>2, <1>3, <1>4 DEF IsPictures, piece
<1>6. IsTree(nodes)
  BY <1>1, <1>3, <1>4 DEF IsTree, IsText
<1>7. OrderedNodes(nodes)
  <2> SUFFICES ASSUME NEW j \in DOMAIN nodes, NEW k \in DOMAIN nodes,
                      NEW m \in DOMAIN nodes[j].pieces, NEW n \in DOMAIN nodes[k].pieces,
                      j < k \/ (j = k /\ m < n)
               PROVE  Earlier(nodes[j].pieces[m], nodes[k].pieces[n])
    BY DEF OrderedNodes
  <2>1. m = 1 /\ n = 1 /\ j < k
    BY <1>1, <1>4
  <2>2. nodes[j].pieces[m] = piece(j) /\ nodes[k].pieces[n] = piece(k)
    BY <2>1, <1>1, <1>4
  <2>3. /\ piece(j).kind = "image" /\ piece(j).at.block = i /\ piece(j).at.node = 1 /\ piece(j).at.nth = j
        /\ piece(k).kind = "image" /\ piece(k).at.block = i /\ piece(k).at.node = 1 /\ piece(k).at.nth = k
    BY <1>1, <1>3
  <2>4. Earlier(piece(j), piece(k))
    BY <2>1, <2>3 DEF Earlier, Late
  <2> QED BY <2>2, <2>4
<1>8. NodePieces(nodes) = {piece(n) : n \in Pictured(p.inline)}
  BY <1>1, <1>4 DEF NodePieces
<1> QED BY <1>1, <1>5, <1>6, <1>7, <1>8 DEF nodes, piece

\* What a list that is collected consists of.
LEMMA ListIs ==
    ASSUME NEW nodes, IsList(nodes)
    PROVE  /\ IsSeq(nodes) /\ Len(nodes) \in Nat /\ DOMAIN nodes = 1..Len(nodes) /\ Len(nodes) >= 3
           /\ nodes[1].type \in Lists /\ nodes[1].attr = 1 /\ nodes[1].pieces = <<>> /\ nodes[1].within = {}
           /\ nodes[2].type = "item"
           /\ \A k \in 2..Len(nodes) :
                 \/ /\ nodes[k].type = "item" /\ nodes[k].within = {1} /\ nodes[k].pieces = <<>>
                    /\ k < Len(nodes) /\ nodes[k + 1].type = "paragraph"
                 \/ /\ nodes[k].type = "paragraph" /\ nodes[k].within = {1, k - 1}
                    /\ WordText(nodes[k].pieces) /\ k >= 3 /\ nodes[k - 1].type = "item"
<1>1. IsSeq(nodes) /\ Len(nodes) >= 3 /\ nodes[1].type \in Lists /\ nodes[2].type = "item"
  BY DEF IsList
<1>2. Len(nodes) \in Nat /\ DOMAIN nodes = 1..Len(nodes)
  BY <1>1, SeqDomain
<1>3. nodes[1].attr = 1 /\ nodes[1].pieces = <<>> /\ nodes[1].within = {}
  <2>1. nodes[1] = Node(nodes[1].type, 1, <<>>, {})
    BY DEF IsList
  <2> QED BY <2>1, NodeIs
<1>4. ASSUME NEW k \in 2..Len(nodes)
      PROVE  \/ /\ nodes[k].type = "item" /\ nodes[k].within = {1} /\ nodes[k].pieces = <<>>
                /\ k < Len(nodes) /\ nodes[k + 1].type = "paragraph"
             \/ /\ nodes[k].type = "paragraph" /\ nodes[k].within = {1, k - 1}
                /\ WordText(nodes[k].pieces) /\ k >= 3 /\ nodes[k - 1].type = "item"
  <2>1. CASE nodes[k] = Node("item", 0, <<>>, {1}) /\ k < Len(nodes) /\ nodes[k + 1].type = "paragraph"
    <3>1. nodes[k].type = "item" /\ nodes[k].within = {1} /\ nodes[k].pieces = <<>>
      BY <2>1, NodeIs
    <3> QED BY <2>1, <3>1
  <2>2. CASE /\ nodes[k] = Node("paragraph", 0, nodes[k].pieces, {1, k - 1})
             /\ k >= 3 /\ nodes[k - 1].type = "item" /\ WordText(nodes[k].pieces)
    <3>1. nodes[k].type = "paragraph" /\ nodes[k].within = {1, k - 1}
      BY <2>2, NodeIs
    <3> QED BY <2>2, <3>1
  <2> QED BY <2>1, <2>2 DEF IsList
<1> QED BY <1>1, <1>2, <1>3, <1>4

\* _list_item, the first of a list or one more.
LEMMA ListingIs ==
    ASSUME NEW list, list = <<>> \/ IsList(list), IsTree(list), OrderedNodes(list),
           NEW kind \in Lists, NEW text, IsText(text), OrderedText(text), WordText(text),
           AllBefore(NodePieces(list), TextPieces(text))
    PROVE  /\ IsList(Listing(list, kind, text))
           /\ IsTree(Listing(list, kind, text)) /\ OrderedNodes(Listing(list, kind, text))
           /\ NodePieces(Listing(list, kind, text)) = NodePieces(list) \cup TextPieces(text)
           /\ DOMAIN Listing(list, kind, text) # {}
<1> DEFINE first == Node(kind, 1, <<>>, {})
           open == IF list = <<>> THEN <<first>> ELSE list
           m == Len(open)
           item == Node("item", 0, <<>>, {1})
           para == Node("paragraph", 0, text, {1, m + 1})
           new == <<item, para>>
           nodes == open \o new
<1>1. nodes = Listing(list, kind, text)
  BY DEF Listing
<1>2. /\ first.type = kind /\ first.pieces = <<>>
      /\ item.type = "item" /\ item.pieces = <<>>
      /\ para.type = "paragraph" /\ para.pieces = text
  BY NodeIs
<1>3. /\ IsSeq(open) /\ m \in Nat /\ DOMAIN open = 1..m /\ m >= 1
      /\ open[1] = Node(open[1].type, 1, <<>>, {}) /\ open[1].type \in Lists
  <2>1. CASE list = <<>>
    <3>1. open = <<first>>
      BY <2>1
    <3> HIDE DEF open, first
    <3>2. IsSeq(open) /\ m = 1 /\ DOMAIN open = {1} /\ open[1] = first
      BY <3>1, OneSeq
    <3>3. DOMAIN open = 1..m /\ m \in Nat /\ m >= 1
      BY <3>2
    <3>4. open[1] = Node(open[1].type, 1, <<>>, {}) /\ open[1].type \in Lists
      BY <3>2, <1>2 DEF first
    <3> QED BY <3>2, <3>3, <3>4
  <2>2. CASE list # <<>>
    <3>1. open = list /\ IsList(list)
      BY <2>2
    <3>2. IsSeq(list) /\ Len(list) \in Nat /\ DOMAIN list = 1..Len(list) /\ Len(list) >= 1
      BY <3>1, ListIs
    <3>3. list[1] = Node(list[1].type, 1, <<>>, {}) /\ list[1].type \in Lists
      BY <3>1 DEF IsList
    <3> QED BY <3>1, <3>2, <3>3
  <2> QED BY <2>1, <2>2
<1>4. IsSeq(new) /\ Len(new) = 2 /\ new[1] = item /\ new[2] = para /\ DOMAIN new = 1..2
  BY DEF IsSeq, Values
<1> HIDE DEF open, new, first, item, para
<1>5. /\ IsSeq(nodes) /\ Len(nodes) = m + 2
      /\ \A k \in 1..m : nodes[k] = open[k]
      /\ nodes[m + 1] = item /\ nodes[m + 2] = para
  <2>1. /\ IsSeq(nodes) /\ Len(nodes) = m + Len(new)
        /\ \A k \in 1..m : nodes[k] = open[k]
        /\ \A k \in 1..Len(new) : nodes[m + k] = new[k]
    <3>1. IsSeq(open) /\ IsSeq(new)
      BY <1>3, <1>4
    <3> QED BY ONLY <3>1, Joined DEF nodes, m
  <2> HIDE DEF nodes
  <2>2. 1 \in 1..Len(new) /\ 2 \in 1..Len(new)
    BY <1>4
  <2>3. nodes[m + 1] = item /\ nodes[m + 2] = para
    BY <2>1, <2>2, <1>4
  <2> QED BY <2>1, <2>3, <1>4
<1>6. DOMAIN nodes = 1..(m + 2)
  BY <1>5, SeqDomain
<1> HIDE DEF nodes
<1>7. \A k \in DOMAIN nodes : k \in 1..m \/ k = m + 1 \/ k = m + 2
  BY <1>3, <1>6
<1>8. IsList(nodes)
  <2>1. nodes[1] = Node(nodes[1].type, 1, <<>>, {}) /\ nodes[1].type \in Lists
    BY <1>3, <1>5
  <2>2. nodes[2].type = "item"
    <3>1. CASE list = <<>>
      <4>1. m = 1
        BY <3>1, OneSeq DEF open
      <4> QED BY <4>1, <1>2, <1>5
    <3>2. CASE list # <<>>
      <4>1. m >= 3 /\ open[2].type = "item"
        BY <3>2, ListIs DEF open
      <4> QED BY <4>1, <1>3, <1>5
    <3> QED BY <3>1, <3>2
  <2>3. ASSUME NEW k \in 2..m
        PROVE  \/ /\ nodes[k] = Node("item", 0, <<>>, {1})
                  /\ k < Len(nodes) /\ nodes[k + 1].type = "paragraph"
               \/ /\ nodes[k] = Node("paragraph", 0, nodes[k].pieces, {1, k - 1})
                  /\ k >= 3 /\ nodes[k - 1].type = "item" /\ WordText(nodes[k].pieces)
    <3>1. list # <<>>
      <4>1. list = <<>> => open = <<first>>
        BY DEF open
      <4>2. list = <<>> => m = 1
        BY <4>1, OneSeq
      <4>3. m # 1
        BY <2>3, <1>3
      <4> QED BY <4>2, <4>3
    <3>2. open = list /\ IsList(list)
      BY <3>1 DEF open
    <3>3. \/ /\ open[k] = Node("item", 0, <<>>, {1})
             /\ k < m /\ open[k + 1].type = "paragraph"
          \/ /\ open[k] = Node("paragraph", 0, open[k].pieces, {1, k - 1})
             /\ k >= 3 /\ open[k - 1].type = "item" /\ WordText(open[k].pieces)
      BY <3>2 DEF IsList
    <3>4. nodes[k] = open[k] /\ (k < m => nodes[k + 1] = open[k + 1]) /\ nodes[k - 1] = open[k - 1]
          /\ (k < m => k < Len(nodes))
      BY <1>3, <1>5
    <3> QED BY <3>3, <3>4
  <2>4. /\ nodes[m + 1] = Node("item", 0, <<>>, {1})
        /\ m + 1 < Len(nodes) /\ nodes[(m + 1) + 1].type = "paragraph"
    BY <1>2, <1>3, <1>5 DEF item
  <2>5. /\ nodes[m + 2].pieces = text /\ (m + 2) - 1 = m + 1 /\ m + 2 >= 3
    BY <1>2, <1>3, <1>5
  <2>6. /\ nodes[m + 2] = Node("paragraph", 0, nodes[m + 2].pieces, {1, (m + 2) - 1})
        /\ m + 2 >= 3 /\ nodes[(m + 2) - 1].type = "item" /\ WordText(nodes[m + 2].pieces)
    BY <2>5, <1>2, <1>5 DEF para
  <2>7. \A k \in 2..Len(nodes) : k \in 2..m \/ k = m + 1 \/ k = m + 2
    BY <1>3, <1>5
  <2>8. Len(nodes) >= 3
    BY <1>3, <1>5
  <2> QED BY <1>5, <2>1, <2>2, <2>3, <2>4, <2>6, <2>7, <2>8 DEF IsList
<1>9. /\ \A k \in 1..m : IsText(nodes[k].pieces)
      /\ NodePieces(open) = NodePieces(list) /\ OrderedNodes(open)
  <2>1. CASE list = <<>>
    <3>1. DOMAIN open = {1} /\ open[1].pieces = <<>> /\ DOMAIN open[1].pieces = {}
      BY <2>1, <1>2, OneSeq, NoValues DEF open
    <3>2. NodePieces(open) = {} /\ OrderedNodes(open) /\ IsText(open[1].pieces)
      BY <3>1 DEF NodePieces, OrderedNodes, IsText
    <3>3. NodePieces(list) = {}
      BY <2>1, NoNode, NoValues
    <3> QED BY <3>1, <3>2, <3>3, <1>3, <1>5
  <2>2. CASE list # <<>>
    <3>1. open = list
      BY <2>2 DEF open
    <3> QED BY <3>1, <1>3, <1>5 DEF IsTree
  <2> QED BY <2>1, <2>2
<1>10. nodes[m + 1].pieces = <<>> /\ DOMAIN nodes[m + 1].pieces = {} /\ nodes[m + 2].pieces = text
  BY <1>2, <1>5, NoValues
<1>11. IsTree(nodes)
  <2>1. ASSUME NEW k \in DOMAIN nodes PROVE IsText(nodes[k].pieces)
    <3>1. IsText(nodes[m + 1].pieces) /\ IsText(nodes[m + 2].pieces)
      BY <1>10 DEF IsText
    <3> QED BY <3>1, <1>7, <1>9
  <2>2. DOMAIN nodes \subseteq Nat
    BY <1>3, <1>6
  <2> QED BY <2>1, <2>2 DEF IsTree
<1>12. NodePieces(nodes) = NodePieces(list) \cup TextPieces(text)
  <2>1. NodePieces(nodes) \subseteq NodePieces(open) \cup TextPieces(text)
    BY <1>3, <1>5, <1>7, <1>10 DEF NodePieces, TextPieces
  <2>2. NodePieces(open) \subseteq NodePieces(nodes)
    BY <1>3, <1>5, <1>6 DEF NodePieces
  <2>3. TextPieces(text) \subseteq NodePieces(nodes)
    <3>1. m + 2 \in DOMAIN nodes
      BY <1>3, <1>6
    <3> QED BY <3>1, <1>10, NodePiecesOf
  <2> QED BY <2>1, <2>2, <2>3, <1>9
<1>13. OrderedNodes(nodes)
  <2> SUFFICES ASSUME NEW j \in DOMAIN nodes, NEW k \in DOMAIN nodes,
                      NEW a \in DOMAIN nodes[j].pieces, NEW n \in DOMAIN nodes[k].pieces,
                      j < k \/ (j = k /\ a < n)
               PROVE  Earlier(nodes[j].pieces[a], nodes[k].pieces[n])
    BY DEF OrderedNodes
  <2>1. j # m + 1 /\ k # m + 1
    BY <1>10
  <2>2. CASE k \in 1..m
    <3>1. j \in 1..m
      BY <2>2, <1>3, <1>6
    <3> QED BY <2>2, <3>1, <1>3, <1>5, <1>9 DEF OrderedNodes
  <2>3. CASE k = m + 2 /\ j \in 1..m
    <3>1. nodes[j].pieces[a] \in NodePieces(open) /\ nodes[k].pieces[n] \in TextPieces(text)
      BY <2>3, <1>3, <1>5, <1>10 DEF NodePieces, TextPieces
    <3> QED BY <3>1, <1>9 DEF AllBefore
  <2>4. CASE k = m + 2 /\ j = m + 2
    <3>1. a < n
      BY <2>4, <1>3
    <3> QED BY <2>4, <3>1, <1>10 DEF OrderedText
  <2> QED BY <2>1, <2>2, <2>3, <2>4, <1>7
<1>14. DOMAIN nodes # {}
  BY <1>3, <1>6
<1> QED BY <1>1, <1>8, <1>11, <1>12, <1>13, <1>14

\* Nodes to which the validator can object for the marks of a text only.
LEMMA OnlyMarks ==
    ASSUME NEW nodes,
           \A k \in DOMAIN nodes :
              /\ Depth(nodes[k]) <= MaxDepth
              /\ nodes[k].type = "heading" => nodes[k].attr \in 2..4
              /\ nodes[k].type = "numbers" => nodes[k].attr >= 1
              /\ nodes[k].type # "fence"
              /\ nodes[k].type = "image" => nodes[k].attr = AssetUrl
              /\ Fits(nodes, k)
    PROVE  Conforms(nodes) <=> \A p \in NodePieces(nodes) : p.kind \notin BadlyMarked
<1>1. ASSUME Conforms(nodes), NEW k \in DOMAIN nodes, NEW n \in DOMAIN nodes[k].pieces
      PROVE  nodes[k].pieces[n].kind \notin BadlyMarked
  BY <1>1 DEF Conforms, Allowed
<1>2. ASSUME \A p \in NodePieces(nodes) : p.kind \notin BadlyMarked
      PROVE  Conforms(nodes)
  BY <1>2, NodePiecesOf DEF Conforms, Allowed
<1> QED BY <1>1, <1>2 DEF NodePieces

\* How many a node of a Word file lies within.
LEMMA SmallSets ==
    /\ Cardinality({}) = 0
    /\ \A x : Cardinality({x}) = 1
    /\ \A x, y : x # y => Cardinality({x, y}) = 2
<1>1. Cardinality({}) = 0
  BY FS_EmptySet
<1>2. \A x : IsFiniteSet({x}) /\ Cardinality({x}) = 1
  BY FS_Singleton
<1>3. ASSUME NEW x, NEW y, x # y
      PROVE  Cardinality({x, y}) = 2
  <2>1. {x, y} = {x} \cup {y} /\ y \notin {x}
    BY <1>3
  <2>2. Cardinality({x} \cup {y}) = Cardinality({x}) + 1
    BY <1>2, <2>1, FS_AddElement
  <2>3. 1 + 1 = 2
    OBVIOUS
  <2> QED BY <1>2, <2>1, <2>2, <2>3
<1> QED BY <1>1, <1>2, <1>3

\* The depth of what is built of a Word file.
LEMMA ShallowNode ==
    ASSUME NEW n, Cardinality(n.within) \in 0..2
    PROVE  Depth(n) <= MaxDepth
<1>1. Depth(n) = 2 + Cardinality(n.within) \/ Depth(n) = 2 + Cardinality(n.within) + 1
  BY DEF Depth
<1>2. Cardinality(n.within) \in Int /\ Cardinality(n.within) <= 2
  OBVIOUS
<1> HIDE DEF Depth
<1>3. Depth(n) \in Int /\ Depth(n) <= 5
  BY <1>1, <1>2
<1>4. MaxDepth \in Int /\ MaxDepth >= 5
  BY DepthSuffices
<1> QED BY <1>3, <1>4

\* A line or a list is refused for the marks of its text and for nothing else.
LEMMA LineConforms ==
    ASSUME NEW nodes, IsLine(nodes)
    PROVE  /\ \A k \in DOMAIN nodes : nodes[k].type # "image"
           /\ Conforms(nodes) <=> \A p \in NodePieces(nodes) : p.kind \notin BadlyMarked
<1>1. /\ DOMAIN nodes = {1} /\ nodes[1].within = {}
      /\ nodes[1].type = "paragraph" \/ (nodes[1].type = "heading" /\ nodes[1].attr \in 2..4)
  BY DEF IsLine
<1>2. Depth(nodes[1]) <= MaxDepth
  <2>1. Cardinality(nodes[1].within) = 0
    BY <1>1, SmallSets
  <2> QED BY <2>1, ShallowNode
<1>3. Inside(nodes, 1) = {}
  BY <1>1 DEF Inside
<1>4. Fits(nodes, 1)
  BY <1>1, <1>3 DEF Fits, Containers, Lists, BlockTypes
<1>5. \A k \in DOMAIN nodes : k = 1
  BY <1>1
<1>6. nodes[1].type # "image" /\ nodes[1].type # "numbers" /\ nodes[1].type # "fence"
  BY <1>1
<1>7. \A k \in DOMAIN nodes :
         /\ Depth(nodes[k]) <= MaxDepth
         /\ nodes[k].type = "heading" => nodes[k].attr \in 2..4
         /\ nodes[k].type = "numbers" => nodes[k].attr >= 1
         /\ nodes[k].type # "fence"
         /\ nodes[k].type = "image" => nodes[k].attr = AssetUrl
         /\ Fits(nodes, k)
  BY <1>1, <1>2, <1>4, <1>5, <1>6
<1> QED BY <1>5, <1>6, <1>7, OnlyMarks

\* And so is a list, whose items each hold one paragraph.
LEMMA ListConforms ==
    ASSUME NEW nodes, IsList(nodes)
    PROVE  /\ \A k \in DOMAIN nodes : nodes[k].type # "image"
           /\ Conforms(nodes) <=> \A p \in NodePieces(nodes) : p.kind \notin BadlyMarked
<1>1. /\ Len(nodes) \in Nat /\ Len(nodes) >= 3 /\ DOMAIN nodes = 1..Len(nodes)
      /\ nodes[1].type \in Lists /\ nodes[1].attr = 1 /\ nodes[1].within = {}
      /\ nodes[2].type = "item"
  BY ListIs
<1>2. ASSUME NEW k \in 2..Len(nodes)
      PROVE  \/ /\ nodes[k].type = "item" /\ nodes[k].within = {1}
                /\ k + 1 \in 2..Len(nodes) /\ nodes[k + 1].type = "paragraph"
             \/ /\ nodes[k].type = "paragraph" /\ nodes[k].within = {1, k - 1}
                /\ k - 1 \in 2..Len(nodes) /\ nodes[k - 1].type = "item"
  <2>1. CASE nodes[k].type = "item"
    BY <2>1, <1>1, ListIs
  <2>2. CASE nodes[k].type # "item"
    BY <2>2, <1>1, ListIs
  <2> QED BY <2>1, <2>2
<1>3. Inside(nodes, 1) = {k \in 2..Len(nodes) : nodes[k].type = "item"}
  <2>1. ASSUME NEW k \in 2..Len(nodes)
        PROVE  nodes[k].within = {1} <=> nodes[k].type = "item"
    <3>1. CASE nodes[k].type = "item"
      BY <3>1, <1>2
    <3>2. CASE nodes[k].type # "item"
      <4>1. nodes[k].within = {1, k - 1} /\ k - 1 \in 2..Len(nodes)
        BY <3>2, <1>2
      <4>2. k - 1 \in nodes[k].within /\ k - 1 # 1
        BY <4>1
      <4> QED BY <3>2, <4>2
    <3> QED BY <3>1, <3>2
  <2>2. nodes[1].within # {1}
    BY <1>1
  <2>3. \A k \in DOMAIN nodes : k = 1 \/ k \in 2..Len(nodes)
    BY <1>1
  <2>4. nodes[1].within \cup {1} = {1}
    BY <1>1
  <2> QED BY <1>1, <2>1, <2>2, <2>3, <2>4 DEF Inside
<1>4. ASSUME NEW k \in 2..Len(nodes), nodes[k].type = "item"
      PROVE  Inside(nodes, k) = {k + 1}
  <2>1. nodes[k].within \cup {k} = {1, k} /\ k # 1 /\ nodes[k + 1].type = "paragraph"
        /\ k + 1 \in 2..Len(nodes)
    BY <1>2, <1>4
  <2>2. ASSUME NEW c \in 2..Len(nodes), nodes[c].within = {1, k}
        PROVE  c = k + 1
    <3>1. nodes[c].within = {1, c - 1} /\ c - 1 \in 2..Len(nodes)
      BY <1>2, <2>1, <2>2
    <3>2. c - 1 = k
      BY <3>1, <2>1, <2>2
    <3> QED BY <3>2
  <2>3. nodes[k + 1].within = {1, k}
    <3>1. nodes[k + 1].within = {1, (k + 1) - 1}
      BY <1>2, <2>1
    <3> QED BY <3>1
  <2>4. nodes[1].within # {1, k}
    BY <1>1
  <2>5. \A c \in DOMAIN nodes : c = 1 \/ c \in 2..Len(nodes)
    BY <1>1
  <2>6. k + 1 \in DOMAIN nodes
    BY <2>1, <1>1
  <2> QED BY <2>1, <2>2, <2>3, <2>4, <2>5, <2>6 DEF Inside
<1>5. ASSUME NEW k \in 2..Len(nodes), nodes[k].type = "paragraph"
      PROVE  Inside(nodes, k) = {}
  <2>1. nodes[k].within \cup {k} = {1, k - 1, k} /\ k - 1 \in 2..Len(nodes)
    BY <1>2, <1>5
  <2>2. ASSUME NEW c \in 2..Len(nodes), nodes[c].within = {1, k - 1, k}
        PROVE  FALSE
    <3>1. nodes[c].within = {1} \/ nodes[c].within = {1, c - 1}
      BY <1>2
    <3>2. k - 1 \in nodes[c].within /\ k \in nodes[c].within
      BY <2>2
    <3>3. k # 1 /\ k - 1 # 1 /\ k # k - 1
      BY <2>1
    <3> QED BY <3>1, <3>2, <3>3
  <2>3. nodes[1].within # {1, k - 1, k}
    BY <1>1
  <2>4. \A c \in DOMAIN nodes : c = 1 \/ c \in 2..Len(nodes)
    BY <1>1
  <2> QED BY <2>1, <2>2, <2>3, <2>4 DEF Inside
<1>6. ASSUME NEW k \in DOMAIN nodes
      PROVE  /\ Depth(nodes[k]) <= MaxDepth
             /\ nodes[k].type # "heading" /\ nodes[k].type # "image" /\ nodes[k].type # "fence"
             /\ nodes[k].type = "numbers" => nodes[k].attr >= 1
             /\ Fits(nodes, k)
  <2>1. CASE k = 1
    <3>1. Cardinality(nodes[k].within) = 0
      BY <2>1, <1>1, SmallSets
    <3>2. Depth(nodes[k]) <= MaxDepth
      BY <3>1, ShallowNode
    <3>3. /\ nodes[k].type # "heading" /\ nodes[k].type # "image" /\ nodes[k].type # "fence"
          /\ nodes[k].attr >= 1
      BY <2>1, <1>1 DEF Lists
    <3>4. Inside(nodes, k) # {}
      <4>1. 2 \in Inside(nodes, 1)
        BY <1>1, <1>3
      <4> QED BY <2>1, <4>1
    <3>5. \A c \in Inside(nodes, k) : nodes[c].type = "item"
      BY <2>1, <1>3
    <3>6. Fits(nodes, k)
      BY <2>1, <1>1, <3>4, <3>5 DEF Fits, Lists, BlockTypes
    <3> QED BY <3>2, <3>3, <3>6
  <2>2. CASE k \in 2..Len(nodes) /\ nodes[k].type = "item"
    <3>1. Cardinality(nodes[k].within) = 1
      <4>1. nodes[k].within = {1}
        BY <2>2, <1>2
      <4> QED BY <4>1, SmallSets
    <3>2. Depth(nodes[k]) <= MaxDepth
      BY <3>1, ShallowNode
    <3>3. Inside(nodes, k) = {k + 1} /\ nodes[k + 1].type = "paragraph" /\ nodes[k].within # {}
      BY <2>2, <1>2, <1>4
    <3>4. Fits(nodes, k)
      BY <2>2, <3>3 DEF Fits, Lists, BlockTypes
    <3> QED BY <2>2, <3>2, <3>4
  <2>3. CASE k \in 2..Len(nodes) /\ nodes[k].type = "paragraph"
    <3>1. Cardinality(nodes[k].within) = 2
      <4>1. nodes[k].within = {1, k - 1} /\ 1 # k - 1
        BY <2>3, <1>2
      <4>2. \A j : 1 # j => Cardinality({1, j}) = 2
        BY SmallSets
      <4>3. 1 # k - 1
        BY <4>1
      <4>4. Cardinality({1, k - 1}) = 2
        BY ONLY <4>2, <4>3, Zenon
      <4> QED BY <4>1, <4>4
    <3>2. Depth(nodes[k]) <= MaxDepth
      BY <3>1, ShallowNode
    <3>3. Inside(nodes, k) = {}
      BY <2>3, <1>5
    <3>4. Fits(nodes, k)
      BY <2>3, <3>3 DEF Fits, Containers, Lists, BlockTypes
    <3> QED BY <2>3, <3>2, <3>4
  <2>4. k = 1 \/ k \in 2..Len(nodes)
    BY <1>1
  <2> QED BY <2>1, <2>2, <2>3, <2>4, <1>2
<1> QED BY <1>6, OnlyMarks

\* Images are stored with the address of an asset, in their order.
LEMMA PicturesStored ==
    ASSUME NEW nodes, IsPictures(nodes)
    PROVE  /\ DOMAIN Stored(nodes) = {k \in DOMAIN nodes : nodes[k].pieces[1].at \in kept}
           /\ \A k \in DOMAIN Stored(nodes) : Stored(nodes)[k].pieces = nodes[k].pieces
           /\ Conforms(Stored(nodes))
           /\ \A p \in NodePieces(nodes) : p.kind = "image"
<1> DEFINE stored == Stored(nodes)
<1>1. ASSUME NEW k \in DOMAIN nodes
      PROVE  /\ nodes[k].type = "image" /\ nodes[k].within = {}
             /\ DOMAIN nodes[k].pieces = {1} /\ nodes[k].pieces[1].kind = "image"
  <2>1. /\ nodes[k].type = "image" /\ nodes[k].within = {}
        /\ nodes[k].pieces = <<Piece(nodes[k].pieces[1].at, "image")>>
    BY DEF IsPictures
  <2>2. DOMAIN nodes[k].pieces = {1} /\ nodes[k].pieces[1] = Piece(nodes[k].pieces[1].at, "image")
    BY <2>1
  <2> QED BY <2>1, <2>2, PieceOf
<1>2. DOMAIN stored = {k \in DOMAIN nodes : nodes[k].pieces[1].at \in kept}
  BY <1>1 DEF Stored
<1>3. ASSUME NEW k \in DOMAIN stored
      PROVE  /\ stored[k].type = "image" /\ stored[k].within = {} /\ stored[k].attr = AssetUrl
             /\ stored[k].pieces = nodes[k].pieces
  <2>1. stored[k] = [nodes[k] EXCEPT !.attr = AssetUrl]
    BY <1>1, <1>2 DEF Stored
  <2> QED BY <2>1, <1>1, <1>2
<1> HIDE DEF stored
<1>4. ASSUME NEW k \in DOMAIN stored
      PROVE  /\ Depth(stored[k]) <= MaxDepth /\ Fits(stored, k)
  <2>1. Cardinality(stored[k].within) = 0
    BY <1>3, SmallSets
  <2>2. Depth(stored[k]) <= MaxDepth
    BY <2>1, ShallowNode
  <2>3. Inside(stored, k) = {}
    BY <1>3 DEF Inside
  <2>4. Fits(stored, k)
    BY <1>3, <2>3 DEF Fits, Containers, Lists, BlockTypes
  <2> QED BY <2>2, <2>4
<1>8. \A p \in NodePieces(stored) : p.kind = "image"
  BY <1>1, <1>2, <1>3 DEF NodePieces
<1>5. \A p \in NodePieces(stored) : p.kind \notin BadlyMarked
  BY <1>8 DEF BadlyMarked
<1>6. Conforms(stored)
  BY <1>3, <1>4, <1>5, OnlyMarks
<1>7. \A p \in NodePieces(nodes) : p.kind = "image"
  BY <1>1 DEF NodePieces
<1> QED BY <1>2, <1>3, <1>6, <1>7 DEF stored

\* The validator takes what is built of a Word file, but for the marks of its text.
LEMMA WordConforms ==
    ASSUME NEW nodes, IsWord(nodes)
    PROVE  Conforms(Stored(nodes)) <=> \A p \in NodePieces(nodes) : p.kind \notin BadlyMarked
<1>1. CASE IsLine(nodes) \/ IsList(nodes)
  <2>1. /\ \A k \in DOMAIN nodes : nodes[k].type # "image"
        /\ Conforms(nodes) <=> \A p \in NodePieces(nodes) : p.kind \notin BadlyMarked
    BY <1>1, LineConforms, ListConforms
  <2>2. Conforms(Stored(nodes)) <=> Conforms(nodes)
    BY <2>1, StoredText, ConformsAlike
  <2> QED BY <2>1, <2>2
<1>2. CASE IsPictures(nodes)
  BY <1>2, PicturesStored DEF BadlyMarked
<1> QED BY <1>1, <1>2 DEF IsWord

-----------------------------------------------------------------------------
(* Sections and pages                                                      *)

\* The elements of a function.
LEMMA ValueOf ==
    ASSUME NEW s
    PROVE  /\ \A e \in DOMAIN s : s[e] \in Values(s)
           /\ \A ev \in Values(s) : \E e \in DOMAIN s : ev = s[e]
BY DEF Values

\* What is known of an event of a sound sequence.
LEMMA EventIs ==
    ASSUME NEW n, NEW all, Sound(all, n), NEW e \in DOMAIN all
    PROVE  /\ e \in Nat /\ e >= 1 /\ \A f \in 1..e : f \in DOMAIN all
           /\ IsEvent(all[e]) /\ OrderedNodes(all[e].nodes) /\ OrderedText(all[e].title)
           /\ \/ all[e].kind = "block" /\ DOMAIN all[e].nodes # {} /\ DOMAIN all[e].title = {}
              \/ all[e].kind = "page_break" /\ DOMAIN all[e].nodes = {}
<1>1. IsSeq(all) /\ all[e] \in Values(all)
  BY ValueOf DEF Sound
<1>2. Len(all) \in Nat /\ DOMAIN all = 1..Len(all)
  BY <1>1, SeqDomain
<1>3. e \in Nat /\ e >= 1 /\ \A f \in 1..e : f \in DOMAIN all
  BY <1>2
<1>4. IsEvent(all[e]) /\ OrderedNodes(all[e].nodes) /\ OrderedText(all[e].title)
  BY <1>1 DEF Sound
<1> QED BY <1>3, <1>4 DEF IsEvent

\* Every block is in the section of the last page break before it.
LEMMA SectionOf ==
    ASSUME NEW n, NEW all, Sound(all, n), NEW e \in DOMAIN all, all[e].kind = "block"
    PROVE  \E s \in Filled(all) : e \in BlocksOf(all, s)
<1> DEFINE T == {d \in Nat : d <= e /\ e - d \in Sections(all)}
<1>1. e \in Nat /\ e >= 1 /\ \A f \in 1..e : f \in DOMAIN all
  BY EventIs
<1>2. e - e = 0 /\ e <= e /\ 0 \in Sections(all)
  BY <1>1 DEF Sections
<1>3. e \in T
  BY <1>1, <1>2
<1>4. PICK d \in T : \A c \in T : d <= c
  BY <1>3, Least
<1> DEFINE s == e - d
<1>5. d \in Nat /\ s \in Sections(all) /\ s \in Nat /\ s <= e
  BY <1>1, <1>4
<1>6. s # e
  <2>1. e \notin Sections(all)
    BY <1>1 DEF Sections
  <2> QED BY <1>5, <2>1
<1>7. ASSUME NEW f \in (s + 1)..e
      PROVE  all[f].kind = "block"
  <2>1. f \in DOMAIN all /\ e - f \in Nat /\ e - f <= e /\ e - (e - f) = f /\ ~(d <= e - f)
    BY <1>1, <1>5
  <2>2. e - f \notin T
    BY <2>1, <1>4
  <2>3. f \notin Sections(all)
    BY <2>1, <2>2
  <2>4. all[f].kind # "page_break"
    BY <2>1, <2>3 DEF Sections
  <2> QED BY <2>1, <2>4, EventIs
<1>8. e \in BlocksOf(all, s)
  BY <1>1, <1>5, <1>6, <1>7 DEF BlocksOf
<1>9. s \in Filled(all)
  BY <1>5, <1>8 DEF Filled
<1> QED BY <1>8, <1>9

\* The blocks of a section are behind its beginning and before the next one.
LEMMA BlocksAre ==
    ASSUME NEW n, NEW all, Sound(all, n), NEW s \in Sections(all), NEW e \in BlocksOf(all, s)
    PROVE  /\ e \in DOMAIN all /\ e \in Nat /\ s \in Nat /\ s < e /\ all[e].kind = "block"
           /\ \A t \in Sections(all) : s < t => e < t
<1>1. e \in DOMAIN all /\ s < e /\ \A f \in (s + 1)..e : all[f].kind = "block"
  BY DEF BlocksOf
<1>2. e \in Nat /\ \A t \in Sections(all) : t \in Nat
  BY <1>1, EventIs DEF Sections
<1>3. all[e].kind = "block"
  BY <1>1, <1>2
<1>4. ASSUME NEW t \in Sections(all), s < t
      PROVE  e < t
  <2>1. ASSUME t <= e PROVE FALSE
    <3>1. t \in (s + 1)..e
      BY <1>2, <1>4, <2>1
    <3>2. t # 0
      BY <1>2, <1>4
    <3> QED BY <1>1, <3>1, <3>2 DEF Sections
  <2> QED BY <1>2, <2>1
<1> QED BY <1>1, <1>2, <1>3, <1>4

\* The fields of a page.
LEMMA PageIs ==
    ASSUME NEW heading, NEW blocks
    PROVE  Page(heading, blocks).title = heading /\ Page(heading, blocks).blocks = blocks
BY DEF Page

\* The pages that are made: one for every section with a block in it.
LEMMA PagesOfIs ==
    ASSUME NEW all
    PROVE  /\ DOMAIN PagesOf(all) = Filled(all)
           /\ \A s \in Filled(all) :
                 /\ PagesOf(all)[s].title = IF s = 0 THEN <<>> ELSE all[s].title
                 /\ DOMAIN PagesOf(all)[s].blocks = BlocksOf(all, s)
                 /\ \A e \in BlocksOf(all, s) : PagesOf(all)[s].blocks[e] = all[e].nodes
<1>1. DOMAIN PagesOf(all) = Filled(all)
  BY DEF PagesOf
<1>2. ASSUME NEW s \in Filled(all)
      PROVE  /\ PagesOf(all)[s].title = IF s = 0 THEN <<>> ELSE all[s].title
             /\ PagesOf(all)[s].blocks = [e \in BlocksOf(all, s) |-> all[e].nodes]
  <2>1. PagesOf(all)[s] = Page(IF s = 0 THEN <<>> ELSE all[s].title,
                               [e \in BlocksOf(all, s) |-> all[e].nodes])
    BY DEF PagesOf
  <2> QED BY <2>1, PageIs
<1> QED BY <1>1, <1>2

\* What is stored of a block's nodes has their pieces.
LEMMA StoredIs ==
    ASSUME NEW nodes
    PROVE  /\ DOMAIN Stored(nodes) =
                 {k \in DOMAIN nodes : nodes[k].type = "image" => nodes[k].pieces[1].at \in kept}
           /\ \A k \in DOMAIN Stored(nodes) : Stored(nodes)[k].pieces = nodes[k].pieces
BY DEF Stored

\* A page keeps its title and the blocks of which something is stored.
LEMMA RewrittenIs ==
    ASSUME NEW p
    PROVE  /\ Rewritten(p).title = p.title
           /\ DOMAIN Rewritten(p).blocks = {e \in DOMAIN p.blocks : DOMAIN Stored(p.blocks[e]) # {}}
           /\ \A e \in DOMAIN Rewritten(p).blocks : Rewritten(p).blocks[e] = Stored(p.blocks[e])
<1> DEFINE blocks == [e \in {f \in DOMAIN p.blocks : DOMAIN Stored(p.blocks[f]) # {}} |-> Stored(p.blocks[e])]
<1>1. Rewritten(p) = Page(p.title, blocks)
  BY DEF Rewritten
<1>2. Rewritten(p).title = p.title /\ Rewritten(p).blocks = blocks
  BY <1>1, PageIs
<1> QED BY <1>2

\* A page that was left blank has nothing to show and is well formed.
LEMMA BlankIsValid ==
    ASSUME NEW heading
    PROVE  /\ BlankPage(heading).title = heading
           /\ DOMAIN BlankPage(heading).blocks = {1}
           /\ NodePieces(BlankPage(heading).blocks[1]) = {}
           /\ WellFormed(BlankPage(heading))
<1> DEFINE n == Node("paragraph", 0, <<>>, {})
           nodes == <<n>>
           page == BlankPage(heading)
<1>1. page.title = heading /\ page.blocks = <<nodes>>
  BY PageIs DEF BlankPage
<1>2. n.type = "paragraph" /\ n.within = {} /\ n.pieces = <<>>
  BY NodeIs
<1> HIDE DEF n, page
<1>3. DOMAIN nodes = {1} /\ nodes[1] = n
  OBVIOUS
<1>4. DOMAIN page.blocks = {1} /\ page.blocks[1] = nodes
  BY <1>1
<1> HIDE DEF nodes
<1>5. NodePieces(nodes) = {}
  BY <1>2, <1>3, NoValues DEF NodePieces
<1>6. IsLine(nodes)
  BY <1>2, <1>3, NoValues DEF IsLine, WordText, TextPieces
<1>7. Conforms(nodes)
  BY <1>5, <1>6, LineConforms
<1> QED BY <1>1, <1>4, <1>5, <1>7 DEF WellFormed, page

\* A finished page is well formed when all of its blocks are, and shows pieces of the
\* page that was made, where they were.
LEMMA FinishedIs ==
    ASSUME NEW p
    PROVE  /\ Finished(p).title = p.title
           /\ WellFormed(Finished(p)) <=> \A e \in DOMAIN p.blocks : Conforms(Stored(p.blocks[e]))
           /\ \A e \in DOMAIN p.blocks :
                 DOMAIN Stored(p.blocks[e]) # {} =>
                    e \in DOMAIN Finished(p).blocks /\ Finished(p).blocks[e] = Stored(p.blocks[e])
           /\ \A e \in DOMAIN Finished(p).blocks : \A k \in DOMAIN Finished(p).blocks[e] :
                 \A n \in DOMAIN Finished(p).blocks[e][k].pieces :
                    /\ e \in DOMAIN p.blocks /\ k \in DOMAIN p.blocks[e]
                    /\ n \in DOMAIN p.blocks[e][k].pieces
                    /\ Finished(p).blocks[e][k].pieces[n] = p.blocks[e][k].pieces[n]
<1> DEFINE kept1 == {e \in DOMAIN p.blocks : DOMAIN Stored(p.blocks[e]) # {}}
<1>1. /\ Rewritten(p).title = p.title /\ DOMAIN Rewritten(p).blocks = kept1
      /\ \A e \in kept1 : Rewritten(p).blocks[e] = Stored(p.blocks[e])
  BY RewrittenIs
<1>2. \A nodes : DOMAIN nodes = {} => Conforms(nodes)
  BY DEF Conforms
<1>3. CASE kept1 = {}
  <2>1. Finished(p) = BlankPage(p.title)
    BY <1>1, <1>3 DEF Finished
  <2>2. \A e \in DOMAIN p.blocks : Conforms(Stored(p.blocks[e]))
    BY <1>2, <1>3
  <2>3. \A e \in DOMAIN Finished(p).blocks : \A k \in DOMAIN Finished(p).blocks[e] :
           DOMAIN Finished(p).blocks[e][k].pieces = {}
    <3>1. DOMAIN Finished(p).blocks = {1} /\ NodePieces(Finished(p).blocks[1]) = {}
      BY <2>1, BlankIsValid
    <3> QED BY <3>1, NodePiecesOf
  <2>4. Finished(p).title = p.title /\ WellFormed(Finished(p))
    BY <2>1, BlankIsValid
  <2> QED BY <1>3, <2>2, <2>3, <2>4
<1>4. CASE kept1 # {}
  <2>1. Finished(p) = Rewritten(p)
    BY <1>1, <1>4 DEF Finished
  <2>2. WellFormed(Finished(p)) <=> \A e \in kept1 : Conforms(Stored(p.blocks[e]))
    BY <1>1, <1>4, <2>1 DEF WellFormed
  <2>3. \A e \in DOMAIN p.blocks : e \notin kept1 => Conforms(Stored(p.blocks[e]))
    BY <1>2
  <2>4. ASSUME NEW e \in kept1, NEW k \in DOMAIN Stored(p.blocks[e]),
               NEW n \in DOMAIN Stored(p.blocks[e])[k].pieces
        PROVE  /\ e \in DOMAIN p.blocks /\ k \in DOMAIN p.blocks[e]
               /\ n \in DOMAIN p.blocks[e][k].pieces
               /\ Stored(p.blocks[e])[k].pieces[n] = p.blocks[e][k].pieces[n]
    BY <2>4, StoredIs
  <2> HIDE DEF kept1
  <2>5. \A e \in DOMAIN Finished(p).blocks : \A k \in DOMAIN Finished(p).blocks[e] :
           \A n \in DOMAIN Finished(p).blocks[e][k].pieces :
              /\ e \in DOMAIN p.blocks /\ k \in DOMAIN p.blocks[e]
              /\ n \in DOMAIN p.blocks[e][k].pieces
              /\ Finished(p).blocks[e][k].pieces[n] = p.blocks[e][k].pieces[n]
    BY <1>1, <2>1, <2>4
  <2>6. \A e \in DOMAIN p.blocks :
           DOMAIN Stored(p.blocks[e]) # {} =>
              e \in DOMAIN Finished(p).blocks /\ Finished(p).blocks[e] = Stored(p.blocks[e])
    BY <1>1, <2>1 DEF kept1
  <2>7. WellFormed(Finished(p)) <=> \A e \in DOMAIN p.blocks : Conforms(Stored(p.blocks[e]))
    BY <2>2, <2>3 DEF kept1
  <2> QED BY <1>1, <2>1, <2>5, <2>6, <2>7
<1> QED BY <1>3, <1>4

\* Every page is one the validator takes when every block is.
LEMMA PagesValid ==
    ASSUME NEW n, NEW all, Sound(all, n)
    PROVE  (\A s \in DOMAIN PagesOf(all) : WellFormed(Finished(PagesOf(all)[s])))
              <=> \A ev \in Values(all) : ev.kind = "block" => Conforms(Stored(ev.nodes))
<1>1. ASSUME NEW s \in Filled(all)
      PROVE  WellFormed(Finished(PagesOf(all)[s]))
                <=> \A e \in BlocksOf(all, s) : Conforms(Stored(all[e].nodes))
  <2>1. /\ DOMAIN PagesOf(all)[s].blocks = BlocksOf(all, s)
        /\ \A e \in BlocksOf(all, s) : PagesOf(all)[s].blocks[e] = all[e].nodes
    BY PagesOfIs
  <2> QED BY <2>1, FinishedIs
<1>2. ASSUME \A s \in Filled(all) : \A e \in BlocksOf(all, s) : Conforms(Stored(all[e].nodes)),
             NEW e \in DOMAIN all, all[e].kind = "block"
      PROVE  Conforms(Stored(all[e].nodes))
  BY <1>2, SectionOf
<1>3. ASSUME \A ev \in Values(all) : ev.kind = "block" => Conforms(Stored(ev.nodes)),
             NEW s \in Filled(all), NEW e \in BlocksOf(all, s)
      PROVE  Conforms(Stored(all[e].nodes))
  <2>1. s \in Sections(all)
    BY DEF Filled
  <2>2. e \in DOMAIN all /\ all[e].kind = "block"
    BY <2>1, BlocksAre
  <2> QED BY <1>3, <2>2, ValueOf
<1>4. DOMAIN PagesOf(all) = Filled(all)
  BY PagesOfIs
<1> QED BY <1>1, <1>2, <1>3, <1>4, ValueOf

-----------------------------------------------------------------------------
(* What a module that was created shows                                    *)

\* The fields of what a reader meets.
LEMMA ShowingIs ==
    ASSUME NEW s, NEW e, NEW k, NEW n, NEW piece
    PROVE  LET x == Showing(s, e, k, n, piece)
           IN x.page = s /\ x.event = e /\ x.node = k /\ x.nth = n /\ x.piece = piece
BY DEF Showing

\* A finished page shows its title and what is stored of its blocks, and nothing
\* else.
LEMMA PageShowsIs ==
    ASSUME NEW s, NEW p
    PROVE  /\ \A x \in PageShows(s, Finished(p)) :
                 /\ x.page = s
                 /\ \/ x.event = 0 /\ x.node = 0 /\ x.nth \in DOMAIN p.title /\ x.piece = p.title[x.nth]
                    \/ /\ x.event \in DOMAIN p.blocks /\ x.node \in DOMAIN p.blocks[x.event]
                       /\ x.nth \in DOMAIN p.blocks[x.event][x.node].pieces
                       /\ x.piece = p.blocks[x.event][x.node].pieces[x.nth]
           /\ \A n \in DOMAIN p.title : \E x \in PageShows(s, Finished(p)) : x.piece = p.title[n]
           /\ \A e \in DOMAIN p.blocks : \A k \in DOMAIN Stored(p.blocks[e]) :
                 \A n \in DOMAIN p.blocks[e][k].pieces :
                    \E x \in PageShows(s, Finished(p)) : x.piece = p.blocks[e][k].pieces[n]
<1> DEFINE f == Finished(p)
<1>1. f.title = p.title
  BY FinishedIs
<1>2. ASSUME NEW x \in PageShows(s, f)
      PROVE  /\ x.page = s
             /\ \/ x.event = 0 /\ x.node = 0 /\ x.nth \in DOMAIN p.title /\ x.piece = p.title[x.nth]
                \/ /\ x.event \in DOMAIN p.blocks /\ x.node \in DOMAIN p.blocks[x.event]
                   /\ x.nth \in DOMAIN p.blocks[x.event][x.node].pieces
                   /\ x.piece = p.blocks[x.event][x.node].pieces[x.nth]
  <2>1. CASE \E n \in DOMAIN f.title : x = Showing(s, 0, 0, n, f.title[n])
    <3>1. PICK n \in DOMAIN f.title : x = Showing(s, 0, 0, n, f.title[n])
      BY <2>1
    <3>2. x.page = s /\ x.event = 0 /\ x.node = 0 /\ x.nth = n /\ x.piece = f.title[n]
      BY <3>1, ShowingIs
    <3> QED BY <3>2, <1>1
  <2>2. CASE \E e \in DOMAIN f.blocks : \E k \in DOMAIN f.blocks[e] :
                \E n \in DOMAIN f.blocks[e][k].pieces :
                   x = Showing(s, e, k, n, f.blocks[e][k].pieces[n])
    <3>4. PICK e \in DOMAIN f.blocks :
             \E k \in DOMAIN f.blocks[e] : \E n \in DOMAIN f.blocks[e][k].pieces :
                x = Showing(s, e, k, n, f.blocks[e][k].pieces[n])
      BY <2>2
    <3>5. PICK k \in DOMAIN f.blocks[e] :
             \E n \in DOMAIN f.blocks[e][k].pieces :
                x = Showing(s, e, k, n, f.blocks[e][k].pieces[n])
      BY <3>4
    <3>1. PICK n \in DOMAIN f.blocks[e][k].pieces :
             x = Showing(s, e, k, n, f.blocks[e][k].pieces[n])
      BY <3>5
    <3>2. x.page = s /\ x.event = e /\ x.node = k /\ x.nth = n /\ x.piece = f.blocks[e][k].pieces[n]
      BY <3>1, ShowingIs
    <3>3. /\ e \in DOMAIN p.blocks /\ k \in DOMAIN p.blocks[e] /\ n \in DOMAIN p.blocks[e][k].pieces
          /\ f.blocks[e][k].pieces[n] = p.blocks[e][k].pieces[n]
      BY FinishedIs
    <3> QED BY <3>2, <3>3
  <2> QED BY <2>1, <2>2 DEF PageShows, BlockShows
<1>3. ASSUME NEW n \in DOMAIN p.title
      PROVE  \E x \in PageShows(s, f) : x.piece = p.title[n]
  <2> DEFINE x == Showing(s, 0, 0, n, f.title[n])
  <2>1. x \in PageShows(s, f)
    BY <1>1 DEF PageShows
  <2>2. x.piece = p.title[n]
    BY <1>1, ShowingIs
  <2> QED BY <2>1, <2>2
<1>4. ASSUME NEW e \in DOMAIN p.blocks, NEW k \in DOMAIN Stored(p.blocks[e]),
             NEW n \in DOMAIN p.blocks[e][k].pieces
      PROVE  \E x \in PageShows(s, f) : x.piece = p.blocks[e][k].pieces[n]
  <2>1. e \in DOMAIN f.blocks /\ f.blocks[e] = Stored(p.blocks[e])
    BY FinishedIs
  <2>2. k \in DOMAIN f.blocks[e] /\ f.blocks[e][k].pieces = p.blocks[e][k].pieces
    BY <2>1, StoredIs
  <2> DEFINE x == Showing(s, e, k, n, f.blocks[e][k].pieces[n])
  <2>3. x \in BlockShows(s, e, f.blocks[e])
    BY <2>2 DEF BlockShows
  <2>4. x \in PageShows(s, f)
    BY <2>1, <2>3 DEF PageShows
  <2>5. x.piece = p.blocks[e][k].pieces[n]
    BY <2>2, ShowingIs
  <2> QED BY <2>4, <2>5
<1> QED BY <1>2, <1>3, <1>4

\* The module shows its title and the finished pages.
LEMMA ShownIs ==
    ASSUME ImportInv, phase \in {"created", "invalid"}
    PROVE  /\ \A x \in Shown :
                 \/ /\ x.page = -1 /\ x.event = 0 /\ x.node = 0
                    /\ x.nth \in DOMAIN title /\ x.piece = title[x.nth]
                 \/ x.page \in DOMAIN Made /\ x \in PageShows(x.page, Finished(Made[x.page]))
           /\ \A n \in DOMAIN title : \E x \in Shown : x.piece = title[n]
           /\ \A s \in DOMAIN Made : PageShows(s, Finished(Made[s])) \subseteq Shown
<1>1. pages = [s \in DOMAIN Made |-> Finished(Made[s])]
  BY DEF ImportInv, Judged
<1> HIDE DEF Made
<1>2. DOMAIN pages = DOMAIN Made /\ \A s \in DOMAIN Made : pages[s] = Finished(Made[s])
  BY <1>1
<1>3. ASSUME NEW x \in Shown
      PROVE  \/ /\ x.page = -1 /\ x.event = 0 /\ x.node = 0
                /\ x.nth \in DOMAIN title /\ x.piece = title[x.nth]
             \/ x.page \in DOMAIN Made /\ x \in PageShows(x.page, Finished(Made[x.page]))
  <2>1. CASE \E n \in DOMAIN title : x = Showing(-1, 0, 0, n, title[n])
    <3>1. PICK n \in DOMAIN title : x = Showing(-1, 0, 0, n, title[n])
      BY <2>1
    <3>2. x.page = -1 /\ x.event = 0 /\ x.node = 0 /\ x.nth = n /\ x.piece = title[n]
      BY <3>1, ShowingIs
    <3> QED BY <3>2
  <2>2. CASE \E s \in DOMAIN Made : x \in PageShows(s, Finished(Made[s]))
    <3>1. PICK s \in DOMAIN Made : x \in PageShows(s, Finished(Made[s]))
      BY <2>2
    <3>2. x.page = s
      BY <3>1, PageShowsIs
    <3> QED BY <3>1, <3>2
  <2> QED BY <2>1, <2>2, <1>2 DEF Shown
<1>4. ASSUME NEW n \in DOMAIN title
      PROVE  \E x \in Shown : x.piece = title[n]
  <2>1. Showing(-1, 0, 0, n, title[n]) \in Shown
    BY DEF Shown
  <2>2. Showing(-1, 0, 0, n, title[n]).piece = title[n]
    BY ShowingIs
  <2> QED BY <2>1, <2>2
<1>5. \A s \in DOMAIN Made : PageShows(s, Finished(Made[s])) \subseteq Shown
  BY <1>2 DEF Shown
<1> QED BY <1>3, <1>4, <1>5

\* The event a reader meets there.
EventOf(x) == IF x.event = 0 THEN x.page ELSE x.event

\* What the invariant says when the validator has judged.
LEMMA MadeIs ==
    ASSUME ImportInv, phase \in {"created", "invalid"}
    PROVE  /\ Collected /\ Sound(All, Len(source)) /\ images = {}
           /\ format # "pdf" => Made = PagesOf(All) /\ EmptySections(All) \subseteq issues
           /\ format = "pdf" => Made = PdfMade
           /\ phase = "created" <=> \A s \in DOMAIN Made : ValidPage(Finished(Made[s]))
BY DEF ImportInv, Judged, Collected, Made

\* Each piece that is shown was collected, and comes from the title, a break or
\* a block of the page a reader meets it on.
LEMMA PieceShownIs ==
    ASSUME ImportInv, phase \in {"created", "invalid"}, format # "pdf", NEW x \in Shown
    PROVE  \/ /\ x.page = -1 /\ x.event = 0 /\ x.node = 0
              /\ x.nth \in DOMAIN title /\ x.piece = title[x.nth]
           \/ /\ x.page \in Filled(All) /\ x.page \in DOMAIN All /\ x.event = 0 /\ x.node = 0
              /\ x.nth \in DOMAIN All[x.page].title /\ x.piece = All[x.page].title[x.nth]
           \/ /\ x.page \in Filled(All) /\ x.event \in BlocksOf(All, x.page)
              /\ x.node \in DOMAIN All[x.event].nodes
              /\ x.nth \in DOMAIN All[x.event].nodes[x.node].pieces
              /\ x.piece = All[x.event].nodes[x.node].pieces[x.nth]
<1>1. Made = PagesOf(All)
  BY MadeIs
<1>2. CASE /\ x.page = -1 /\ x.event = 0 /\ x.node = 0
           /\ x.nth \in DOMAIN title /\ x.piece = title[x.nth]
  BY <1>2
<1>3. CASE x.page \in DOMAIN Made /\ x \in PageShows(x.page, Finished(Made[x.page]))
  <2> DEFINE p == PagesOf(All)[x.page]
  <2>1. x.page \in Filled(All) /\ x \in PageShows(x.page, Finished(p))
    BY <1>1, <1>3, PagesOfIs
  <2>2. /\ p.title = IF x.page = 0 THEN <<>> ELSE All[x.page].title
        /\ DOMAIN p.blocks = BlocksOf(All, x.page)
        /\ \A e \in BlocksOf(All, x.page) : p.blocks[e] = All[e].nodes
    BY <2>1, PagesOfIs
  <2> HIDE DEF p
  <2>3. \/ x.event = 0 /\ x.node = 0 /\ x.nth \in DOMAIN p.title /\ x.piece = p.title[x.nth]
        \/ /\ x.event \in DOMAIN p.blocks /\ x.node \in DOMAIN p.blocks[x.event]
           /\ x.nth \in DOMAIN p.blocks[x.event][x.node].pieces
           /\ x.piece = p.blocks[x.event][x.node].pieces[x.nth]
    BY <2>1, PageShowsIs
  <2>4. x.page = 0 => DOMAIN p.title = {}
    BY <2>2, NoValues
  <2>5. x.page # 0 => x.page \in DOMAIN All
    BY <2>1 DEF Filled, Sections
  <2> QED BY <2>1, <2>2, <2>3, <2>4, <2>5
<1> QED BY <1>2, <1>3, ShownIs

\* The event of what is shown, in the section of its page.
LEMMA PlaceIs ==
    ASSUME ImportInv, phase \in {"created", "invalid"}, format # "pdf", NEW x \in Shown, x.page # -1
    PROVE  /\ x.page \in Sections(All) /\ x.page \in Nat /\ x.event \in Nat
           /\ EventOf(x) \in DOMAIN All /\ EventOf(x) \in Nat
           /\ x.page <= EventOf(x)
           /\ x.event # 0 => x.page < x.event
           /\ \A t \in Sections(All) : x.page < t => EventOf(x) < t
           /\ x.piece \in PiecesOf(All[EventOf(x)]) /\ x.piece \in Pieces(All)
           /\ \/ /\ x.event = 0 /\ x.node = 0 /\ x.nth \in DOMAIN All[EventOf(x)].title
                 /\ x.piece = All[EventOf(x)].title[x.nth]
              \/ /\ x.event # 0 /\ x.node \in DOMAIN All[EventOf(x)].nodes
                 /\ x.nth \in DOMAIN All[EventOf(x)].nodes[x.node].pieces
                 /\ x.piece = All[EventOf(x)].nodes[x.node].pieces[x.nth]
<1>1. Sound(All, Len(source))
  BY MadeIs
<1>2. CASE /\ x.page \in Filled(All) /\ x.page \in DOMAIN All /\ x.event = 0 /\ x.node = 0
           /\ x.nth \in DOMAIN All[x.page].title /\ x.piece = All[x.page].title[x.nth]
  <2>1. EventOf(x) = x.page /\ x.page \in Sections(All)
    BY <1>2 DEF EventOf, Filled
  <2>2. x.page \in Nat
    BY <1>1, <1>2, EventIs
  <2>3. x.piece \in PiecesOf(All[EventOf(x)])
    BY <1>2, <2>1 DEF PiecesOf, TextPieces
  <2>4. All[EventOf(x)] \in Values(All)
    BY <1>2, <2>1, ValueOf
  <2>5. x.piece \in Pieces(All)
    BY <2>3, <2>4 DEF Pieces, Body, Headings, PiecesOf
  <2> QED BY <1>2, <2>1, <2>2, <2>3, <2>5
<1>3. CASE /\ x.page \in Filled(All) /\ x.event \in BlocksOf(All, x.page)
           /\ x.node \in DOMAIN All[x.event].nodes
           /\ x.nth \in DOMAIN All[x.event].nodes[x.node].pieces
           /\ x.piece = All[x.event].nodes[x.node].pieces[x.nth]
  <2>1. x.page \in Sections(All)
    BY <1>3 DEF Filled
  <2>2. /\ x.event \in DOMAIN All /\ x.event \in Nat /\ x.page \in Nat /\ x.page < x.event
        /\ \A t \in Sections(All) : x.page < t => x.event < t
    BY <1>1, <1>3, <2>1, BlocksAre
  <2>3. EventOf(x) = x.event /\ x.event # 0
    BY <2>2 DEF EventOf
  <2>4. x.piece \in PiecesOf(All[EventOf(x)])
    BY <1>3, <2>3, NodePiecesOf DEF PiecesOf
  <2>5. All[EventOf(x)] \in Values(All)
    BY <2>2, <2>3, ValueOf
  <2>6. x.piece \in Pieces(All)
    BY <2>4, <2>5 DEF Pieces, Body, Headings, PiecesOf
  <2> QED BY <1>3, <2>1, <2>2, <2>3, <2>4, <2>6
<1> QED BY <1>2, <1>3, PieceShownIs

\* A reader meets the pieces in the order of the file.
LEMMA InOrder ==
    ASSUME ImportInv, phase \in {"created", "invalid"}, format # "pdf",
           NEW x \in Shown, NEW y \in Shown, Before(x, y)
    PROVE  Earlier(x.piece, y.piece)
<1>1. Sound(All, Len(source)) /\ TitleFirst
  BY MadeIs DEF Collected
<1>2. CASE y.page = -1
  <2>1. x.page = -1
    <3>1. ASSUME x.page # -1 PROVE FALSE
      <4>1. x.page \in Nat
        BY <3>1, PlaceIs
      <4> QED BY <4>1, <1>2 DEF Before
    <3> QED BY <3>1
  <2>2. /\ x.event = 0 /\ x.node = 0 /\ x.nth \in DOMAIN title /\ x.piece = title[x.nth]
        /\ y.event = 0 /\ y.node = 0 /\ y.nth \in DOMAIN title /\ y.piece = title[y.nth]
    <3>1. ASSUME NEW s \in Filled(All) PROVE s # -1
      BY <1>1, <3>1, EventIs DEF Filled, Sections
    <3> QED BY <1>2, <2>1, <3>1, PieceShownIs
  <2>3. x.nth < y.nth
    BY <1>2, <2>1, <2>2 DEF Before
  <2> QED BY <2>2, <2>3, <1>1 DEF TitleFirst, OrderedText
<1>3. CASE y.page # -1 /\ x.page = -1
  <2>1. y.piece \in Pieces(All)
    BY <1>3, PlaceIs
  <2>2. x.piece \in TextPieces(title)
    <3>1. ASSUME NEW s \in Filled(All) PROVE s # -1
      BY <1>1, <3>1, EventIs DEF Filled, Sections
    <3>2. x.nth \in DOMAIN title /\ x.piece = title[x.nth]
      BY <1>3, <3>1, PieceShownIs
    <3> QED BY <3>2 DEF TextPieces
  <2> QED BY <2>1, <2>2, <1>1 DEF TitleFirst, AllBefore
<1>4. CASE y.page # -1 /\ x.page # -1
  <2> DEFINE f == EventOf(x)
             g == EventOf(y)
  <2>1. /\ x.page \in Sections(All) /\ x.page \in Nat /\ x.event \in Nat
        /\ f \in DOMAIN All /\ f \in Nat /\ x.page <= f
        /\ x.event # 0 => x.page < x.event
        /\ \A t \in Sections(All) : x.page < t => f < t
        /\ x.piece \in PiecesOf(All[f])
    BY <1>4, PlaceIs
  <2>2. /\ y.page \in Sections(All) /\ y.page \in Nat /\ y.event \in Nat
        /\ g \in DOMAIN All /\ g \in Nat /\ y.page <= g
        /\ y.event # 0 => y.page < y.event
        /\ \A t \in Sections(All) : y.page < t => g < t
        /\ y.piece \in PiecesOf(All[g])
    BY <1>4, PlaceIs
  <2>3. f < g => Earlier(x.piece, y.piece)
    BY <1>1, <2>1, <2>2 DEF Sound, AllBefore
  <2>4. CASE x.page < y.page
    BY <2>1, <2>2, <2>3, <2>4
  <2>5. CASE x.page = y.page /\ x.event < y.event
    <3>1. g = y.event /\ y.event # 0
      BY <2>1, <2>2, <2>5 DEF EventOf
    <3>2. f = x.event \/ (f = x.page /\ x.event = 0)
      BY DEF EventOf
    <3>3. f < g
      BY <2>1, <2>2, <2>5, <3>1, <3>2
    <3> QED BY <2>3, <3>3
  <2>6. CASE /\ x.page = y.page /\ x.event = y.event
             /\ x.node < y.node \/ (x.node = y.node /\ x.nth < y.nth)
    <3>1. f = g
      BY <2>6 DEF EventOf
    <3>2. OrderedNodes(All[f].nodes) /\ OrderedText(All[f].title)
      BY <1>1, <2>1, EventIs
    <3>3. CASE x.event = 0
      <4>1. /\ x.node = 0 /\ x.nth \in DOMAIN All[f].title /\ x.piece = All[f].title[x.nth]
            /\ y.node = 0 /\ y.nth \in DOMAIN All[f].title /\ y.piece = All[f].title[y.nth]
        BY <1>4, <2>6, <3>1, <3>3, PlaceIs
      <4>2. x.nth < y.nth
        BY <2>6, <4>1
      <4> QED BY <3>2, <4>1, <4>2 DEF OrderedText
    <3>4. CASE x.event # 0
      <4>1. /\ x.node \in DOMAIN All[f].nodes /\ x.nth \in DOMAIN All[f].nodes[x.node].pieces
            /\ x.piece = All[f].nodes[x.node].pieces[x.nth]
            /\ y.node \in DOMAIN All[f].nodes /\ y.nth \in DOMAIN All[f].nodes[y.node].pieces
            /\ y.piece = All[f].nodes[y.node].pieces[y.nth]
        BY <1>4, <2>6, <3>1, <3>4, PlaceIs
      <4> QED BY <2>6, <3>2, <4>1 DEF OrderedNodes
    <3> QED BY <3>3, <3>4
  <2> QED BY <2>4, <2>5, <2>6 DEF Before
<1> QED BY <1>2, <1>3, <1>4

\* The fields of an issue.
LEMMA IssueIs ==
    ASSUME NEW code, NEW at
    PROVE  Issue(code, at).code = code /\ Issue(code, at).at = at
BY DEF Issue

\* Images are pictures of a Word file.
LEMMA ImageNode ==
    ASSUME ImportInv, phase \in {"created", "invalid"}, format # "pdf",
           NEW ev \in Values(All), ev.kind = "block", NEW k \in DOMAIN ev.nodes, ev.nodes[k].type = "image"
    PROVE  format = "docx" /\ IsPictures(ev.nodes)
<1>1. FromMarkdown /\ FromWord /\ format \in Formats /\ TypeInv
  BY MadeIs DEF Collected, ImportInv, TypeInv
<1>2. CASE format = "markdown"
  <2>1. PICK i \in DOMAIN source : ev.nodes = Convert(source[i], i)
    BY <1>1, <1>2 DEF FromMarkdown
  <2>2. source \in Seq(MarkdownBlocks)
    BY <1>1, <1>2 DEF TypeInv
  <2>3. source[i] \in MarkdownBlocks /\ i \in Nat
    <3>1. DOMAIN source = 1..Len(source) /\ Len(source) \in Nat
      BY <2>2, LenProperties
    <3> QED BY <2>1, <2>2, <3>1, ElementOfSeq
  <2>4. ASSUME NEW b \in MarkdownBlocks, NEW j \in DOMAIN Convert(b, i)
        PROVE  Convert(b, i)[j].type # "image"
    <3>1. CASE j \in Kept(b)
      <4>1. Convert(b, i)[j].type = b[j].type
        BY <2>3, <3>1, ConvertFields
      <4> QED BY <3>1, <4>1, KeptTypes
    <3>2. CASE j \notin Kept(b)
      <4>3. DOMAIN Convert(b, i) = Kept(b) \cup {Len(b) + l : l \in Bare(b)}
        BY <2>3, ConvertIs
      <4>1. PICK l \in Bare(b) : j = Len(b) + l
        BY <2>4, <3>2, <4>3
      <4>2. Convert(b, i)[j].type = "paragraph"
        BY <2>3, <4>1, ConvertFields
      <4> QED BY <4>2
    <3> QED BY <3>1, <3>2
  <2> QED BY <2>1, <2>3, <2>4
<1>3. CASE format = "docx"
  <2>1. IsWord(ev.nodes)
    BY <1>1, <1>3 DEF FromWord
  <2> QED BY <1>3, <2>1, LineConforms, ListConforms DEF IsWord
<1> QED BY <1>1, <1>2, <1>3 DEF Formats

\* Every piece that was collected is shown, unless its section was empty or its
\* image dropped, and then the report says so.
LEMMA PieceIsShown ==
    ASSUME ImportInv, phase \in {"created", "invalid"}, format # "pdf", NEW p \in Pieces(All)
    PROVE  \/ \E x \in Shown : x.piece = p
           \/ \E issue \in issues : \/ /\ issue.code = "empty_section_dropped"
                                       /\ issue.at = At(p.at.block, p.at.node, 0)
                                    \/ issue.code = "image_dropped" /\ issue.at = p.at
<1>1. /\ Sound(All, Len(source)) /\ FromWord /\ images = {}
      /\ Made = PagesOf(All) /\ EmptySections(All) \subseteq issues
  BY MadeIs DEF Collected
<1>2. PICK ev \in Values(All) : p \in NodePieces(ev.nodes) \/ p \in TextPieces(ev.title)
  BY DEF Pieces, Body, Headings
<1>3. PICK e \in DOMAIN All : ev = All[e]
  BY ValueOf
<1>4. \/ ev.kind = "block" /\ DOMAIN ev.nodes # {} /\ DOMAIN ev.title = {}
      \/ ev.kind = "page_break" /\ DOMAIN ev.nodes = {}
  BY <1>1, <1>3, EventIs
<1>5. \A s \in Filled(All) : PageShows(s, Finished(PagesOf(All)[s])) \subseteq Shown
  BY <1>1, ShownIs, PagesOfIs
<1>6. CASE p \in NodePieces(ev.nodes)
  <2>1. PICK k \in DOMAIN ev.nodes : \E n \in DOMAIN ev.nodes[k].pieces : p = ev.nodes[k].pieces[n]
    BY <1>6 DEF NodePieces
  <2>2. PICK n \in DOMAIN ev.nodes[k].pieces : p = ev.nodes[k].pieces[n]
    BY <2>1
  <2>3. ev.kind = "block"
    BY <1>4, <2>1
  <2>4. PICK s \in Filled(All) : e \in BlocksOf(All, s)
    BY <1>1, <1>3, <2>3, SectionOf
  <2>5. CASE k \in DOMAIN Stored(ev.nodes)
    <3> DEFINE q == PagesOf(All)[s]
    <3>1. e \in DOMAIN q.blocks /\ q.blocks[e] = ev.nodes
      BY <1>3, <2>4, PagesOfIs
    <3> HIDE DEF q
    <3>2. \E x \in PageShows(s, Finished(q)) : x.piece = q.blocks[e][k].pieces[n]
      BY <2>2, <2>5, <3>1, PageShowsIs
    <3>3. PageShows(s, Finished(q)) \subseteq Shown
      BY <1>5, <2>4 DEF q
    <3> QED BY <2>2, <3>1, <3>2, <3>3
  <2>6. CASE k \notin DOMAIN Stored(ev.nodes)
    <3>1. ev.nodes[k].type = "image" /\ ev.nodes[k].pieces[1].at \notin kept
      BY <2>6, StoredIs
    <3>2. format = "docx" /\ IsPictures(ev.nodes)
      BY <2>3, <3>1, ImageNode
    <3>3. ev.nodes[k].pieces = <<Piece(ev.nodes[k].pieces[1].at, "image")>>
      BY <3>2 DEF IsPictures
    <3>4. n = 1
      BY <3>3, <2>2
    <3>5. p.kind = "image" /\ p.at \notin kept
      BY <1>6, <2>2, <3>1, <3>2, <3>4, PicturesStored
    <3>6. p \in Body(All)
      BY <1>6 DEF Body
    <3>7. Issue("image_dropped", p.at) \in issues
      BY <1>1, <3>2, <3>5, <3>6 DEF FromWord
    <3> QED BY <3>7, IssueIs
  <2> QED BY <2>5, <2>6
<1>7. CASE p \in TextPieces(ev.title)
  <2>1. PICK n \in DOMAIN ev.title : p = ev.title[n]
    BY <1>7 DEF TextPieces
  <2>2. ev.kind = "page_break" /\ e \in Nat /\ e # 0 /\ IsEvent(ev)
    BY <1>1, <1>3, <1>4, <2>1, EventIs
  <2>3. e \in Sections(All)
    BY <1>3, <2>2 DEF Sections
  <2>4. CASE e \in Filled(All)
    <3> DEFINE q == PagesOf(All)[e]
    <3>1. q.title = ev.title
      BY <1>3, <2>2, <2>4, PagesOfIs
    <3> HIDE DEF q
    <3>2. \E x \in PageShows(e, Finished(q)) : x.piece = q.title[n]
      BY <2>1, <3>1, PageShowsIs
    <3>3. PageShows(e, Finished(q)) \subseteq Shown
      BY <1>5, <2>4 DEF q
    <3> QED BY <2>1, <3>1, <3>2, <3>3
  <2>5. CASE e \notin Filled(All)
    <3>1. Issue("empty_section_dropped", ev.at) \in issues
      BY <1>1, <1>3, <2>2, <2>3, <2>5 DEF EmptySections
    <3>2. ev.at = At(p.at.block, p.at.node, 0)
      BY <1>7, <2>2 DEF IsEvent
    <3> QED BY <3>1, <3>2, IssueIs
  <2> QED BY <2>4, <2>5
<1> QED BY <1>2, <1>6, <1>7

\* A page of a PDF file: its number, and a paragraph with its text.
LEMMA PdfPageIs ==
    ASSUME NEW i, NEW kind \in PdfTexts
    PROVE  LET p == PdfPage(i, kind)
               nodes == p.blocks[1]
           IN /\ DOMAIN p.title = {1} /\ p.title[1] = Piece(At(i, 1, 0), "number")
              /\ DOMAIN p.blocks = {1} /\ DOMAIN nodes = {1} /\ DOMAIN nodes[1].pieces = {1}
              /\ nodes[1].pieces[1] = Piece(At(i, 1, 1), kind)
              /\ IsLine(nodes) /\ DOMAIN Stored(nodes) = {1}
              /\ WellFormed(Finished(p))
<1> DEFINE p == PdfPage(i, kind)
           n == Node("paragraph", 0, <<Piece(At(i, 1, 1), kind)>>, {})
           nodes == <<n>>
<1>1. p.title = <<Piece(At(i, 1, 0), "number")>> /\ p.blocks = <<nodes>>
  BY PageIs DEF PdfPage
<1>2. n.type = "paragraph" /\ n.within = {} /\ n.pieces = <<Piece(At(i, 1, 1), kind)>>
  BY NodeIs
<1> HIDE DEF n, p
<1>3. DOMAIN nodes = {1} /\ nodes[1] = n
  OBVIOUS
<1>4. /\ DOMAIN p.title = {1} /\ p.title[1] = Piece(At(i, 1, 0), "number")
      /\ DOMAIN p.blocks = {1} /\ p.blocks[1] = nodes
  BY <1>1
<1> HIDE DEF nodes
<1>5. DOMAIN nodes[1].pieces = {1} /\ nodes[1].pieces[1] = Piece(At(i, 1, 1), kind)
  BY <1>2, <1>3
<1>6. NodePieces(nodes) = {Piece(At(i, 1, 1), kind)} /\ TextPieces(nodes[1].pieces) = {Piece(At(i, 1, 1), kind)}
  BY <1>3, <1>5 DEF NodePieces, TextPieces
<1>7. /\ Piece(At(i, 1, 1), kind).kind \in BecomesText
      /\ Piece(At(i, 1, 1), kind).kind \notin BadlyMarked
  BY PieceOf DEF PdfTexts, BecomesText, BadlyMarked
<1>8. IsLine(nodes)
  BY <1>2, <1>3, <1>6, <1>7 DEF IsLine, WordText
<1>9. DOMAIN Stored(nodes) = {1}
  BY <1>3, <1>8, LineConforms, StoredText
<1>10. Conforms(Stored(nodes))
  BY <1>6, <1>7, <1>8, WordConforms DEF IsWord
<1>11. WellFormed(Finished(p))
  BY <1>4, <1>10, FinishedIs
<1> QED BY <1>4, <1>3, <1>5, <1>8, <1>9, <1>11 DEF p

\* A piece is shown where it is written.
LEMMA AsShownIs ==
    ASSUME NEW piece
    PROVE  AsShown(piece).at = piece.at
BY PieceOf DEF AsShown

\* ImportInv gives the property, of a PDF file and of the others.
LEMMA NothingLost ==
    ASSUME ImportInv
    PROVE  NothingIsLost
<1> SUFFICES ASSUME phase = "created"
             PROVE  /\ \A i \in DOMAIN source : \A piece \in WrittenIn(i) :
                          \/ piece.kind \in Silent
                          \/ \E x \in Shown : x.piece = AsShown(piece)
                          \/ \E issue \in issues : Tells(issue, piece)
                    /\ \A x, y \in Shown : Before(x, y) => Earlier(x.piece, y.piece)
  BY DEF NothingIsLost
<1>1. Collected /\ TypeInv
  BY MadeIs DEF ImportInv
<1>2. CASE format # "pdf"
  <2>1. ASSUME NEW piece, AsShown(piece) \in Pieces(All)
        PROVE  \/ \E x \in Shown : x.piece = AsShown(piece)
               \/ \E issue \in issues : Tells(issue, piece)
    <3>1. AsShown(piece).at = piece.at
      BY AsShownIs
    <3> QED BY <1>2, <2>1, <3>1, PieceIsShown DEF Tells
  <2>2. ASSUME NEW piece, AsShown(piece) \in TextPieces(title)
        PROVE  \E x \in Shown : x.piece = AsShown(piece)
    BY <2>2, ShownIs DEF TextPieces
  <2>3. ASSUME NEW i \in DOMAIN source, NEW piece \in WrittenIn(i)
        PROVE  \/ piece.kind \in Silent
               \/ \E x \in Shown : x.piece = AsShown(piece)
               \/ \E issue \in issues : Tells(issue, piece)
    BY <1>1, <1>2, <2>1, <2>2 DEF Collected, Accounted
  <2> QED BY <1>2, <2>3, InOrder
<1>3. CASE format = "pdf"
  <2>1. Made = PdfMade /\ events = <<>> /\ listed = <<>> /\ DOMAIN title = {} /\ Accounted
    BY <1>1, <1>3, MadeIs DEF Collected, TitleFirst
  <2>2. All = <<>>
    <3>1. Flushed = <<>>
      BY <2>1, NoValues DEF Flushed, Given
    <3> QED BY <2>1, <3>1, NoValues, JoinedEmpty DEF All
  <2>3. Pieces(All) = {} /\ TextPieces(title) = {}
    BY <2>1, <2>2, NoValues DEF Pieces, Body, Headings, TextPieces
  <2>4. /\ DOMAIN Made = {j \in DOMAIN source : source[j] \in PdfTexts}
        /\ \A s \in DOMAIN Made : Made[s] = PdfPage(s, source[s])
    BY <2>1 DEF PdfMade
  <2>5. DOMAIN source \subseteq Nat
    <3>1. source \in Seq(PdfPages)
      BY <1>1, <1>3 DEF TypeInv
    <3> QED BY <3>1
  <2>6. ASSUME NEW i \in DOMAIN source, NEW piece \in WrittenIn(i)
        PROVE  \/ \E x \in Shown : x.piece = AsShown(piece)
               \/ piece.kind \in Silent
               \/ \E issue \in issues : Tells(issue, piece)
    <3>1. CASE source[i] \in PdfTexts
      <4>1. piece = Piece(At(i, 1, 1), source[i])
        BY <1>3 DEF WrittenIn
      <4>7. piece.kind # "captioned image"
        BY <3>1, <4>1, PieceOf DEF PdfTexts
      <4>2. AsShown(piece) = Piece(At(i, 1, 1), source[i])
        BY <4>1, <4>7 DEF AsShown
      <4> DEFINE p == PdfPage(i, source[i])
      <4>3. /\ 1 \in DOMAIN p.blocks /\ 1 \in DOMAIN Stored(p.blocks[1])
            /\ 1 \in DOMAIN p.blocks[1][1].pieces
            /\ p.blocks[1][1].pieces[1] = Piece(At(i, 1, 1), source[i])
        BY <3>1, PdfPageIs
      <4>4. i \in DOMAIN Made /\ Made[i] = p
        BY <2>4, <3>1
      <4> HIDE DEF p
      <4>5. \E x \in PageShows(i, Finished(p)) : x.piece = Piece(At(i, 1, 1), source[i])
        BY <4>3, PageShowsIs
      <4>6. PageShows(i, Finished(p)) \subseteq Shown
        BY <4>4, ShownIs
      <4> QED BY <4>2, <4>5, <4>6
    <3>2. CASE source[i] \notin PdfTexts
      BY <1>3, <2>1, <2>3, <3>2 DEF Accounted
    <3> QED BY <3>1, <3>2
  <2>7. ASSUME NEW x \in Shown
        PROVE  /\ x.page \in Nat /\ source[x.page] \in PdfTexts
               /\ \/ /\ x.event = 0 /\ x.node = 0 /\ x.nth = 1
                     /\ x.piece = Piece(At(x.page, 1, 0), "number")
                  \/ /\ x.event = 1 /\ x.node = 1 /\ x.nth = 1
                     /\ x.piece = Piece(At(x.page, 1, 1), source[x.page])
    <3>1. x.page \in DOMAIN Made /\ x \in PageShows(x.page, Finished(Made[x.page]))
      BY <2>1, <2>7, ShownIs
    <3> DEFINE p == PdfPage(x.page, source[x.page])
    <3>2. x.page \in Nat /\ Made[x.page] = p /\ source[x.page] \in PdfTexts
      BY <2>4, <2>5, <3>1
    <3>3. /\ DOMAIN p.title = {1} /\ p.title[1] = Piece(At(x.page, 1, 0), "number")
          /\ DOMAIN p.blocks = {1} /\ DOMAIN p.blocks[1] = {1} /\ DOMAIN p.blocks[1][1].pieces = {1}
          /\ p.blocks[1][1].pieces[1] = Piece(At(x.page, 1, 1), source[x.page])
      BY <3>2, PdfPageIs
    <3> HIDE DEF p
    <3>4. \/ x.event = 0 /\ x.node = 0 /\ x.nth \in DOMAIN p.title /\ x.piece = p.title[x.nth]
          \/ /\ x.event \in DOMAIN p.blocks /\ x.node \in DOMAIN p.blocks[x.event]
             /\ x.nth \in DOMAIN p.blocks[x.event][x.node].pieces
             /\ x.piece = p.blocks[x.event][x.node].pieces[x.nth]
      BY <3>1, <3>2, PageShowsIs
    <3> QED BY <3>2, <3>3, <3>4
  <2>8. ASSUME NEW s \in Nat, source[s] \in PdfTexts
        PROVE  /\ Piece(At(s, 1, 0), "number").at.block = s /\ Piece(At(s, 1, 0), "number").at.node = 1
               /\ Piece(At(s, 1, 0), "number").at.nth = 0 /\ Piece(At(s, 1, 0), "number").kind # "image"
               /\ Piece(At(s, 1, 1), source[s]).at.block = s /\ Piece(At(s, 1, 1), source[s]).at.node = 1
               /\ Piece(At(s, 1, 1), source[s]).at.nth = 1 /\ Piece(At(s, 1, 1), source[s]).kind # "image"
    <3>1. source[s] # "image"
      BY <2>8 DEF PdfTexts
    <3> QED BY <3>1, PieceOf, AddressOf
  <2>9. ASSUME NEW x \in Shown, NEW y \in Shown, Before(x, y)
        PROVE  Earlier(x.piece, y.piece)
    <3>1. CASE x.page < y.page
      <4>1. x.piece.at.block = x.page /\ y.piece.at.block = y.page
        BY <2>7, <2>8
      <4> QED BY <3>1, <4>1 DEF Earlier
    <3>2. CASE x.page >= y.page
      <4>1. x.page \in Nat /\ y.page \in Nat
        BY <2>7
      <4>2. x.page = y.page /\ x.event = 0 /\ y.event = 1
        BY <2>7, <2>9, <3>2, <4>1 DEF Before
      <4>3. x.piece = Piece(At(x.page, 1, 0), "number") /\ y.piece = Piece(At(x.page, 1, 1), source[x.page])
        BY <2>7, <4>2
      <4>4. source[x.page] \in PdfTexts
        BY <2>7
      <4> QED BY <2>8, <4>1, <4>3, <4>4 DEF Earlier, Late
    <3>3. x.page \in Nat /\ y.page \in Nat
      BY <2>7
    <3> QED BY <3>1, <3>2, <3>3
  <2> QED BY <2>6, <2>9
<1> QED BY <1>2, <1>3

\* The invariant gives the second property: a page is invalid when a block of it
\* is, and a block when it comes from an objectionable one.
LEMMA RefusalExplained ==
    ASSUME ImportInv
    PROVE  RefusalIsExplained
<1> SUFFICES ASSUME phase \in {"created", "invalid"}
             PROVE  phase = "created" <=>
                       /\ ~\E i \in DOMAIN source : ~IsTitle(i) /\ Objectionable(i)
                       /\ \A s \in DOMAIN pages : ~TooLarge(pages[s])
  BY DEF RefusalIsExplained
<1> DEFINE formed == \A s \in DOMAIN Made : WellFormed(Finished(Made[s]))
<1>1. /\ Collected /\ TypeInv /\ Sound(All, Len(source))
  BY MadeIs DEF ImportInv
<1>4. phase = "created" <=> formed /\ \A s \in DOMAIN pages : ~TooLarge(pages[s])
  <2>1. /\ DOMAIN pages = DOMAIN Made /\ \A s \in DOMAIN Made : pages[s] = Finished(Made[s])
        /\ phase = "created" <=> \A s \in DOMAIN Made : ValidPage(Finished(Made[s]))
    BY DEF ImportInv, Judged
  <2> QED BY <2>1 DEF ValidPage
<1> SUFFICES formed <=> ~\E i \in DOMAIN source : ~IsTitle(i) /\ Objectionable(i)
  BY <1>4
<1>2. CASE format = "pdf"
  <2>1. /\ DOMAIN Made = {j \in DOMAIN source : source[j] \in PdfTexts}
        /\ \A s \in DOMAIN Made : Made[s] = PdfPage(s, source[s])
    BY <1>2, MadeIs DEF PdfMade
  <2>2. formed
    BY <2>1, PdfPageIs
  <2>3. \A i \in DOMAIN source : ~Objectionable(i)
    BY <1>2 DEF Objectionable
  <2> QED BY <2>2, <2>3
<1>3. CASE format # "pdf"
  <2>1. formed <=> \A ev \in Values(All) : ev.kind = "block" => Conforms(Stored(ev.nodes))
    <3>1. Made = PagesOf(All)
      BY <1>3, MadeIs
    <3> QED BY <1>1, <3>1, PagesValid
  <2>2. CASE format = "markdown"
    <3>1. FromMarkdown
      BY <1>1 DEF Collected
    <3>2. ASSUME NEW i \in DOMAIN source
          PROVE  source[i] \in MarkdownBlocks /\ i \in Nat
      <4>1. source \in Seq(MarkdownBlocks)
        BY <1>1, <2>2 DEF TypeInv
      <4>2. DOMAIN source = 1..Len(source) /\ Len(source) \in Nat
        BY <4>1, LenProperties
      <4> QED BY <4>1, <4>2, ElementOfSeq
    <3>3. ASSUME NEW ev \in Values(All), ev.kind = "block",
                 NEW i \in DOMAIN source, ev.nodes = Convert(source[i], i)
          PROVE  Conforms(Stored(ev.nodes)) <=> ~Unfit(source[i])
      <4>1. \A k \in DOMAIN ev.nodes : ev.nodes[k].type # "image"
        BY <1>3, <2>2, <3>3, ImageNode
      <4>2. Conforms(Stored(ev.nodes)) <=> Conforms(ev.nodes)
        BY <4>1, StoredText, ConformsAlike
      <4> QED BY <3>2, <3>3, <4>2, ConvertConforms
    <3>4. ASSUME NEW ev \in Values(All), ev.kind = "block", ~Conforms(Stored(ev.nodes))
          PROVE  \E i \in DOMAIN source : ~IsTitle(i) /\ Objectionable(i)
      <4>1. PICK i \in DOMAIN source : ~IsTitle(i) /\ ev.nodes = Convert(source[i], i)
        BY <2>2, <3>1, <3>4 DEF FromMarkdown
      <4>2. Unfit(source[i])
        BY <3>3, <3>4, <4>1
      <4> QED BY <2>2, <4>1, <4>2 DEF Objectionable
    <3>5. ASSUME NEW i \in DOMAIN source, ~IsTitle(i), Objectionable(i)
          PROVE  \E ev \in Values(All) : ev.kind = "block" /\ ~Conforms(Stored(ev.nodes))
      <4>1. Unfit(source[i])
        BY <2>2, <3>5 DEF Objectionable
      <4>2. Kept(source[i]) # {}
        BY <4>1 DEF Unfit
      <4>3. PICK ev \in Values(All) : ev.kind = "block" /\ ev.nodes = Convert(source[i], i)
        BY <2>2, <3>1, <3>5, <4>2 DEF FromMarkdown
      <4> QED BY <3>3, <4>1, <4>3
    <3> QED BY <2>1, <3>4, <3>5
  <2>3. CASE format = "docx"
    <3>1. FromWord
      BY <1>1 DEF Collected
    <3>2. ASSUME NEW ev \in Values(All), ev.kind = "block"
          PROVE  Conforms(Stored(ev.nodes)) <=> \A p \in NodePieces(ev.nodes) : p.kind \notin BadlyMarked
      <4>1. IsWord(ev.nodes)
        BY <2>3, <3>1, <3>2 DEF FromWord
      <4> QED BY <4>1, WordConforms
    <3>3. ASSUME NEW ev \in Values(All), ev.kind # "block"
          PROVE  NodePieces(ev.nodes) = {}
      <4>1. DOMAIN ev.nodes = {}
        BY <1>1, <3>3, ValueOf, EventIs
      <4> QED BY <4>1, NoNode
    <3>4. formed <=> \A p \in Body(All) : p.kind \notin BadlyMarked
      BY <2>1, <3>2, <3>3 DEF Body
    <3> QED BY <2>3, <3>1, <3>4 DEF FromWord
  <2>4. format \in Formats
    BY <1>1 DEF TypeInv
  <2> QED BY <1>3, <2>2, <2>3, <2>4 DEF Formats
<1> QED BY <1>2, <1>3

-----------------------------------------------------------------------------
(* What a step adds                                                        *)

\* The pieces of two parts of the file.
LEMMA PiecesJoined ==
    ASSUME NEW s, IsSeq(s), NEW t, IsSeq(t)
    PROVE  /\ Body(s \o t) = Body(s) \cup Body(t)
           /\ Headings(s \o t) = Headings(s) \cup Headings(t)
           /\ Pieces(s \o t) = Pieces(s) \cup Pieces(t)
<1>1. Values(s \o t) = Values(s) \cup Values(t)
  BY Joined
<1>2. Body(s \o t) = Body(s) \cup Body(t)
  BY <1>1 DEF Body
<1>3. Headings(s \o t) = Headings(s) \cup Headings(t)
  BY <1>1 DEF Headings
<1> QED BY <1>2, <1>3 DEF Pieces

\* Nothing collected has no pieces.
LEMMA NoPieces ==
    Body(<<>>) = {} /\ Headings(<<>>) = {} /\ Pieces(<<>>) = {}
BY NoValues DEF Body, Headings, Pieces

\* Nothing built is no event.
LEMMA GivenNone ==
    Given(<<>>) = <<>>
BY NoValues DEF Given

\* What a builder gives has the pieces of what was built.
LEMMA GivenPieces ==
    ASSUME NEW nodes
    PROVE  Body(Given(nodes)) = NodePieces(nodes) /\ Headings(Given(nodes)) = {}
<1>1. CASE DOMAIN nodes = {}
  BY <1>1, NoNode, NoPieces DEF Given
<1>2. CASE DOMAIN nodes # {}
  <2>1. Values(Given(nodes)) = {Block(nodes)}
    BY <1>2, GivenValues
  <2>2. Body(Given(nodes)) = NodePieces(nodes)
    BY <2>1, BlockIs DEF Body
  <2>3. Headings(Given(nodes)) = {}
    BY <2>1, BlockIs DEF Headings, TextPieces
  <2> QED BY <2>2, <2>3
<1> QED BY <1>1, <1>2

\* A page break has the text of its heading.
LEMMA BreakIs ==
    ASSUME NEW i \in Nat, i >= 1, NEW inline, DOMAIN inline \subseteq Nat
    PROVE  LET text == TextOf(inline, i, 1)
               new == <<Break(i, text)>>
           IN /\ Sound(new, i) /\ Body(new) = {} /\ Headings(new) = TextPieces(text)
              /\ \A ev \in Values(new) : ev.kind = "page_break"
<1> DEFINE text == TextOf(inline, i, 1)
           ev == Break(i, text)
<1>1. /\ ev.kind = "page_break" /\ ev.at = At(i, 1, 0) /\ ev.title = text /\ DOMAIN ev.nodes = {}
  BY NoValues DEF Break
<1>2. /\ IsText(text) /\ OrderedText(text)
      /\ \A p \in TextPieces(text) : p.at.block = i /\ p.at.node = 1
  BY TextOfIs
<1> HIDE DEF text, ev
<1>3. IsTree(ev.nodes) /\ OrderedNodes(ev.nodes) /\ NodePieces(ev.nodes) = {}
  BY <1>1, NoNode
<1>4. IsEvent(ev)
  BY <1>1, <1>2, <1>3 DEF IsEvent
<1>5. PiecesOf(ev) = TextPieces(text)
  BY <1>1, <1>3 DEF PiecesOf
<1>6. Sound(<<ev>>, i)
  BY <1>1, <1>2, <1>3, <1>4, <1>5, SoundOne
<1>7. Values(<<ev>>) = {ev}
  BY OneSeq
<1>8. Body(<<ev>>) = {} /\ Headings(<<ev>>) = TextPieces(text)
  BY <1>1, <1>3, <1>7 DEF Body, Headings
<1> QED BY <1>1, <1>6, <1>7, <1>8 DEF ev, text

\* What was collected was read before.
LEMMA SoundPieces ==
    ASSUME NEW n, NEW all, Sound(all, n)
    PROVE  \A p \in Pieces(all) : p.at.block \in 1..n
BY DEF Sound, Pieces, Body, Headings, PiecesOf

\* Events of the next block.
LEMMA SoundGrows ==
    ASSUME NEW m \in Nat, NEW all, Sound(all, m), NEW new, Sound(new, m + 1),
           \A p \in Pieces(new) : p.at.block = m + 1
    PROVE  /\ Sound(all \o new, m + 1)
           /\ Values(all \o new) = Values(all) \cup Values(new)
           /\ Body(all \o new) = Body(all) \cup Body(new)
           /\ Headings(all \o new) = Headings(all) \cup Headings(new)
           /\ Pieces(all \o new) = Pieces(all) \cup Pieces(new)
<1>1. IsSeq(all) /\ IsSeq(new)
  BY DEF Sound
<1>2. AllBefore(Pieces(all), Pieces(new))
  <2>1. \A p \in Pieces(all) : p.at.block \in 1..m
    BY SoundPieces
  <2> QED BY <2>1 DEF AllBefore, Earlier
<1>3. Sound(all \o new, m + 1)
  BY <1>2, SoundJoined
<1> QED BY <1>1, <1>3, Joined, PiecesJoined

\* Reading one more block leaves those before it as they were.
LEMMA Grown ==
    ASSUME NEW X, source \in Seq(X), NEW b \in X, source' = Append(source, b), format' = format
    PROVE  /\ source' \in Seq(X) /\ Len(source) \in Nat /\ Here \in Nat /\ Here >= 1
           /\ Len(source') = Here
           /\ DOMAIN source = 1..Len(source) /\ DOMAIN source' = 1..Here
           /\ source'[Here] = b /\ source' # <<>>
           /\ \A i \in DOMAIN source : /\ source'[i] = source[i] /\ i \in DOMAIN source' /\ i \in Nat
                                       /\ i < Here
                                       /\ IsTitle(i)' <=> IsTitle(i)
                                       /\ Objectionable(i)' <=> Objectionable(i)
                                       /\ WrittenIn(i)' = WrittenIn(i)
           /\ Here \in DOMAIN source' /\ Here \notin DOMAIN source
           /\ \A i \in DOMAIN source' : i \in DOMAIN source \/ i = Here
           /\ source = <<>> <=> Here = 1
<1>1. /\ source' \in Seq(X) /\ Len(source) \in Nat /\ Len(source') = Here
      /\ source'[Here] = b
      /\ \A i \in 1..Len(source) : source'[i] = source[i]
  BY DEF Here
<1>2. Here \in Nat /\ Here >= 1 /\ DOMAIN source = 1..Len(source) /\ DOMAIN source' = 1..Here
  BY <1>1 DEF Here
<1>3. ASSUME NEW i \in DOMAIN source
      PROVE  /\ source'[i] = source[i] /\ i \in DOMAIN source' /\ i \in Nat /\ i < Here
  BY <1>1, <1>2 DEF Here
<1>8. ASSUME NEW i \in DOMAIN source
      PROVE  IsFirst(i)' <=> IsFirst(i)
  <2>1. \A j \in 1..(i - 1) : j \in DOMAIN source
    BY <1>1, <1>2
  <2> QED BY <2>1, <1>3 DEF IsFirst
<1>4. ASSUME NEW i \in DOMAIN source
      PROVE  /\ IsTitle(i)' <=> IsTitle(i)
             /\ Objectionable(i)' <=> Objectionable(i)
             /\ WrittenIn(i)' = WrittenIn(i)
  BY <1>3, <1>8 DEF IsTitle, Objectionable, WrittenIn
<1>5. /\ Here \in DOMAIN source' /\ Here \notin DOMAIN source
      /\ \A i \in DOMAIN source' : i \in DOMAIN source \/ i = Here
  BY <1>1, <1>2 DEF Here
<1>6. source = <<>> <=> Here = 1
  BY <1>1 DEF Here
<1>7. source' # <<>>
  BY <1>5, NoValues
<1> QED BY <1>1, <1>2, <1>3, <1>4, <1>5, <1>6, <1>7

\* The parts of Collected when a block has been read: the title that was read
\* stays, or is read; and what is accounted for stays so.
LEMMA TitleKept ==
    ASSUME TitleFirst, NEW X, source \in Seq(X), NEW b \in X, source' = Append(source, b),
           format' = format, title' = title, NEW New,
           Pieces(All') = Pieces(All) \cup New, \A p \in New : p.at.block = Here,
           format = "docx" /\ b = Other => New = {}
    PROVE  TitleFirst'
<1>1. /\ IsText(title) /\ OrderedText(title)
      /\ \A p \in TextPieces(title) : p.at.block \in DOMAIN source
      /\ AllBefore(TextPieces(title), Pieces(All))
      /\ format = "pdf" => DOMAIN title = {}
  BY DEF TitleFirst
<1>2. /\ Here \in DOMAIN source' /\ source'[Here] = b
      /\ \A i \in DOMAIN source : i \in DOMAIN source' /\ i < Here /\ source'[i] = source[i]
  BY Grown
<1>3. AllBefore(TextPieces(title), New)
  BY <1>1, <1>2 DEF AllBefore, Earlier
<1>4. AllBefore(TextPieces(title'), Pieces(All'))
  BY <1>1, <1>3 DEF AllBefore
<1>5. ASSUME format = "docx", \A i \in DOMAIN source' : source'[i] = Other
      PROVE  Pieces(All') = {} /\ TextPieces(title') = {}
  <2>1. New = {} /\ \A i \in DOMAIN source : source[i] = Other
    BY <1>2, <1>5
  <2> QED BY <1>5, <2>1 DEF TitleFirst
<1> QED BY <1>1, <1>2, <1>4, <1>5 DEF TitleFirst

\* And so it stays when the block has no pieces.
LEMMA TitleStays ==
    ASSUME TitleFirst, NEW X, source \in Seq(X), NEW b \in X, source' = Append(source, b),
           format' = format, title' = title, Pieces(All') = Pieces(All)
    PROVE  TitleFirst'
<1> DEFINE New == {}
<1>1. Pieces(All') = Pieces(All) \cup New /\ (\A p \in New : p.at.block = Here)
  OBVIOUS
<1>2. format = "docx" /\ b = Other => New = {}
  OBVIOUS
<1> HIDE DEF New
<1> QED BY <1>1, <1>2, TitleKept

\* Nothing comes before the first block.
LEMMA NothingYet ==
    ASSUME source = <<>>, Sound(All, Len(source))
    PROVE  Pieces(All) = {}
<1>1. Len(source) = 0
  BY NoValues
<1>2. \A p \in Pieces(All) : p.at.block \in 1..0
  BY <1>1, SoundPieces
<1> QED BY <1>2

\* The first heading becomes the title, before all else.
LEMMA TitleRead ==
    ASSUME Pieces(All) = {}, NEW X, source \in Seq(X), NEW b \in X,
           source' = Append(source, b), format' = format, format # "pdf",
           format = "docx" => b # Other,
           NEW inline, DOMAIN inline \subseteq Nat, title' = TextOf(inline, Here, 1), NEW New,
           Pieces(All') = Pieces(All) \cup New, AllBefore(TextPieces(title'), New)
    PROVE  TitleFirst'
<1>1. Here \in Nat /\ Here \in DOMAIN source' /\ source'[Here] = b
  BY Grown
<1>2. /\ IsText(title') /\ OrderedText(title')
      /\ \A p \in TextPieces(title') : p.at.block = Here
  BY <1>1, TextOfIs
<1>3. \A p \in TextPieces(title') : p.at.block \in DOMAIN source'
  BY <1>1, <1>2
<1> QED BY <1>1, <1>2, <1>3 DEF TitleFirst

\* What was accounted for stays so when one more block is accounted for.
LEMMA AccountedKept ==
    ASSUME Accounted, NEW X, source \in Seq(X), NEW b \in X, source' = Append(source, b),
           format' = format, TextPieces(title) \subseteq TextPieces(title'),
           Pieces(All) \subseteq Pieces(All'), issues \subseteq issues', NEW h, h = Here,
           \A piece \in WrittenIn(h)' :
              \/ piece.kind \in Silent
              \/ format' = "pdf" /\ b \in PdfTexts
              \/ AsShown(piece) \in TextPieces(title')
              \/ AsShown(piece) \in Pieces(All')
              \/ \E issue \in issues' : Tells(issue, piece)
    PROVE  Accounted'
<1>1. source'[Here] = b
  BY Grown
<1>2. ASSUME NEW i \in DOMAIN source, NEW piece \in WrittenIn(i)'
      PROVE  \/ piece.kind \in Silent
             \/ format' = "pdf" /\ source'[i] \in PdfTexts
             \/ AsShown(piece) \in TextPieces(title')
             \/ AsShown(piece) \in Pieces(All')
             \/ \E issue \in issues' : Tells(issue, piece)
  <2>1. piece \in WrittenIn(i) /\ source'[i] = source[i]
    BY Grown
  <2> QED BY <2>1 DEF Accounted
<1> SUFFICES ASSUME NEW i \in DOMAIN source', NEW piece \in WrittenIn(i)'
             PROVE  \/ piece.kind \in Silent
                    \/ format' = "pdf" /\ source'[i] \in PdfTexts
                    \/ AsShown(piece) \in TextPieces(title')
                    \/ AsShown(piece) \in Pieces(All')
                    \/ \E issue \in issues' : Tells(issue, piece)
  BY DEF Accounted
<1>3. i \in DOMAIN source \/ i = h
  BY Grown
<1>4. CASE i \in DOMAIN source
  BY <1>2, <1>4
<1>5. CASE i = h
  BY <1>1, <1>5
<1> QED BY <1>3, <1>4, <1>5

-----------------------------------------------------------------------------
(* Reading a Markdown file                                                 *)

\* A heading, a paragraph or code is a tree of one node.
LEMMA OneBlock ==
    ASSUME NEW b \in MarkdownBlocks, b[1].type \notin Containers
    PROVE  DOMAIN b = {1}
<1>1. Len(b) \in Nat /\ Len(b) >= 1 /\ DOMAIN b = 1..Len(b)
  BY MarkdownNode
<1>2. ASSUME Len(b) # 1 PROVE FALSE
  <2>1. 2 \in DOMAIN b /\ 2 # 1
    BY <1>1, <1>2
  <2>2. PICK p \in DOMAIN b : p < 2 /\ b[p].type \in Containers
    BY <2>1, Parent
  <2>3. p = 1
    BY <1>1, <2>2
  <2> QED BY <2>2, <2>3
<1> QED BY <1>1, <1>2

\* What is read of the pieces of a node.
LEMMA InlineRead ==
    ASSUME NEW inline, NEW i, NEW k, \A n \in DOMAIN inline : inline[n] \in MarkdownInline,
           NEW piece \in Written(inline, i, k)
    PROVE  /\ AsShown(piece) = piece
           /\ \/ \E n \in Texts(inline) : piece = Piece(At(i, k, n), inline[n])
              \/ \E issue \in ReportedInline(inline, i, k) : Tells(issue, piece)
<1>1. PICK n \in DOMAIN inline : piece = Piece(At(i, k, n), inline[n])
  BY DEF Written
<1>2. piece.at = At(i, k, n) /\ piece.kind = inline[n] /\ inline[n] \in MarkdownInline
  BY <1>1, PieceOf
<1>3. AsShown(piece) = piece
  BY <1>2 DEF AsShown, MarkdownInline
<1>4. CASE inline[n] \in BecomesText
  BY <1>1, <1>3, <1>4 DEF Texts
<1>5. CASE inline[n] = "image"
  <2> DEFINE issue == Issue("image_reference_dropped", At(i, k, n))
  <2>1. issue \in ReportedInline(inline, i, k)
    BY <1>5 DEF ReportedInline
  <2>2. issue.code = "image_reference_dropped" /\ issue.at = piece.at
    BY <1>2, IssueIs
  <2>3. Tells(issue, piece)
    BY <2>2 DEF Tells
  <2> QED BY <1>3, <2>1, <2>3
<1>6. CASE inline[n] = "struck"
  <2> DEFINE issue == Issue("unsupported_inline_dropped", At(i, k, n))
  <2>1. issue \in ReportedInline(inline, i, k)
    BY <1>6 DEF ReportedInline
  <2>2. issue.code = "unsupported_inline_dropped" /\ issue.at = piece.at
    BY <1>2, IssueIs
  <2>3. Tells(issue, piece)
    BY <2>2 DEF Tells
  <2> QED BY <1>3, <2>1, <2>3
<1> QED BY <1>2, <1>4, <1>5, <1>6 DEF MarkdownInline, BecomesText

\* _convert_markdown_node: a node's pieces become text or are reported.
LEMMA NodeRead ==
    ASSUME NEW b \in MarkdownBlocks, NEW i \in Nat, NEW k \in DOMAIN b,
           NEW piece \in Written(b[k].inline, i, k)
    PROVE  /\ AsShown(piece) = piece
           /\ \/ piece \in NodePieces(Convert(b, i))
              \/ \E issue \in ReportedNode(b[k], i, k) : Tells(issue, piece)
<1>1. /\ b[k].type \in Containers \cup Leaves /\ DOMAIN b[k].inline \subseteq Nat
      /\ b[k].type \in Containers \cup {"rule"} => DOMAIN b[k].inline = {}
      /\ \A n \in DOMAIN b[k].inline : b[k].inline[n] \in MarkdownInline
      /\ k \in Nat
  BY MarkdownNode
<1>2. AsShown(piece) = piece
  BY <1>1, InlineRead
<1>3. PICK n \in DOMAIN b[k].inline : piece = Piece(At(i, k, n), b[k].inline[n])
  BY DEF Written
<1>4. CASE b[k].type = "table"
  <2> DEFINE issue == Issue("unsupported_block_dropped", At(i, k, 0))
  <2>1. issue \in ReportedNode(b[k], i, k)
    BY <1>4 DEF ReportedNode
  <2>2. issue.code = "unsupported_block_dropped" /\ issue.at = At(i, k, 0)
    BY IssueIs
  <2>3. piece.at.block = i /\ piece.at.node = k
    BY <1>1, <1>3, PieceOf, AddressOf
  <2>4. Tells(issue, piece)
    BY <2>2, <2>3 DEF Tells
  <2> QED BY <1>2, <2>1, <2>4
<1>5. CASE b[k].type # "table"
  <2>1. CASE \E issue \in ReportedInline(b[k].inline, i, k) : Tells(issue, piece)
    <3>1. ReportedInline(b[k].inline, i, k) \subseteq ReportedNode(b[k], i, k)
      BY <1>5 DEF ReportedNode
    <3> QED BY <1>2, <2>1, <3>1
  <2>2. CASE \E m \in Texts(b[k].inline) : piece = Piece(At(i, k, m), b[k].inline[m])
    <3>1. PICK m \in Texts(b[k].inline) : piece = Piece(At(i, k, m), b[k].inline[m])
      BY <2>2
    <3>2. Stands(b[k])
      <4>1. b[k].type \in {"heading", "paragraph", "fence"}
        BY <1>1, <1>3, <1>5 DEF Leaves
      <4>2. b[k].inline # <<"image">>
        <5>1. m \in DOMAIN b[k].inline /\ b[k].inline[m] \in BecomesText
          BY DEF Texts
        <5>2. \A j \in DOMAIN <<"image">> : <<"image">>[j] = "image"
          OBVIOUS
        <5> QED BY <5>1, <5>2 DEF BecomesText
      <4> QED BY <4>1, <4>2, <3>1 DEF Stands
    <3>3. k \in Kept(b)
      BY <3>2, KeptIs
    <3>4. piece \in NodePieces(Convert(b, i))
      BY <3>1, <3>3, ConvertTree
    <3> QED BY <1>2, <3>4
  <2> QED BY <2>1, <2>2, <1>1, InlineRead
<1> QED BY <1>4, <1>5

\* What a block of a Markdown file adds: it is a title or becomes a block.
NewEvents(b, h, leading, breaks) ==
    IF leading THEN <<>>
    ELSE IF breaks THEN <<Break(h, TextOf(b[1].inline, h, 1))>>
    ELSE Given(Convert(b, h))

\* They are sound and have the pieces of the block.
LEMMA NewEventsAre ==
    ASSUME NEW b \in MarkdownBlocks, NEW h \in Nat, h >= 1,
           NEW leading \in BOOLEAN, NEW breaks \in BOOLEAN
    PROVE  LET new == NewEvents(b, h, leading, breaks)
           IN /\ Sound(new, h) /\ \A p \in Pieces(new) : p.at.block = h
              /\ leading => Values(new) = {} /\ Pieces(new) = {}
              /\ ~leading /\ breaks =>
                    /\ \A ev \in Values(new) : ev.kind = "page_break"
                    /\ Pieces(new) = TextPieces(TextOf(b[1].inline, h, 1))
              /\ ~leading /\ ~breaks =>
                    /\ Values(new) = IF Kept(b) = {} THEN {} ELSE {Block(Convert(b, h))}
                    /\ Pieces(new) = NodePieces(Convert(b, h))
<1> DEFINE new == NewEvents(b, h, leading, breaks)
           text == TextOf(b[1].inline, h, 1)
<1>1. DOMAIN b[1].inline \subseteq Nat
  BY MarkdownNode
<1>2. \A p \in TextPieces(text) : p.at.block = h
  BY <1>1, TextOfIs
<1>3. CASE leading
  <2>1. new = <<>>
    BY <1>3 DEF NewEvents
  <2>2. Sound(<<>>, h) /\ Values(<<>>) = {} /\ Pieces(<<>>) = {}
    BY SoundEmpty, NoValues, NoPieces
  <2> HIDE DEF new
  <2>3. Sound(new, h) /\ Values(new) = {} /\ Pieces(new) = {}
    BY <2>1, <2>2
  <2> QED BY <1>3, <2>3 DEF new
<1>4. CASE ~leading /\ breaks
  <2>1. new = <<Break(h, text)>>
    BY <1>4 DEF NewEvents
  <2>2. /\ Sound(<<Break(h, text)>>, h) /\ Body(<<Break(h, text)>>) = {}
        /\ Headings(<<Break(h, text)>>) = TextPieces(text)
        /\ \A ev \in Values(<<Break(h, text)>>) : ev.kind = "page_break"
    BY <1>1, BreakIs
  <2> HIDE DEF new, text
  <2>3. Pieces(new) = TextPieces(text)
    BY <2>1, <2>2 DEF Pieces
  <2>4. Sound(new, h) /\ \A ev \in Values(new) : ev.kind = "page_break"
    BY <2>1, <2>2
  <2> QED BY <1>2, <1>4, <2>3, <2>4 DEF new, text
<1>5. CASE ~leading /\ ~breaks
  <2>1. new = Given(Convert(b, h))
    BY <1>5 DEF NewEvents
  <2>2. /\ IsTree(Convert(b, h)) /\ OrderedNodes(Convert(b, h))
        /\ DOMAIN Convert(b, h) = {} <=> Kept(b) = {}
        /\ \A p \in NodePieces(Convert(b, h)) : p.at.block = h
    BY ConvertTree
  <2>3. \A p \in NodePieces(Convert(b, h)) : p.at.block \in 1..h
    BY <2>2
  <2>4. Sound(Given(Convert(b, h)), h)
    BY <2>2, <2>3, SoundGiven
  <2>5. Pieces(Given(Convert(b, h))) = NodePieces(Convert(b, h))
    BY GivenPieces DEF Pieces
  <2>6. Values(Given(Convert(b, h))) = IF Kept(b) = {} THEN {} ELSE {Block(Convert(b, h))}
    BY <2>2, GivenValues
  <2> HIDE DEF new
  <2>7. /\ Sound(new, h) /\ Pieces(new) = NodePieces(Convert(b, h))
        /\ Values(new) = IF Kept(b) = {} THEN {} ELSE {Block(Convert(b, h))}
    BY <2>1, <2>4, <2>5, <2>6
  <2> QED BY <1>5, <2>2, <2>7 DEF new
<1> QED BY <1>3, <1>4, <1>5

\* One more block of a Markdown file.
LEMMA ReadBlockStep ==
    ASSUME ImportInv, NEW b \in MarkdownBlocks, ReadBlock(b)
    PROVE  ImportInv'
<1>1. /\ phase = "reading" /\ format = "markdown" /\ source' = Append(source, b)
      /\ format' = format /\ phase' = phase /\ listed' = listed
  BY DEF ReadBlock, Reads
<1>2. TypeInv /\ Collected /\ source \in Seq(MarkdownBlocks) /\ IsSeq(events)
  BY <1>1 DEF ImportInv, TypeInv
<1>3. /\ Sound(All, Len(source)) /\ TitleFirst /\ Accounted /\ FromMarkdown /\ listed = <<>>
  BY <1>1, <1>2 DEF Collected, FromMarkdown
<1>4. PICK h : h = Here
  OBVIOUS
<1>5. /\ source' \in Seq(MarkdownBlocks) /\ Len(source) \in Nat /\ h \in Nat /\ h >= 1
      /\ h = Len(source) + 1 /\ Len(source') = h
      /\ source'[h] = b /\ h \in DOMAIN source'
      /\ source = <<>> <=> h = 1
  BY <1>1, <1>2, <1>4, Grown DEF Here
<1>6. ASSUME NEW i \in DOMAIN source
      PROVE  /\ source'[i] = source[i] /\ i \in DOMAIN source'
             /\ IsTitle(i)' <=> IsTitle(i)
  BY <1>1, <1>2, Grown
<1>7. \A i \in DOMAIN source' : i \in DOMAIN source \/ i = h
  BY <1>1, <1>2, <1>4, Grown
<1> DEFINE leading == b[1].type = "heading" /\ b[1].level = 1 /\ h = 1
           breaks == b[1].type = "heading" /\ b[1].level = 2
           new == NewEvents(b, h, leading, breaks)
           text == TextOf(b[1].inline, h, 1)
<1>8. /\ title' = IF leading THEN text ELSE title
      /\ events' = events \o new
      /\ issues' = issues \cup
            (IF leading \/ breaks THEN ReportedInline(b[1].inline, h, 1)
             ELSE UNION {ReportedNode(b[k], h, k) : k \in DOMAIN b})
  BY <1>4, <1>5 DEF ReadBlock, NewEvents
<1>9. leading \in BOOLEAN /\ breaks \in BOOLEAN /\ ~(leading /\ breaks)
  OBVIOUS
<1>10. IsTitle(h)' <=> leading \/ breaks
  BY <1>1, <1>5 DEF IsTitle
<1>11. /\ Sound(new, h) /\ \A p \in Pieces(new) : p.at.block = h
       /\ leading => Values(new) = {} /\ Pieces(new) = {}
       /\ ~leading /\ breaks => /\ \A ev \in Values(new) : ev.kind = "page_break"
                                /\ Pieces(new) = TextPieces(text)
       /\ ~leading /\ ~breaks =>
             /\ Values(new) = IF Kept(b) = {} THEN {} ELSE {Block(Convert(b, h))}
             /\ Pieces(new) = NodePieces(Convert(b, h))
  BY <1>5, <1>9, NewEventsAre
<1>12. b[1].type = "heading" => DOMAIN b = {1}
  BY OneBlock DEF Containers, Lists
<1> HIDE DEF leading, breaks, new, text
<1>13. All = events
  BY <1>2, <1>3, GivenNone, JoinedEmpty DEF All, Flushed
<1>14. IsSeq(events') /\ IsSeq(new)
  BY <1>2, <1>8, <1>11, Joined DEF Sound
<1>15. All' = All \o new
  <2>1. All' = events'
    BY <1>1, <1>3, <1>14, GivenNone, JoinedEmpty DEF All, Flushed
  <2> QED BY <2>1, <1>8, <1>13
<1>16. /\ Sound(All', h)
       /\ Values(All') = Values(All) \cup Values(new)
       /\ Pieces(All') = Pieces(All) \cup Pieces(new)
  <2>1. Sound(new, Len(source) + 1) /\ \A p \in Pieces(new) : p.at.block = Len(source) + 1
    BY <1>5, <1>11
  <2> QED BY <2>1, <1>3, <1>5, <1>15, SoundGrows
<1>17. TitleFirst' /\ TextPieces(title) \subseteq TextPieces(title')
  <2>1. CASE leading
    <3>1. h = 1 /\ source = <<>>
      BY <2>1, <1>5 DEF leading
    <3>2. DOMAIN b[1].inline \subseteq Nat /\ title' = TextOf(b[1].inline, Here, 1)
      BY <2>1, <1>4, <1>8, MarkdownNode DEF text
    <3>3. Pieces(All') = Pieces(All) \cup {}
      BY <2>1, <1>11, <1>16
    <3>4. AllBefore(TextPieces(title'), {})
      BY DEF AllBefore
    <3>5. TextPieces(title) = {} /\ Pieces(All) = {}
      BY <1>3, <3>1, NothingYet, NoValues DEF TitleFirst
    <3>6. TitleFirst'
      BY <1>1, <1>2, <3>2, <3>3, <3>4, <3>5, TitleRead
    <3> QED BY <3>5, <3>6
  <2>2. CASE ~leading
    <3>1. title' = title
      BY <2>2, <1>8
    <3>2. \A p \in Pieces(new) : p.at.block = Here
      BY <1>4, <1>11
    <3>3. format = "docx" /\ b = Other => Pieces(new) = {}
      BY <1>1
    <3>4. Pieces(All') = Pieces(All) \cup Pieces(new)
      BY <1>16
    <3> DEFINE New == Pieces(new)
    <3>5. Pieces(All') = Pieces(All) \cup New /\ \A p \in New : p.at.block = Here
      BY <3>2, <3>4
    <3>6. format = "docx" /\ b = Other => New = {}
      BY <3>3
    <3> HIDE DEF New
    <3>7. TitleFirst'
      BY <3>1, <3>5, <3>6, <1>1, <1>2, <1>3, TitleKept
    <3> QED BY <3>1, <3>7
  <2> QED BY <2>1, <2>2
<1>18. Accounted'
  <2>1. ASSUME NEW piece \in WrittenIn(h)'
        PROVE  \/ AsShown(piece) \in TextPieces(title')
               \/ AsShown(piece) \in Pieces(All')
               \/ \E issue \in issues' : Tells(issue, piece)
    <3>1. WrittenIn(h)' = UNION {Written(b[k].inline, h, k) : k \in DOMAIN b}
      BY <1>1, <1>5 DEF WrittenIn
    <3>2. PICK k \in DOMAIN b : piece \in Written(b[k].inline, h, k)
      BY <2>1, <3>1
    <3>3. CASE leading \/ breaks
      <4>1. k = 1
        BY <3>3, <1>12 DEF leading, breaks
      <4>2. \A n \in DOMAIN b[1].inline : b[1].inline[n] \in MarkdownInline
        BY MarkdownNode
      <4>3. DOMAIN b[1].inline \subseteq Nat
        BY MarkdownNode
      <4>4. CASE \E issue \in ReportedInline(b[1].inline, h, 1) : Tells(issue, piece)
        BY <4>4, <3>3, <1>8
      <4>5. CASE \E n \in Texts(b[1].inline) : piece = Piece(At(h, 1, n), b[1].inline[n])
        <5>1. piece \in TextPieces(text)
          BY <4>3, <4>5, <1>5, TextOfIs DEF text
        <5>2. AsShown(piece) = piece
          BY <3>2, <4>1, <4>2, InlineRead
        <5>3. CASE leading
          BY <5>1, <5>2, <5>3, <1>8
        <5>4. CASE ~leading
          BY <5>1, <5>2, <5>4, <3>3, <1>11, <1>16
        <5> QED BY <5>3, <5>4
      <4> QED BY <3>2, <4>1, <4>2, <4>4, <4>5, InlineRead
    <3>4. CASE ~leading /\ ~breaks
      <4>1. AsShown(piece) = piece
        BY <1>5, <3>2, NodeRead
      <4>2. CASE piece \in NodePieces(Convert(b, h))
        BY <4>1, <4>2, <3>4, <1>11, <1>16
      <4>3. CASE \E issue \in ReportedNode(b[k], h, k) : Tells(issue, piece)
        BY <4>3, <3>4, <1>8
      <4> QED BY <1>5, <3>2, <4>2, <4>3, NodeRead
    <3> QED BY <3>3, <3>4
  <2>2. Pieces(All) \subseteq Pieces(All') /\ issues \subseteq issues'
    BY <1>8, <1>16
  <2> QED BY <1>1, <1>2, <1>3, <1>4, <1>17, <2>1, <2>2, AccountedKept
<1>19. FromMarkdown'
  <2>1. ASSUME NEW ev \in Values(All'), ev.kind = "block"
        PROVE  \E i \in DOMAIN source' : ~IsTitle(i)' /\ ev.nodes = Convert(source'[i], i)
    <3>1. CASE ev \in Values(All)
      <4>1. PICK i \in DOMAIN source : ~IsTitle(i) /\ ev.nodes = Convert(source[i], i)
        BY <1>1, <1>3, <2>1, <3>1 DEF FromMarkdown
      <4> QED BY <4>1, <1>6
    <3>2. CASE ev \in Values(new)
      <4>1. ~leading /\ ~breaks
        BY <2>1, <3>2, <1>11
      <4>2. ev = Block(Convert(b, h))
        BY <3>2, <4>1, <1>11
      <4> QED BY <4>1, <4>2, <1>5, <1>10, BlockIs
    <3> QED BY <3>1, <3>2, <1>16
  <2>2. ASSUME NEW i \in DOMAIN source', ~IsTitle(i)', Kept(source'[i]) # {}
        PROVE  \E ev \in Values(All') : ev.kind = "block" /\ ev.nodes = Convert(source'[i], i)
    <3>1. CASE i \in DOMAIN source
      <4>1. ~IsTitle(i) /\ source'[i] = source[i]
        BY <2>2, <3>1, <1>6
      <4>2. \E ev \in Values(All) : ev.kind = "block" /\ ev.nodes = Convert(source[i], i)
        BY <1>1, <1>3, <2>2, <3>1, <4>1 DEF FromMarkdown
      <4> QED BY <4>1, <4>2, <1>16
    <3>2. CASE i = h
      <4>1. ~leading /\ ~breaks
        BY <2>2, <3>2, <1>10
      <4>2. Block(Convert(b, h)) \in Values(new)
        BY <2>2, <3>2, <4>1, <1>5, <1>11
      <4> QED BY <3>2, <4>2, <1>5, <1>16, BlockIs
    <3> QED BY <3>1, <3>2, <1>7
  <2> QED BY <1>1, <1>3, <2>1, <2>2 DEF FromMarkdown
<1>20. Collected'
  BY <1>1, <1>5, <1>16, <1>17, <1>18, <1>19 DEF Collected, FromWord
<1>21. TypeInv'
  BY <1>1, <1>2, <1>5, <1>14 DEF TypeInv
<1>22. Judged'
  BY <1>1 DEF Judged
<1> QED BY <1>20, <1>21, <1>22 DEF ImportInv

-----------------------------------------------------------------------------
(* Reading a Word file                                                     *)

\* The beginning and the end of what is sound are, and in that order.
LEMMA SoundSplit ==
    ASSUME NEW n, NEW s, IsSeq(s), NEW t, IsSeq(t), Sound(s \o t, n)
    PROVE  Sound(s, n) /\ Sound(t, n) /\ AllBefore(Pieces(s), Pieces(t))
<1> DEFINE j == s \o t
<1>1. /\ IsSeq(j) /\ Values(j) = Values(s) \cup Values(t)
      /\ Len(s) \in Nat /\ Len(t) \in Nat /\ DOMAIN s = 1..Len(s) /\ DOMAIN t = 1..Len(t)
      /\ DOMAIN j = 1..(Len(s) + Len(t))
  BY Joined, SeqDomain
<1>2. \A e \in DOMAIN s : e \in DOMAIN j /\ j[e] = s[e]
  BY <1>1, Joined
<1>3. ASSUME NEW e \in DOMAIN t
      PROVE  Len(s) + e \in DOMAIN j /\ j[Len(s) + e] = t[e]
  <2>1. j[Len(s) + e] = t[e]
    BY <1>1, Joined
  <2>2. Len(s) + e \in DOMAIN j
    BY <1>1
  <2> QED BY <2>1, <2>2
<1> HIDE DEF j
<1>4. /\ \A ev \in Values(j) :
            /\ IsEvent(ev) /\ OrderedNodes(ev.nodes) /\ OrderedText(ev.title)
            /\ \A p \in PiecesOf(ev) : p.at.block \in 1..n
      /\ \A e, f \in DOMAIN j : e < f => AllBefore(PiecesOf(j[e]), PiecesOf(j[f]))
  BY DEF Sound, j
<1>5. Sound(s, n)
  <2>1. \A e, f \in DOMAIN s : e < f => AllBefore(PiecesOf(s[e]), PiecesOf(s[f]))
    BY <1>2, <1>4
  <2> QED BY <1>1, <1>4, <2>1 DEF Sound
<1>6. Sound(t, n)
  <2>1. ASSUME NEW e \in DOMAIN t, NEW f \in DOMAIN t, e < f
        PROVE  AllBefore(PiecesOf(t[e]), PiecesOf(t[f]))
    <3>1. Len(s) + e < Len(s) + f
      BY <1>1, <2>1
    <3> QED BY <3>1, <1>3, <1>4
  <2> QED BY <1>1, <1>4, <2>1 DEF Sound
<1>7. ASSUME NEW p \in Pieces(s), NEW q \in Pieces(t)
      PROVE  Earlier(p, q)
  <2>1. PICK e \in DOMAIN s : p \in PiecesOf(s[e])
    BY <1>7, ValueOf DEF Pieces, Body, Headings, PiecesOf
  <2>2. PICK f \in DOMAIN t : q \in PiecesOf(t[f])
    BY <1>7, ValueOf DEF Pieces, Body, Headings, PiecesOf
  <2>3. e < Len(s) + f /\ e \in DOMAIN j /\ Len(s) + f \in DOMAIN j
    BY <1>1
  <2>4. AllBefore(PiecesOf(s[e]), PiecesOf(t[f]))
    BY <1>2, <1>3, <1>4, <2>3
  <2> QED BY <2>1, <2>2, <2>4 DEF AllBefore
<1> QED BY <1>5, <1>6, <1>7 DEF AllBefore

\* The events before the one a paragraph goes into, that one, and what there is
\* of them: the paragraph's text is added to what there was.
Base(goesOn) == IF goesOn THEN events ELSE All
Middle(p, h, leading, breaks, list) ==
    IF leading THEN <<>> ELSE IF breaks THEN <<Break(h, TextOf(p.inline, h, 1))>>
    ELSE Given(IF p.list # "none" THEN list ELSE Line(p, TextOf(p.inline, h, 1)))
Fronted(p, h, leading, breaks, goesOn, list) ==
    LET text == TextOf(p.inline, h, 1)
        base == Base(goesOn)
        mid == Middle(p, h, leading, breaks, list)
    IN /\ IsSeq(base) /\ IsSeq(mid) /\ Sound(base \o mid, h)
       /\ Body(base \o mid) = Body(All) \cup IF leading \/ breaks THEN {} ELSE TextPieces(text)
       /\ Headings(base \o mid) = Headings(All) \cup IF ~leading /\ breaks THEN TextPieces(text) ELSE {}
       /\ \A ev \in Values(base \o mid) : ev.kind = "block" => IsWord(ev.nodes)
       /\ p.list # "none" => IsList(list) /\ DOMAIN list # {}

\* What a paragraph puts before its images, and the list that goes on, are sound
\* and of the forms a Word file has.
LEMMA FrontIs ==
    ASSUME Len(source) \in Nat, IsSeq(events), Sound(All, Len(source)), listed = <<>> \/ IsList(listed),
           \A ev \in Values(All) : ev.kind = "block" => IsWord(ev.nodes),
           NEW p \in Paragraphs, NEW h, h = Len(source) + 1,
           NEW leading \in BOOLEAN, NEW breaks \in BOOLEAN, NEW goesOn \in BOOLEAN,
           goesOn => listed # <<>> /\ ~leading /\ ~breaks /\ p.list # "none",
           NEW list, list = Listing(IF goesOn THEN listed ELSE <<>>, ListKind(p), TextOf(p.inline, h, 1))
    PROVE  Fronted(p, h, leading, breaks, goesOn, list)
<1> DEFINE m == Len(source)
<1> DEFINE text == TextOf(p.inline, h, 1)
           base == IF goesOn THEN events ELSE All
           mid == IF leading THEN <<>> ELSE IF breaks THEN <<Break(h, text)>>
                  ELSE Given(IF p.list # "none" THEN list ELSE Line(p, text))
           B == IF leading \/ breaks THEN {} ELSE TextPieces(text)
           H == IF ~leading /\ breaks THEN TextPieces(text) ELSE {}
<1>1. h \in Nat /\ h >= 1 /\ DOMAIN p.inline \subseteq Nat
  BY WordParagraph
<1>2. /\ IsText(text) /\ OrderedText(text) /\ WordText(text)
      /\ \A q \in TextPieces(text) : q.at.block = h
  BY <1>1, TextOfIs
<1>3. p.list # "none" => ListKind(p) \in Lists
  BY WordParagraph DEF ListKind, Lists
<1>4. All = events \o Given(listed) /\ IsSeq(Given(listed))
  BY GivenValues DEF All, Flushed
<1>5. /\ Sound(events, m) /\ Sound(Given(listed), m)
      /\ AllBefore(Pieces(events), Pieces(Given(listed)))
  BY <1>4, SoundSplit
<1>6. /\ Body(All) = Body(events) \cup NodePieces(listed) /\ Headings(All) = Headings(events)
      /\ Pieces(Given(listed)) = NodePieces(listed)
      /\ Values(events) \subseteq Values(All)
  <2>1. Body(Given(listed)) = NodePieces(listed) /\ Headings(Given(listed)) = {}
    BY GivenPieces
  <2>2. Body(All) = Body(events) \cup Body(Given(listed))
    BY <1>4, PiecesJoined
  <2>3. Headings(All) = Headings(events) \cup Headings(Given(listed))
    BY <1>4, PiecesJoined
  <2>4. Values(All) = Values(events) \cup Values(Given(listed))
    BY <1>4, Joined
  <2> QED BY <2>1, <2>2, <2>3, <2>4 DEF Pieces
<1>7. IsTree(listed) /\ OrderedNodes(listed) /\ \A q \in NodePieces(listed) : q.at.block \in 1..m
  <2>1. CASE DOMAIN listed = {}
    BY <2>1, NoNode
  <2>2. CASE DOMAIN listed # {}
    <3>1. Block(listed) \in Values(Given(listed))
      BY <2>2, GivenValues
    <3>2. /\ IsEvent(Block(listed)) /\ OrderedNodes(Block(listed).nodes)
          /\ \A q \in PiecesOf(Block(listed)) : q.at.block \in 1..m
      BY <1>5, <3>1 DEF Sound
    <3>3. Block(listed).nodes = listed /\ PiecesOf(Block(listed)) = NodePieces(listed)
      BY BlockIs
    <3> QED BY <3>2, <3>3 DEF IsEvent
  <2> QED BY <2>1, <2>2
<1>8. NodePieces(<<>>) = {} /\ IsTree(<<>>) /\ OrderedNodes(<<>>)
  BY NoNode, NoValues
<1> DEFINE old == IF goesOn THEN listed ELSE <<>>
<1>9. /\ old = <<>> \/ IsList(old)
      /\ IsTree(old) /\ OrderedNodes(old)
      /\ \A q \in NodePieces(old) : q.at.block \in 1..m
  BY <1>7, <1>8
<1>10. AllBefore(NodePieces(old), TextPieces(text))
  <2> SUFFICES ASSUME NEW q \in NodePieces(old), NEW r \in TextPieces(text)
               PROVE  Earlier(q, r)
    BY DEF AllBefore
  <2>1. q.at.block \in 1..m /\ r.at.block = m + 1
    BY <1>2, <1>9
  <2> QED BY <2>1 DEF Earlier
<1>11. list = Listing(old, ListKind(p), text)
  OBVIOUS
<1> HIDE DEF text, old
<1>12. p.list # "none" =>
          /\ IsList(list) /\ IsTree(list) /\ OrderedNodes(list) /\ DOMAIN list # {}
          /\ NodePieces(list) = NodePieces(old) \cup TextPieces(text)
  BY <1>2, <1>3, <1>9, <1>10, <1>11, ListingIs
<1>13. ASSUME goesOn
       PROVE  /\ IsSeq(base) /\ IsSeq(mid) /\ Sound(base \o mid, h)
              /\ Body(base \o mid) = Body(All) \cup B /\ Headings(base \o mid) = Headings(All) \cup H
              /\ \A ev \in Values(base \o mid) : ev.kind = "block" => IsWord(ev.nodes)
  <2>1. p.list # "none" /\ ~leading /\ ~breaks /\ old = listed
    BY <1>13 DEF old
  <2>2. base = events /\ mid = Given(list) /\ B = TextPieces(text) /\ H = {}
    BY <1>13, <2>1
  <2>3. Sound(Given(list), h)
    <3>1. \A q \in NodePieces(list) : q.at.block \in 1..h
      BY <1>1, <1>2, <1>9, <1>12, <2>1
    <3> QED BY <1>1, <1>12, <2>1, <3>1, SoundGiven
  <2>4. IsSeq(Given(list)) /\ Body(Given(list)) = NodePieces(list) /\ Headings(Given(list)) = {}
        /\ Values(Given(list)) = {Block(list)}
    BY <1>12, <2>1, GivenValues, GivenPieces
  <2>5. AllBefore(Pieces(events), Pieces(Given(list)))
    <3> SUFFICES ASSUME NEW q \in Pieces(events), NEW r \in NodePieces(list)
                 PROVE  Earlier(q, r)
      BY <2>4 DEF AllBefore, Pieces
    <3>1. CASE r \in NodePieces(listed)
      BY <1>5, <1>6, <3>1 DEF AllBefore
    <3>2. CASE r \in TextPieces(text)
      <4>1. q.at.block \in 1..m /\ r.at.block = m + 1
        BY <1>2, <1>5, <3>2, SoundPieces
      <4> QED BY <4>1 DEF Earlier
    <3> QED BY <1>12, <2>1, <3>1, <3>2
  <2>6. Sound(events \o Given(list), h)
    <3>1. m <= h
      BY <1>1
    <3> QED BY <1>1, <1>5, <2>3, <2>5, <3>1, SoundJoined
  <2>7. /\ Body(events \o Given(list)) = Body(All) \cup TextPieces(text)
        /\ Headings(events \o Given(list)) = Headings(All)
        /\ Values(events \o Given(list)) = Values(events) \cup {Block(list)}
    <3>1. Body(events \o Given(list)) = Body(events) \cup Body(Given(list))
      BY <2>4, PiecesJoined
    <3>2. Headings(events \o Given(list)) = Headings(events) \cup Headings(Given(list))
      BY <2>4, PiecesJoined
    <3>3. Values(events \o Given(list)) = Values(events) \cup Values(Given(list))
      BY <2>4, Joined
    <3>4. NodePieces(list) = NodePieces(listed) \cup TextPieces(text)
      BY <1>12, <2>1
    <3> HIDE DEF base, mid, B, H
    <3>5. Body(events \o Given(list)) = Body(All) \cup TextPieces(text)
      BY <1>6, <2>4, <3>1, <3>4
    <3>6. Headings(events \o Given(list)) = Headings(All)
      BY <1>6, <2>4, <3>2
    <3>7. Values(events \o Given(list)) = Values(events) \cup {Block(list)}
      BY <2>4, <3>3
    <3> QED BY <3>5, <3>6, <3>7
  <2>8. \A ev \in Values(events \o Given(list)) : ev.kind = "block" => IsWord(ev.nodes)
    <3>1. IsWord(Block(list).nodes)
      BY <1>12, <2>1, BlockIs DEF IsWord
    <3> QED BY <1>6, <2>7, <3>1
  <2> HIDE DEF base, mid, B, H
  <2> QED BY <2>2, <2>4, <2>6, <2>7, <2>8
<1>14. ASSUME ~goesOn
       PROVE  /\ IsSeq(base) /\ IsSeq(mid) /\ Sound(base \o mid, h)
              /\ Body(base \o mid) = Body(All) \cup B /\ Headings(base \o mid) = Headings(All) \cup H
              /\ \A ev \in Values(base \o mid) : ev.kind = "block" => IsWord(ev.nodes)
  <2>1. base = All /\ IsSeq(All) /\ NodePieces(old) = {}
    BY <1>8, <1>14 DEF Sound, old
  <2>2. /\ Sound(mid, h) /\ Body(mid) = B /\ Headings(mid) = H
        /\ \A ev \in Values(mid) : ev.kind = "block" => IsWord(ev.nodes)
    <3>1. CASE leading
      <4>1. mid = <<>> /\ B = {} /\ H = {}
        BY <3>1
      <4>2. Sound(<<>>, h) /\ Body(<<>>) = {} /\ Headings(<<>>) = {} /\ Values(<<>>) = {}
        BY SoundEmpty, NoPieces, NoValues
      <4> HIDE DEF mid, B, H
      <4> QED BY <4>1, <4>2
    <3>2. CASE ~leading /\ breaks
      <4>1. mid = <<Break(h, text)>> /\ B = {} /\ H = TextPieces(text)
        BY <3>2
      <4>2. /\ Sound(<<Break(h, text)>>, h) /\ Body(<<Break(h, text)>>) = {}
            /\ Headings(<<Break(h, text)>>) = TextPieces(text)
            /\ \A ev \in Values(<<Break(h, text)>>) : ev.kind = "page_break"
        BY <1>1, BreakIs DEF text
      <4> HIDE DEF mid, B, H
      <4> QED BY <4>1, <4>2
    <3>3. CASE ~leading /\ ~breaks
      <4> DEFINE nodes == IF p.list # "none" THEN list ELSE Line(p, text)
      <4>1. mid = Given(nodes) /\ B = TextPieces(text) /\ H = {}
        BY <3>3
      <4>2. /\ IsTree(nodes) /\ OrderedNodes(nodes) /\ NodePieces(nodes) = TextPieces(text)
            /\ DOMAIN nodes # {} => IsWord(nodes)
        <5>1. CASE p.list # "none"
          BY <1>12, <2>1, <5>1 DEF IsWord
        <5>2. CASE p.list = "none"
          BY <1>2, <5>2, LineIs DEF IsWord
        <5> QED BY <5>1, <5>2
      <4> HIDE DEF nodes
      <4>3. Sound(Given(nodes), h)
        <5>1. \A q \in NodePieces(nodes) : q.at.block \in 1..h
          BY <1>1, <1>2, <4>2
        <5> QED BY <1>1, <4>2, <5>1, SoundGiven
      <4>4. Body(Given(nodes)) = TextPieces(text) /\ Headings(Given(nodes)) = {}
        BY <4>2, GivenPieces
      <4>5. \A ev \in Values(Given(nodes)) : ev.kind = "block" => IsWord(ev.nodes)
        <5>1. Values(Given(nodes)) = IF DOMAIN nodes = {} THEN {} ELSE {Block(nodes)}
          BY GivenValues
        <5>2. Block(nodes).nodes = nodes
          BY BlockIs
        <5> QED BY <4>2, <5>1, <5>2
      <4> HIDE DEF mid, B, H
      <4> QED BY <4>1, <4>3, <4>4, <4>5
    <3> QED BY <3>1, <3>2, <3>3
  <2>3. \A q \in Pieces(mid) : q.at.block = m + 1
    <3>1. Pieces(mid) \subseteq TextPieces(text)
      <4> HIDE DEF mid
      <4> QED BY <2>2 DEF Pieces
    <3> QED BY <1>2, <3>1
  <2>4. IsSeq(mid)
    BY <2>2 DEF Sound
  <2> HIDE DEF mid, B, H, base
  <2>5. Sound(mid, m + 1)
    BY <2>2
  <2>6. /\ Sound(All \o mid, m + 1)
        /\ Values(All \o mid) = Values(All) \cup Values(mid)
        /\ Body(All \o mid) = Body(All) \cup Body(mid)
        /\ Headings(All \o mid) = Headings(All) \cup Headings(mid)
    BY <2>3, <2>5, SoundGrows
  <2> QED BY <2>1, <2>2, <2>4, <2>6
<1> HIDE DEF base, mid, B, H
<1>15. /\ IsSeq(base) /\ IsSeq(mid) /\ Sound(base \o mid, h)
       /\ Body(base \o mid) = Body(All) \cup B /\ Headings(base \o mid) = Headings(All) \cup H
       /\ \A ev \in Values(base \o mid) : ev.kind = "block" => IsWord(ev.nodes)
  BY <1>13, <1>14
<1> QED BY <1>12, <1>15 DEF Fronted, Base, Middle, base, mid, B, H, text

\* The pieces of a paragraph: they become text or images, or are reported.
LEMMA ParagraphRead ==
    ASSUME NEW p \in Paragraphs, NEW h \in Nat, NEW piece \in Written(p.inline, h, 1)
    PROVE  \/ piece.kind \in Silent
           \/ AsShown(piece) \in TextPieces(TextOf(p.inline, h, 1))
           \/ AsShown(piece) \in NodePieces(Pictures(p, h))
           \/ \E issue \in ReportedParagraph(p, h) : Tells(issue, piece)
<1>1. PICK n \in DOMAIN p.inline : piece = Piece(At(h, 1, n), p.inline[n])
  BY DEF Written
<1>2. piece.at = At(h, 1, n) /\ piece.kind = p.inline[n] /\ p.inline[n] \in WordInline
  BY <1>1, PieceOf, WordParagraph
<1>3. CASE p.inline[n] \in BecomesText
  <2>1. AsShown(piece) = piece
    BY <1>2, <1>3 DEF AsShown, BecomesText
  <2>2. n \in Texts(p.inline) /\ DOMAIN p.inline \subseteq Nat
    BY <1>3, WordParagraph DEF Texts
  <2>3. Piece(At(h, 1, n), p.inline[n]) \in TextPieces(TextOf(p.inline, h, 1))
    BY <2>2, TextOfIs
  <2> QED BY <1>1, <2>1, <2>3
<1>4. CASE p.inline[n] \in Drawings
  <2>1. AsShown(piece) = Piece(At(h, 1, n), "image")
    <3>1. CASE p.inline[n] = "image"
      BY <1>1, <1>2, <3>1 DEF AsShown
    <3>2. CASE p.inline[n] = "captioned image"
      BY <1>2, <3>2 DEF AsShown
    <3> QED BY <1>4, <3>1, <3>2 DEF Drawings
  <2>2. n \in Pictured(p.inline)
    BY <1>4 DEF Pictured
  <2> QED BY <2>1, <2>2, PicturesAre
<1>5. CASE p.inline[n] = "bad image"
  <2> DEFINE issue == Issue("image_dropped", At(h, 1, n))
  <2>1. issue \in ReportedParagraph(p, h)
    BY <1>5 DEF ReportedParagraph
  <2>2. issue.code = "image_dropped" /\ issue.at = piece.at
    BY <1>2, IssueIs
  <2>3. Tells(issue, piece)
    BY <2>2 DEF Tells
  <2> QED BY <2>1, <2>3
<1>6. CASE p.inline[n] = "missing image"
  <2> DEFINE issue == Issue("image_unavailable", Nowhere)
  <2>1. issue \in ReportedParagraph(p, h)
    BY <1>6 DEF ReportedParagraph
  <2>2. issue.code = "image_unavailable" /\ piece.kind = "missing image"
    BY <1>2, <1>6, IssueIs
  <2>3. Tells(issue, piece)
    BY <2>2 DEF Tells
  <2> QED BY <2>1, <2>3
<1>7. CASE p.inline[n] \in Silent
  BY <1>2, <1>7
<1> QED BY <1>2, <1>3, <1>4, <1>5, <1>6, <1>7 DEF WordInline, BecomesText, Drawings, Silent

\* One more paragraph of a Word file: a title, a break, a line or an item, and
\* its images behind it.
LEMMA ReadParagraphStep ==
    ASSUME ImportInv, NEW p \in Paragraphs, ReadParagraph(p)
    PROVE  ImportInv'
<1>1. /\ phase = "reading" /\ format = "docx" /\ source' = Append(source, p)
      /\ format' = format /\ phase' = phase /\ kept' = kept
  BY DEF ReadParagraph, Reads
<1>2. TypeInv /\ Collected /\ source \in Seq(Paragraphs \cup {Table, Other}) /\ IsSeq(events)
  BY <1>1 DEF ImportInv, TypeInv
<1>3. /\ Sound(All, Len(source)) /\ TitleFirst /\ Accounted /\ FromWord
      /\ listed = <<>> \/ IsList(listed)
      /\ \A ev \in Values(All) : ev.kind = "block" => IsWord(ev.nodes)
  BY <1>1, <1>2 DEF Collected, FromWord
<1>4. PICK h : h = Here
  OBVIOUS
<1>5. /\ source' \in Seq(Paragraphs \cup {Table, Other}) /\ Len(source) \in Nat /\ h \in Nat /\ h >= 1
      /\ h = Len(source) + 1 /\ Len(source') = h
      /\ source'[h] = p /\ h \in DOMAIN source' /\ DOMAIN source = 1..Len(source)
  BY <1>1, <1>2, <1>4, Grown DEF Here
<1>6. ASSUME NEW i \in DOMAIN source
      PROVE  /\ source'[i] = source[i] /\ i \in DOMAIN source'
             /\ IsTitle(i)' <=> IsTitle(i)
             /\ Objectionable(i)' <=> Objectionable(i)
  BY <1>1, <1>2, Grown
<1>7. \A i \in DOMAIN source' : i \in DOMAIN source \/ i = h
  BY <1>1, <1>2, <1>4, Grown
<1> DEFINE text == TextOf(p.inline, h, 1)
           pictures == Pictures(p, h)
           leading == p.heading = 1 /\ IsFirst(h)
           breaks == p.heading = 2
           item == ~leading /\ ~breaks /\ p.list # "none"
           goesOn == item /\ listed # <<>> /\ listed[1].type = ListKind(p)
           list == Listing(IF goesOn THEN listed ELSE <<>>, ListKind(p), text)
           collects == item /\ DOMAIN pictures = {}
           base == Base(goesOn)
           mid == Middle(p, h, leading, breaks, list)
           B == IF leading \/ breaks THEN {} ELSE TextPieces(text)
           H == IF ~leading /\ breaks THEN TextPieces(text) ELSE {}
           P == NodePieces(pictures)
<1>8. /\ title' = IF leading THEN text ELSE title
      /\ events' = events
            \o (IF goesOn THEN <<>> ELSE Flushed)
            \o (IF breaks THEN <<Break(h, text)>>
                ELSE IF leading \/ collects THEN <<>>
                ELSE Given(IF item THEN list ELSE Line(p, text)))
            \o Given(pictures)
      /\ listed' = IF collects THEN list ELSE <<>>
      /\ images' = images \cup {At(h, 1, n) : n \in DOMAIN pictures}
      /\ ReportedParagraph(p, h) \subseteq issues' /\ issues \subseteq issues'
  BY <1>4 DEF ReadParagraph
<1>30. p.type = "paragraph" /\ p # Other
  <2>1. Other.type = "other"
    BY DEF Other
  <2> QED BY <2>1, WordParagraph
<1>31. /\ IsFirst(h) <=> \A i \in DOMAIN source : source[i] = Other
       /\ IsFirst(h)' <=> \A i \in DOMAIN source : source[i] = Other
  <2>1. 1..(h - 1) = DOMAIN source
    BY <1>5
  <2> QED BY <2>1, <1>6 DEF IsFirst
<1>9. /\ leading \in BOOLEAN /\ breaks \in BOOLEAN /\ goesOn \in BOOLEAN /\ ~(leading /\ breaks)
      /\ goesOn => listed # <<>> /\ ~leading /\ ~breaks /\ p.list # "none"
      /\ item <=> ~leading /\ ~breaks /\ p.list # "none"
  OBVIOUS
<1>10. IsTitle(h)' <=> leading \/ breaks
  BY <1>1, <1>5, <1>30, <1>31 DEF IsTitle
<1>11. /\ IsSeq(base) /\ IsSeq(mid) /\ Sound(base \o mid, h)
       /\ Body(base \o mid) = Body(All) \cup B
       /\ Headings(base \o mid) = Headings(All) \cup H
       /\ \A ev \in Values(base \o mid) : ev.kind = "block" => IsWord(ev.nodes)
       /\ p.list # "none" => IsList(list) /\ DOMAIN list # {}
  <2> HIDE DEF leading, breaks, goesOn, item
  <2>1. list = Listing(IF goesOn THEN listed ELSE <<>>, ListKind(p), TextOf(p.inline, h, 1))
    OBVIOUS
  <2> HIDE DEF list
  <2>2. Fronted(p, h, leading, breaks, goesOn, list)
    BY <1>2, <1>3, <1>5, <1>9, <2>1, FrontIs
  <2> QED BY <2>2 DEF Fronted
<1>12. /\ IsText(text) /\ OrderedText(text) /\ WordText(text)
       /\ \A q \in TextPieces(text) : /\ q.at.block = h /\ q.at.node = 1
                                      /\ q.kind = p.inline[q.at.nth] /\ q.at.nth \in Texts(p.inline)
       /\ \A n \in Texts(p.inline) : Piece(At(h, 1, n), p.inline[n]) \in TextPieces(text)
  BY <1>5, WordParagraph, TextOfIs
<1>13. /\ DOMAIN pictures = Pictured(p.inline) /\ IsPictures(pictures)
       /\ IsTree(pictures) /\ OrderedNodes(pictures)
       /\ P = {Piece(At(h, 1, n), "image") : n \in Pictured(p.inline)}
  BY <1>5, PicturesAre
<1>14. \A q \in P : q.kind = "image" /\ q.at.block = h /\ q.at.node = 1 /\ q.at \in images'
  <2>1. Pictured(p.inline) \subseteq Nat
    BY WordParagraph DEF Pictured
  <2> QED BY <1>5, <1>8, <1>13, <2>1, PieceOf, AddressOf
<1> HIDE DEF text, pictures, leading, breaks, item, goesOn, list, B, H, P
<1>15. IsSeq(Given(pictures)) /\ IsSeq(Given(list)) /\ (DOMAIN pictures = {} => Given(pictures) = <<>>)
  BY GivenValues
<1>16. events \o (IF goesOn THEN <<>> ELSE Flushed) = base
  BY <1>2, JoinedEmpty DEF All, Base
<1>17. /\ All' = (base \o mid) \o Given(pictures)
       /\ IsSeq(events')
  <2>1. CASE collects
    <3>1. item /\ ~leading /\ ~breaks /\ p.list # "none" /\ DOMAIN pictures = {}
      BY <2>1, <1>9
    <3>2. events' = (base \o <<>>) \o <<>> /\ listed' = list
      BY <2>1, <3>1, <1>8, <1>15, <1>16
    <3>3. events' = base
      BY <3>2, <1>11, JoinedEmpty
    <3>4. mid = Given(list)
      BY <3>1 DEF Middle
    <3>5. All' = base \o mid
      BY <3>2, <3>3, <3>4 DEF All, Flushed
    <3>6. (base \o mid) \o <<>> = base \o mid
      BY <1>11, JoinedEmpty DEF Sound
    <3> QED BY <3>1, <3>3, <3>5, <3>6, <1>11, <1>15
  <2>2. CASE ~collects
    <3>1. listed' = <<>>
      BY <2>2, <1>8
    <3>2. (IF breaks THEN <<Break(h, text)>>
           ELSE IF leading \/ collects THEN <<>>
           ELSE Given(IF item THEN list ELSE Line(p, text))) = mid
      <4>1. CASE breaks
        BY <4>1, <1>9 DEF Middle, text
      <4>2. CASE leading
        BY <4>2, <1>9 DEF Middle
      <4>3. CASE ~leading /\ ~breaks
        BY <2>2, <4>3, <1>9 DEF Middle, text
      <4> QED BY <4>1, <4>2, <4>3
    <3> HIDE DEF base, mid, collects
    <3>3. events' = (base \o mid) \o Given(pictures)
      BY <3>2, <1>8, <1>16
    <3>4. IsSeq(events')
      BY <3>3, <1>11, <1>15, Joined DEF Sound
    <3>5. All' = events'
      BY <3>1, <3>4, GivenNone, JoinedEmpty DEF All, Flushed
    <3> QED BY <3>3, <3>4, <3>5
  <2> QED BY <2>1, <2>2
<1>18. listed' = <<>> \/ IsList(listed')
  BY <1>8, <1>9, <1>11
<1> HIDE DEF base, mid, collects
<1>19. /\ Body(Given(pictures)) = P /\ Headings(Given(pictures)) = {}
       /\ Pieces(Given(pictures)) = P
  BY GivenPieces DEF Pieces, P
<1>20. /\ Body(All') = Body(All) \cup B \cup P
       /\ Headings(All') = Headings(All) \cup H
       /\ Pieces(All') = Pieces(All) \cup (B \cup H \cup P)
       /\ \A ev \in Values(All') : ev.kind = "block" => IsWord(ev.nodes)
  <2>1. /\ IsSeq(base \o mid)
        /\ Values(All') = Values(base \o mid) \cup Values(Given(pictures))
        /\ Body(All') = Body(base \o mid) \cup Body(Given(pictures))
        /\ Headings(All') = Headings(base \o mid) \cup Headings(Given(pictures))
    BY <1>11, <1>15, <1>17, Joined, PiecesJoined
  <2>2. Body(All') = Body(All) \cup B \cup P
    BY <1>11, <1>19, <2>1
  <2>3. Headings(All') = Headings(All) \cup H
    BY <1>11, <1>19, <2>1
  <2>4. \A ev \in Values(Given(pictures)) : IsWord(ev.nodes)
    <3>1. Values(Given(pictures)) = IF DOMAIN pictures = {} THEN {} ELSE {Block(pictures)}
      BY GivenValues
    <3>2. Block(pictures).nodes = pictures
      BY BlockIs
    <3> QED BY <1>13, <3>1, <3>2 DEF IsWord
  <2>5. \A ev \in Values(All') : ev.kind = "block" => IsWord(ev.nodes)
    BY <1>11, <2>1, <2>4
  <2> QED BY <2>2, <2>3, <2>5 DEF Pieces
<1>21. B \subseteq TextPieces(text) /\ H \subseteq TextPieces(text)
  BY DEF B, H
<1>22. AllBefore(TextPieces(text), P)
  <2> SUFFICES ASSUME NEW q \in TextPieces(text), NEW r \in P
               PROVE  Earlier(q, r)
    BY DEF AllBefore
  <2>1. q.at.block = h /\ q.at.node = 1 /\ q.kind # "image"
    BY <1>12 DEF WordText, BecomesText
  <2>2. r.at.block = h /\ r.at.node = 1 /\ r.kind = "image"
    BY <1>14
  <2> QED BY <2>1, <2>2 DEF Earlier, Late
<1>23. Sound(All', h)
  <2>1. AllBefore(Pieces(base \o mid), P)
    <3> SUFFICES ASSUME NEW q \in Pieces(base \o mid), NEW r \in P
                 PROVE  Earlier(q, r)
      BY DEF AllBefore
    <3>1. q \in Pieces(All) \/ q \in TextPieces(text)
      BY <1>11, <1>21 DEF Pieces
    <3>2. CASE q \in Pieces(All)
      <4>1. q.at.block \in 1..Len(source) /\ r.at.block = h
        BY <1>3, <1>14, <3>2, SoundPieces
      <4> QED BY <4>1, <1>5 DEF Earlier
    <3>3. CASE q \in TextPieces(text)
      BY <3>3, <1>22 DEF AllBefore
    <3> QED BY <3>1, <3>2, <3>3
  <2>2. Sound(Given(pictures), h)
    <3>1. \A q \in NodePieces(pictures) : q.at.block \in 1..h
      BY <1>5, <1>14 DEF P
    <3> QED BY <1>5, <1>13, <3>1, SoundGiven
  <2>3. h <= h
    BY <1>5
  <2> QED BY <1>5, <1>11, <1>17, <1>19, <2>1, <2>2, <2>3, SoundJoined
<1>24. TitleFirst' /\ TextPieces(title) \subseteq TextPieces(title')
  <2>1. CASE leading
    <3>2. DOMAIN p.inline \subseteq Nat /\ title' = TextOf(p.inline, Here, 1)
      BY <2>1, <1>4, <1>8, WordParagraph DEF text
    <3>3. Pieces(All') = Pieces(All) \cup P
      BY <2>1, <1>20 DEF B, H
    <3>4. AllBefore(TextPieces(title'), P)
      BY <2>1, <1>8, <1>22
    <3>5. TextPieces(title) = {} /\ Pieces(All) = {}
      BY <2>1, <1>1, <1>3, <1>31 DEF TitleFirst, leading
    <3>6. p \in Paragraphs \cup {Table, Other} /\ format # "pdf"
      BY <1>1
    <3>7. TitleFirst'
      BY <1>1, <1>2, <1>30, <3>2, <3>3, <3>4, <3>5, <3>6, TitleRead
    <3> QED BY <3>5, <3>7
  <2>2. CASE ~leading
    <3>1. title' = title
      BY <2>2, <1>8
    <3>2. \A q \in B \cup H \cup P : q.at.block = Here
      BY <1>4, <1>12, <1>14, <1>21
    <3>3. p \in Paragraphs \cup {Table, Other}
      OBVIOUS
    <3> DEFINE New == B \cup H \cup P
    <3>4. Pieces(All') = Pieces(All) \cup New
      BY <1>20
    <3>5. \A q \in New : q.at.block = Here
      BY <3>2
    <3>6. format = "docx" /\ p = Other => New = {}
      BY <1>30
    <3> HIDE DEF New
    <3>7. TitleFirst'
      BY <3>1, <3>3, <3>4, <3>5, <3>6, <1>1, <1>2, <1>3, TitleKept
    <3> QED BY <3>1, <3>7
  <2> QED BY <2>1, <2>2
<1>25. Accounted'
  <2>1. ASSUME NEW piece \in WrittenIn(h)'
        PROVE  \/ piece.kind \in Silent
               \/ AsShown(piece) \in TextPieces(title')
               \/ AsShown(piece) \in Pieces(All')
               \/ \E issue \in issues' : Tells(issue, piece)
    <3>1. WrittenIn(h)' = Written(p.inline, h, 1)
      <4>1. p.type = "paragraph"
        BY WordParagraph
      <4> QED BY <1>1, <1>5, <4>1 DEF WrittenIn
    <3>2. \/ piece.kind \in Silent
          \/ AsShown(piece) \in TextPieces(text)
          \/ AsShown(piece) \in P
          \/ \E issue \in ReportedParagraph(p, h) : Tells(issue, piece)
      BY <1>5, <2>1, <3>1, ParagraphRead DEF text, P, pictures
    <3>3. ASSUME AsShown(piece) \in TextPieces(text)
          PROVE  AsShown(piece) \in TextPieces(title') \/ AsShown(piece) \in Pieces(All')
      <4>1. CASE leading
        BY <3>3, <4>1, <1>8
      <4>2. CASE ~leading
        BY <3>3, <4>2, <1>20 DEF B, H
      <4> QED BY <4>1, <4>2
    <3> QED BY <3>2, <3>3, <1>8, <1>20
  <2>2. Pieces(All) \subseteq Pieces(All') /\ issues \subseteq issues'
    BY <1>8, <1>20
  <2>3. p \in Paragraphs \cup {Table, Other}
    OBVIOUS
  <2> QED BY <1>1, <1>2, <1>3, <1>4, <1>24, <2>1, <2>2, <2>3, AccountedKept
<1>26. FromWord'
  <2>1. Objectionable(h)' <=> \E n \in DOMAIN p.inline : p.inline[n] \in BadlyMarked
    <3>1. p.type = "paragraph"
      BY WordParagraph
    <3> QED BY <1>1, <1>5, <3>1 DEF Objectionable
  <2>2. ASSUME NEW q \in Body(All')
        PROVE  /\ q.kind \in BadlyMarked =>
                     q.at.block \in DOMAIN source' /\ ~IsTitle(q.at.block)' /\ Objectionable(q.at.block)'
               /\ q.kind = "image" =>
                     q.at \in images' \cup kept' \/ Issue("image_dropped", q.at) \in issues'
    <3>1. CASE q \in Body(All)
      <4>1. /\ q.kind \in BadlyMarked =>
                  q.at.block \in DOMAIN source /\ ~IsTitle(q.at.block) /\ Objectionable(q.at.block)
            /\ q.kind = "image" =>
                  q.at \in images \cup kept \/ Issue("image_dropped", q.at) \in issues
        BY <1>1, <1>3, <3>1 DEF FromWord
      <4> QED BY <4>1, <1>1, <1>6, <1>8
    <3>2. CASE q \in B
      <4>1. q \in TextPieces(text) /\ ~leading /\ ~breaks
        BY <3>2 DEF B
      <4>2. q.at.block = h /\ q.kind = p.inline[q.at.nth] /\ q.at.nth \in DOMAIN p.inline
            /\ q.kind \in BecomesText
        BY <4>1, <1>12 DEF WordText, Texts
      <4>3. q.kind # "image"
        BY <4>2 DEF BecomesText
      <4>4. q.kind \in BadlyMarked =>
               q.at.block \in DOMAIN source' /\ ~IsTitle(q.at.block)' /\ Objectionable(q.at.block)'
        BY <4>1, <4>2, <1>5, <1>10, <2>1
      <4> QED BY <4>3, <4>4
    <3>3. CASE q \in P
      BY <3>3, <1>14 DEF BadlyMarked
    <3> QED BY <3>1, <3>2, <3>3, <1>20
  <2>3. ASSUME NEW i \in DOMAIN source', ~IsTitle(i)', Objectionable(i)'
        PROVE  \E q \in Body(All') : q.kind \in BadlyMarked
    <3>1. CASE i \in DOMAIN source
      <4>1. \E q \in Body(All) : q.kind \in BadlyMarked
        BY <1>1, <1>3, <1>6, <2>3, <3>1 DEF FromWord
      <4> QED BY <4>1, <1>20
    <3>2. CASE i = h
      <4>1. PICK n \in DOMAIN p.inline : p.inline[n] \in BadlyMarked
        BY <2>1, <2>3, <3>2
      <4>2. n \in Texts(p.inline)
        BY <4>1 DEF Texts, BecomesText, BadlyMarked
      <4>3. B = TextPieces(text)
        BY <1>10, <2>3, <3>2 DEF B
      <4>4. Piece(At(h, 1, n), p.inline[n]) \in Body(All')
        BY <1>12, <1>20, <4>2, <4>3
      <4> QED BY <4>1, <4>4, PieceOf
    <3> QED BY <3>1, <3>2, <1>7
  <2> QED BY <1>18, <1>20, <2>2, <2>3 DEF FromWord
<1>27. Collected'
  BY <1>1, <1>5, <1>23, <1>24, <1>25, <1>26 DEF Collected, FromMarkdown
<1>28. TypeInv'
  BY <1>1, <1>2, <1>5, <1>17 DEF TypeInv
<1>29. Judged'
  BY <1>1 DEF Judged
<1> QED BY <1>27, <1>28, <1>29 DEF ImportInv

\* A table ends the list before it and is told of.
LEMMA ReadTableStep ==
    ASSUME ImportInv, ReadTable
    PROVE  ImportInv'
<1>1. /\ phase = "reading" /\ format = "docx" /\ source' = Append(source, Table)
      /\ format' = format /\ phase' = phase /\ kept' = kept /\ images' = images /\ title' = title
      /\ events' = events \o Flushed /\ listed' = <<>>
      /\ issues' = issues \cup {Issue("table_dropped", Nowhere)}
  BY DEF ReadTable, Reads
<1>2. TypeInv /\ Collected /\ source \in Seq(Paragraphs \cup {Table, Other}) /\ IsSeq(events)
  BY <1>1 DEF ImportInv, TypeInv
<1>3. Sound(All, Len(source)) /\ TitleFirst /\ Accounted /\ FromWord
  BY <1>1, <1>2 DEF Collected
<1>4. PICK h : h = Here
  OBVIOUS
<1>5. /\ source' \in Seq(Paragraphs \cup {Table, Other}) /\ Len(source) \in Nat /\ h \in Nat
      /\ h = Len(source) + 1 /\ Len(source') = h
      /\ source'[h] = Table /\ h \in DOMAIN source'
  BY <1>1, <1>2, <1>4, Grown DEF Here
<1>6. ASSUME NEW i \in DOMAIN source
      PROVE  /\ source'[i] = source[i] /\ i \in DOMAIN source'
             /\ IsTitle(i)' <=> IsTitle(i)
             /\ Objectionable(i)' <=> Objectionable(i)
  BY <1>1, <1>2, Grown
<1>7. \A i \in DOMAIN source' : i \in DOMAIN source \/ i = h
  BY <1>1, <1>2, <1>4, Grown
<1>8. Table.type = "table" /\ Table # Other
  <2>1. Table.type = "table" /\ Other.type = "other"
    BY DEF Table, Other
  <2> QED BY <2>1
<1>9. events' = All /\ IsSeq(events')
  BY <1>1, <1>3 DEF All, Sound
<1>10. All' = All
  BY <1>1, <1>9, GivenNone, JoinedEmpty DEF All, Flushed
<1>11. Sound(All', h)
  <2>1. Len(source) <= h
    BY <1>5
  <2> QED BY <1>3, <1>5, <1>10, <2>1, SoundLater
<1>12. TitleFirst'
  <2>1. Pieces(All') = Pieces(All)
    BY <1>10
  <2>2. Table \in Paragraphs \cup {Table, Other}
    OBVIOUS
  <2> QED BY <1>1, <1>2, <1>3, <2>1, <2>2, TitleStays
<1>13. Accounted'
  <2>1. ASSUME NEW piece \in WrittenIn(h)'
        PROVE  \E issue \in issues' : Tells(issue, piece)
    <3>1. piece = Piece(At(h, 1, 1), "cell")
      BY <1>1, <1>5, <1>8, <2>1 DEF WrittenIn
    <3> DEFINE issue == Issue("table_dropped", Nowhere)
    <3>2. issue.code = "table_dropped" /\ piece.kind = "cell"
      BY <3>1, IssueIs, PieceOf
    <3>3. Tells(issue, piece)
      BY <3>2 DEF Tells
    <3> QED BY <3>3, <1>1
  <2>2. Table \in Paragraphs \cup {Table, Other} /\ Pieces(All) \subseteq Pieces(All') /\ issues \subseteq issues'
    BY <1>1, <1>10
  <2> QED BY <1>1, <1>2, <1>3, <1>4, <2>1, <2>2, AccountedKept
<1>14. FromWord'
  <2>1. ~Objectionable(h)'
    BY <1>1, <1>5, <1>8 DEF Objectionable
  <2>2. ASSUME NEW q \in Body(All')
        PROVE  /\ q.kind \in BadlyMarked =>
                     q.at.block \in DOMAIN source' /\ ~IsTitle(q.at.block)' /\ Objectionable(q.at.block)'
               /\ q.kind = "image" =>
                     q.at \in images' \cup kept' \/ Issue("image_dropped", q.at) \in issues'
    <3>1. /\ q.kind \in BadlyMarked =>
                q.at.block \in DOMAIN source /\ ~IsTitle(q.at.block) /\ Objectionable(q.at.block)
          /\ q.kind = "image" =>
                q.at \in images \cup kept \/ Issue("image_dropped", q.at) \in issues
      BY <1>1, <1>3, <1>10, <2>2 DEF FromWord
    <3> QED BY <3>1, <1>1, <1>6
  <2>3. ASSUME NEW i \in DOMAIN source', ~IsTitle(i)', Objectionable(i)'
        PROVE  \E q \in Body(All') : q.kind \in BadlyMarked
    <3>1. i \in DOMAIN source
      BY <1>7, <2>1, <2>3
    <3> QED BY <3>1, <1>1, <1>3, <1>6, <1>10, <2>3 DEF FromWord
  <2>4. \A ev \in Values(All') : ev.kind = "block" => IsWord(ev.nodes)
    BY <1>1, <1>3, <1>10 DEF FromWord
  <2> QED BY <1>1, <2>2, <2>3, <2>4 DEF FromWord
<1>15. Collected'
  BY <1>1, <1>5, <1>11, <1>12, <1>13, <1>14 DEF Collected, FromMarkdown
<1>16. TypeInv'
  BY <1>1, <1>2, <1>5, <1>9 DEF TypeInv
<1>17. Judged'
  BY <1>1 DEF Judged
<1> QED BY <1>15, <1>16, <1>17 DEF ImportInv

\* What is neither a paragraph nor a table leaves everything as it was.
LEMMA ReadOtherStep ==
    ASSUME ImportInv, ReadOther
    PROVE  ImportInv'
<1>1. /\ phase = "reading" /\ format = "docx" /\ source' = Append(source, Other)
      /\ UNCHANGED <<format, phase, title, events, listed, issues, images, kept>>
  BY DEF ReadOther, Reads
<1>2. TypeInv /\ Collected /\ source \in Seq(Paragraphs \cup {Table, Other}) /\ IsSeq(events)
  BY <1>1 DEF ImportInv, TypeInv
<1>3. Sound(All, Len(source)) /\ TitleFirst /\ Accounted /\ FromWord
  BY <1>1, <1>2 DEF Collected
<1>4. PICK h : h = Here
  OBVIOUS
<1>5. /\ source' \in Seq(Paragraphs \cup {Table, Other}) /\ Len(source) \in Nat /\ h \in Nat
      /\ h = Len(source) + 1 /\ Len(source') = h
      /\ source'[h] = Other /\ h \in DOMAIN source'
  BY <1>1, <1>2, <1>4, Grown DEF Here
<1>6. ASSUME NEW i \in DOMAIN source
      PROVE  /\ i \in DOMAIN source' /\ IsTitle(i)' <=> IsTitle(i)
             /\ Objectionable(i)' <=> Objectionable(i)
  BY <1>1, <1>2, Grown
<1>7. \A i \in DOMAIN source' : i \in DOMAIN source \/ i = h
  BY <1>1, <1>2, <1>4, Grown
<1>8. Other.type = "other"
  BY DEF Other
<1>9. Other \in Paragraphs \cup {Table, Other}
  OBVIOUS
<1>10. All' = All
  BY <1>1 DEF All, Flushed
<1>11. Sound(All', h)
  <2>1. Len(source) <= h
    BY <1>5
  <2> QED BY <1>3, <1>5, <1>10, <2>1, SoundLater
<1>12. TitleFirst'
  <2>1. Pieces(All') = Pieces(All)
    BY <1>10
  <2> QED BY <1>1, <1>2, <1>3, <1>9, <2>1, TitleStays
<1>13. Accounted'
  <2>1. ASSUME NEW piece \in WrittenIn(h)'
        PROVE  piece.kind \in Silent
    <3>1. piece = Piece(At(h, 1, 1), "passed over")
      BY <1>1, <1>5, <1>8, <2>1 DEF WrittenIn
    <3> QED BY <3>1, PieceOf DEF Silent
  <2>2. Pieces(All) \subseteq Pieces(All') /\ issues \subseteq issues'
    BY <1>1, <1>10
  <2> QED BY <1>1, <1>2, <1>3, <1>4, <1>9, <2>1, <2>2, AccountedKept
<1>14. FromWord'
  <2>1. ~Objectionable(h)'
    BY <1>1, <1>5, <1>8 DEF Objectionable
  <2>2. ASSUME NEW q \in Body(All')
        PROVE  /\ q.kind \in BadlyMarked =>
                     q.at.block \in DOMAIN source' /\ ~IsTitle(q.at.block)' /\ Objectionable(q.at.block)'
               /\ q.kind = "image" =>
                     q.at \in images' \cup kept' \/ Issue("image_dropped", q.at) \in issues'
    BY <1>1, <1>3, <1>6, <1>10, <2>2 DEF FromWord
  <2>3. ASSUME NEW i \in DOMAIN source', ~IsTitle(i)', Objectionable(i)'
        PROVE  \E q \in Body(All') : q.kind \in BadlyMarked
    <3>1. i \in DOMAIN source
      BY <1>7, <2>1, <2>3
    <3> QED BY <3>1, <1>1, <1>3, <1>6, <1>10, <2>3 DEF FromWord
  <2>4. /\ listed' = <<>> \/ IsList(listed')
        /\ \A ev \in Values(All') : ev.kind = "block" => IsWord(ev.nodes)
    BY <1>1, <1>3, <1>10 DEF FromWord
  <2> QED BY <1>1, <2>2, <2>3, <2>4 DEF FromWord
<1>15. Collected'
  BY <1>1, <1>5, <1>11, <1>12, <1>13, <1>14 DEF Collected, FromMarkdown
<1>16. TypeInv'
  BY <1>1, <1>2, <1>5 DEF TypeInv
<1>17. Judged'
  BY <1>1 DEF Judged
<1> QED BY <1>15, <1>16, <1>17 DEF ImportInv

-----------------------------------------------------------------------------
(* Reading a PDF file                                                      *)

\* One more page of a PDF file.
LEMMA ReadPageStep ==
    ASSUME ImportInv, NEW p \in PdfPages, ReadPage(p)
    PROVE  ImportInv'
<1>1. /\ phase = "reading" /\ format = "pdf" /\ source' = Append(source, p)
      /\ format' = format /\ phase' = phase /\ title' = title
      /\ events' = events /\ listed' = listed
  BY DEF ReadPage, Reads
<1>2. TypeInv /\ Collected /\ source \in Seq(PdfPages) /\ IsSeq(events)
  BY <1>1 DEF ImportInv, TypeInv
<1>3. /\ Sound(All, Len(source)) /\ TitleFirst /\ Accounted /\ pages = PdfMade
      /\ events = <<>> /\ listed = <<>>
  BY <1>1, <1>2 DEF Collected, ImportInv, Judged
<1>4. PICK h : h = Here
  OBVIOUS
<1>5. /\ source' \in Seq(PdfPages) /\ Len(source) \in Nat /\ h \in Nat
      /\ h = Len(source) + 1 /\ Len(source') = h
      /\ source'[h] = p /\ h \in DOMAIN source' /\ h \notin DOMAIN source
  BY <1>1, <1>2, <1>4, Grown DEF Here
<1>6. \A i \in DOMAIN source : source'[i] = source[i] /\ i \in DOMAIN source'
  BY <1>1, <1>2, Grown
<1>7. \A i \in DOMAIN source' : i \in DOMAIN source \/ i = h
  BY <1>1, <1>2, <1>4, Grown
<1>8. All' = All
  BY <1>1 DEF All, Flushed
<1>9. Sound(All', h)
  <2>1. Len(source) <= h
    BY <1>5
  <2> QED BY <1>3, <1>5, <1>8, <2>1, SoundLater
<1>10. TitleFirst'
  <2>1. Pieces(All') = Pieces(All)
    BY <1>8
  <2> QED BY <1>1, <1>2, <1>3, <2>1, TitleStays
<1>11. /\ issues' = issues
             \cup {Issue("page_extraction_failed", At(h, 1, 0)) : q \in {p} \cap {"unreadable"}}
             \cup {Issue("empty_page_dropped", At(h, 1, 0)) : q \in {p} \ PdfTexts}
       /\ pages' = IF p \in PdfTexts
                   THEN [i \in DOMAIN pages \cup {h} |-> IF i = h THEN PdfPage(i, p) ELSE pages[i]]
                   ELSE pages
  BY <1>4 DEF ReadPage
<1>12. Accounted'
  <2>1. ASSUME NEW piece \in WrittenIn(h)', p \notin PdfTexts
        PROVE  \E issue \in issues' : Tells(issue, piece)
    <3>1. p # "blank" /\ piece = Piece(At(h, 1, 1), p)
      BY <1>1, <1>5, <2>1 DEF WrittenIn
    <3>2. p = "unreadable"
      BY <2>1, <3>1 DEF PdfPages
    <3> DEFINE issue == Issue("page_extraction_failed", At(h, 1, 0))
    <3>3. issue \in issues'
      BY <1>11, <3>2
    <3>4. piece.at = At(h, 1, 1)
      BY <3>1, PieceOf
    <3> DEFINE there == At(h, 1, 1)
    <3>5. there.block = h /\ there.node = 1
      BY DEF At
    <3>6. piece.at.block = h /\ piece.at.node = 1
      BY <3>4, <3>5
    <3>7. issue.code = "page_extraction_failed" /\ issue.at = At(h, 1, 0)
      BY IssueIs
    <3>8. issue.code = "page_extraction_failed" /\ issue.at = At(piece.at.block, piece.at.node, 0)
      BY <3>6, <3>7
    <3>9. Tells(issue, piece)
      BY <3>8 DEF Tells
    <3> QED BY <3>3, <3>9
  <2>2. Pieces(All) \subseteq Pieces(All') /\ issues \subseteq issues'
    BY <1>8, <1>11
  <2> QED BY <1>1, <1>2, <1>3, <1>4, <2>1, <2>2, AccountedKept
<1>13. pages' = PdfMade'
  <2>1. DOMAIN pages = {j \in DOMAIN source : source[j] \in PdfTexts}
        /\ \A i \in DOMAIN pages : pages[i] = PdfPage(i, source[i])
    BY <1>3 DEF PdfMade
  <2>2. CASE p \in PdfTexts
    <3>1. {j \in DOMAIN source' : source'[j] \in PdfTexts} = DOMAIN pages \cup {h}
      BY <1>5, <1>6, <1>7, <2>1, <2>2
    <3>2. pages' = [i \in DOMAIN pages \cup {h} |-> PdfPage(i, source'[i])]
      <4>1. pages' = [i \in DOMAIN pages \cup {h} |-> IF i = h THEN PdfPage(i, p) ELSE pages[i]]
        BY <1>11, <2>2
      <4>2. \A i \in DOMAIN pages \cup {h} :
               (IF i = h THEN PdfPage(i, p) ELSE pages[i]) = PdfPage(i, source'[i])
        BY <1>5, <1>6, <2>1
      <4> QED BY <4>1, <4>2
    <3> QED BY <3>1, <3>2 DEF PdfMade
  <2>3. CASE p \notin PdfTexts
    <3>1. {j \in DOMAIN source' : source'[j] \in PdfTexts} = {j \in DOMAIN source : source[j] \in PdfTexts}
      BY <1>5, <1>6, <1>7, <2>3
    <3>2. pages' = pages
      BY <1>11, <2>3
    <3>3. \A i \in DOMAIN pages : pages[i] = PdfPage(i, source'[i])
      BY <1>6, <2>1
    <3> QED BY <1>3, <2>1, <3>1, <3>2, <3>3 DEF PdfMade
  <2> QED BY <2>2, <2>3
<1>14. Collected'
  BY <1>1, <1>3, <1>5, <1>9, <1>10, <1>12 DEF Collected, FromMarkdown, FromWord
<1>15. TypeInv'
  BY <1>1, <1>2, <1>5 DEF TypeInv
<1>16. Judged'
  BY <1>1, <1>13 DEF Judged
<1> QED BY <1>14, <1>15, <1>16 DEF ImportInv

-----------------------------------------------------------------------------
(* The other steps                                                         *)

\* A step that leaves what was read, and may report more.
LEMMA CollectedKept ==
    ASSUME Collected, UNCHANGED <<format, source, title, events, listed>>, issues \subseteq issues',
           \A at \in images \cup kept :
              at \in images' \cup kept' \/ Issue("image_dropped", at) \in issues'
    PROVE  Collected'
<1>1. All' = All
  BY DEF All, Flushed
<1>2. TitleFirst'
  BY <1>1 DEF Collected, TitleFirst
<1>3. Accounted'
  <2>1. Accounted
    BY DEF Collected
  <2> SUFFICES ASSUME NEW i \in DOMAIN source, NEW piece \in WrittenIn(i)
               PROVE  \/ piece.kind \in Silent
                      \/ format = "pdf" /\ source[i] \in PdfTexts
                      \/ AsShown(piece) \in TextPieces(title)
                      \/ AsShown(piece) \in Pieces(All)
                      \/ \E issue \in issues' : Tells(issue, piece)
    <3>1. \A i : WrittenIn(i)' = WrittenIn(i)
      BY DEF WrittenIn
    <3> QED BY <1>1, <3>1 DEF Accounted
  <2> QED BY <2>1 DEF Accounted
<1>4. FromMarkdown'
  BY <1>1 DEF Collected, FromMarkdown, IsTitle, IsFirst
<1>5. FromWord'
  <2>1. \A i : (IsTitle(i)' <=> IsTitle(i)) /\ (Objectionable(i)' <=> Objectionable(i))
    BY DEF IsTitle, IsFirst, Objectionable
  <2>2. FromWord
    BY DEF Collected
  <2>3. ASSUME format = "docx", NEW p \in Body(All), p.kind = "image"
        PROVE  p.at \in images' \cup kept' \/ Issue("image_dropped", p.at) \in issues'
    BY <2>2, <2>3 DEF FromWord
  <2>4. ASSUME format = "docx"
        PROVE  /\ listed = <<>> \/ IsList(listed)
               /\ \A ev \in Values(All) : ev.kind = "block" => IsWord(ev.nodes)
               /\ \A p \in Body(All) : p.kind \in BadlyMarked =>
                     p.at.block \in DOMAIN source /\ ~IsTitle(p.at.block)' /\ Objectionable(p.at.block)'
               /\ \A i \in DOMAIN source : ~IsTitle(i)' /\ Objectionable(i)' =>
                     \E p \in Body(All) : p.kind \in BadlyMarked
    BY <2>1, <2>2, <2>4 DEF FromWord
  <2> QED BY <1>1, <2>3, <2>4 DEF FromWord
<1> QED BY <1>1, <1>2, <1>3, <1>4, <1>5 DEF Collected

\* The pages are made of what was collected, the list still open included.
LEMMA EndOfDocumentStep ==
    ASSUME ImportInv, EndOfDocument
    PROVE  ImportInv'
<1> DEFINE made == IF format = "pdf" THEN pages ELSE PagesOf(All)
<1>1. /\ phase = "reading" /\ pages' = made
      /\ issues' = issues \cup IF format = "pdf" THEN {} ELSE EmptySections(All)
      /\ phase' = IF Cardinality(DOMAIN made) \in 1..MaxPages THEN "converted" ELSE "refused"
      /\ UNCHANGED <<format, source, title, events, listed, images, kept>>
  BY DEF EndOfDocument, All
<1>2. TypeInv /\ Collected /\ (format = "pdf" => pages = PdfMade)
  BY <1>1 DEF ImportInv, Judged
<1>3. phase' \in {"converted", "refused"}
  BY <1>1
<1> HIDE DEF made
<1>4. made = Made
  BY <1>2 DEF made, Made
<1>5. All' = All /\ Made' = Made
  BY <1>1 DEF All, Flushed, Made, PdfMade
<1>6. Collected'
  BY <1>1, <1>2, CollectedKept
<1>7. TypeInv'
  BY <1>1, <1>2, <1>3 DEF TypeInv
<1>8. Judged'
  BY <1>1, <1>3, <1>4, <1>5 DEF Judged
<1> QED BY <1>6, <1>7, <1>8 DEF ImportInv

\* An image is kept or told of.
LEMMA WeighImageStep ==
    ASSUME ImportInv, WeighImage
    PROVE  ImportInv'
<1>1. /\ phase = "converted"
      /\ UNCHANGED <<format, phase, source, title, events, listed, pages>>
  BY DEF WeighImage
<1>2. PICK at \in images, size \in ImageSizes :
         /\ images' = images \ {at}
         /\ kept' = IF Stays(size) THEN kept \cup {at} ELSE kept
         /\ issues' = IF Stays(size) THEN issues ELSE issues \cup {Issue("image_dropped", at)}
  BY DEF WeighImage
<1>3. /\ issues \subseteq issues'
      /\ \A a \in images \cup kept : a \in images' \cup kept' \/ Issue("image_dropped", a) \in issues'
  BY <1>2
<1>4. All' = All /\ Made' = Made
  BY <1>1 DEF All, Flushed, Made, PdfMade
<1>5. Collected'
  BY <1>1, <1>3, CollectedKept DEF ImportInv
<1>6. TypeInv'
  BY <1>1 DEF ImportInv, TypeInv
<1>7. Judged'
  BY <1>1, <1>3, <1>4 DEF ImportInv, Judged
<1> QED BY <1>5, <1>6, <1>7 DEF ImportInv

\* The finished pages are those the validator judges.
LEMMA AssembleStep ==
    ASSUME ImportInv, Assemble
    PROVE  ImportInv'
<1>1. /\ phase = "converted" /\ images = {} /\ issues \subseteq issues'
      /\ pages' = [s \in DOMAIN pages |-> Finished(pages[s])]
      /\ phase' = IF \A s \in DOMAIN pages : ValidPage(Finished(pages[s])) THEN "created" ELSE "invalid"
      /\ UNCHANGED <<format, source, title, events, listed, images, kept>>
  BY DEF Assemble
<1>2. /\ TypeInv /\ Collected /\ pages = Made
      /\ format # "pdf" => EmptySections(All) \subseteq issues
  BY <1>1 DEF ImportInv, Judged
<1>3. All' = All /\ Made' = Made
  BY <1>1 DEF All, Flushed, Made, PdfMade
<1>4. \A p : Finished(p)' = Finished(p)
  <2>1. kept' = kept
    BY <1>1
  <2>2. ASSUME NEW p
        PROVE  Finished(p)' = Finished(p)
    <3>1. \A nodes : Stored(nodes)' = Stored(nodes)
      BY <2>1 DEF Stored
    <3>2. Rewritten(p)' = Rewritten(p)
      BY <3>1 DEF Rewritten
    <3> QED BY <3>2 DEF Finished
  <2> QED BY <2>2
<1>5. Collected'
  BY <1>1, <1>2, CollectedKept
<1>6. TypeInv'
  BY <1>1, <1>2 DEF TypeInv
<1>7. \A s : Finished(Made[s])' = Finished(Made[s])
  <2> HIDE DEF Made
  <2>1. kept' = kept /\ Made' = Made
    BY <1>1, <1>3
  <2>2. ASSUME NEW s
        PROVE  Finished(Made[s])' = Finished(Made[s])
    <3>1. \A nodes : Stored(nodes)' = Stored(nodes)
      BY <2>1 DEF Stored
    <3>2. Rewritten(Made[s])' = Rewritten(Made[s])
      BY <2>1, <3>1 DEF Rewritten
    <3> QED BY <2>1, <3>2 DEF Finished
  <2> QED BY <2>2
<1>8. Judged'
  <2>1. pages' = [s \in DOMAIN Made |-> Finished(Made[s])]'
    <3>1. pages' = [s \in DOMAIN Made |-> Finished(Made[s])]
      BY <1>1, <1>2
    <3> QED BY <1>3, <1>7, <3>1
  <2>2. phase' \in {"created", "invalid"}
        /\ (phase' = "created" <=> (\A s \in DOMAIN Made : ValidPage(Finished(Made[s])))')
    <3>1. phase' = IF \A s \in DOMAIN Made : ValidPage(Finished(Made[s])) THEN "created" ELSE "invalid"
      BY <1>1, <1>2
    <3>2. (\A s \in DOMAIN Made : ValidPage(Finished(Made[s])))'
          <=> \A s \in DOMAIN Made : ValidPage(Finished(Made[s]))
      BY <1>3, <1>7 DEF ValidPage
    <3> QED BY <3>1, <3>2
  <2>3. images' = {} /\ (format' # "pdf" => EmptySections(All') \subseteq issues')
    BY <1>1, <1>2, <1>3
  <2> QED BY <2>1, <2>2, <2>3 DEF Judged
<1> QED BY <1>5, <1>6, <1>8 DEF ImportInv

\* Nothing has been read.
LEMMA InitImport == Init => ImportInv
<1> SUFFICES ASSUME Init PROVE ImportInv
  OBVIOUS
<1>1. /\ format \in Formats /\ phase = "reading" /\ source = <<>> /\ title = <<>>
      /\ events = <<>> /\ listed = <<>> /\ issues = {} /\ pages = <<>>
  BY DEF Init
<1>2. Flushed = <<>>
  BY <1>1 DEF Flushed, Given
<1>3. All = <<>> /\ IsSeq(events)
  BY <1>1, <1>2 DEF All, IsSeq, Values
<1>4. Values(All) = {} /\ Pieces(All) = {} /\ Body(All) = {}
  BY <1>3 DEF Values, Pieces, Body, Headings
<1>5. Sound(All, Len(source))
  BY <1>1, <1>3, <1>4 DEF Sound
<1>6. TitleFirst
  BY <1>1, <1>4 DEF TitleFirst, IsText, OrderedText, TextPieces, AllBefore
<1>7. Accounted /\ FromMarkdown /\ FromWord
  BY <1>1, <1>4 DEF Accounted, FromMarkdown, FromWord
<1>8. TypeInv
  BY <1>1, <1>3 DEF TypeInv
<1>9. Judged
  <2>1. \A i : i \notin DOMAIN source
    BY <1>1
  <2>2. pages = PdfMade
    BY <1>1, <2>1 DEF PdfMade
  <2> QED BY <1>1, <2>2 DEF Judged
<1> QED BY <1>1, <1>5, <1>6, <1>7, <1>8, <1>9 DEF ImportInv, Collected

\* A failed import promises nothing of what it collected.
LEMMA ReadBlankInfoStep ==
    ASSUME ImportInv, NEW b \in MarkdownBlocks, ReadBlankInfo(b)
    PROVE  ImportInv'
<1>1. /\ format = "markdown" /\ source' = Append(source, b) /\ phase' = "failed"
      /\ UNCHANGED <<format, events>>
  BY DEF ReadBlankInfo, Reads
<1>2. TypeInv /\ source \in Seq(MarkdownBlocks) /\ IsSeq(events)
  BY <1>1 DEF ImportInv, TypeInv
<1>3. source' \in Seq(MarkdownBlocks)
  BY <1>1, <1>2, Grown
<1>4. TypeInv'
  BY <1>1, <1>2, <1>3 DEF TypeInv
<1>5. Judged'
  BY <1>1 DEF Judged
<1> QED BY <1>1, <1>4, <1>5 DEF ImportInv

\* A refused file leaves what there was: nothing.
LEMMA RefuseStep ==
    ASSUME ImportInv, Refuse
    PROVE  ImportInv'
<1>1. /\ phase = "reading" /\ phase' = "refused"
      /\ UNCHANGED <<format, source, title, events, listed, issues, images, kept>>
  BY DEF Refuse
<1>2. TypeInv /\ Collected
  BY <1>1 DEF ImportInv
<1>3. Collected'
  BY <1>1, <1>2, CollectedKept
<1>4. TypeInv'
  BY <1>1, <1>2 DEF TypeInv
<1>5. Judged'
  BY <1>1 DEF Judged
<1> QED BY <1>3, <1>4, <1>5 DEF ImportInv

\* Nothing happens.
LEMMA ImportStutter ==
    ASSUME ImportInv, UNCHANGED vars
    PROVE  ImportInv'
<1>1. UNCHANGED <<format, phase, source, title, events, listed, issues, images, kept, total, pages>>
  BY DEF vars
<1>2. phase # "failed" => Collected'
  BY <1>1, CollectedKept DEF ImportInv
<1>3. TypeInv'
  BY <1>1 DEF ImportInv, TypeInv
<1>4. Judged'
  <2>1. All' = All /\ Made' = Made /\ PdfMade' = PdfMade
    BY <1>1 DEF All, Flushed, Made, PdfMade
  <2>2. \A s : Finished(Made[s])' = Finished(Made[s])
    <3> HIDE DEF Made
    <3>1. ASSUME NEW s
          PROVE  Finished(Made[s])' = Finished(Made[s])
      <4>1. \A nodes : Stored(nodes)' = Stored(nodes)
        BY <1>1 DEF Stored
      <4>2. Rewritten(Made[s])' = Rewritten(Made[s])
        BY <2>1, <4>1 DEF Rewritten
      <4> QED BY <2>1, <4>2 DEF Finished
    <3> QED BY <3>1
  <2>3. Judged
    BY DEF ImportInv
  <2>4. [s \in DOMAIN Made |-> Finished(Made[s])]' = [s \in DOMAIN Made |-> Finished(Made[s])]
    BY <2>1, <2>2
  <2>5. (\A s \in DOMAIN Made : ValidPage(Finished(Made[s])))'
        <=> \A s \in DOMAIN Made : ValidPage(Finished(Made[s]))
    BY <2>1, <2>2 DEF ValidPage
  <2> QED BY <1>1, <2>1, <2>3, <2>4, <2>5 DEF Judged
<1> QED BY <1>1, <1>2, <1>3, <1>4 DEF ImportInv

\* Every step keeps the invariant.
LEMMA ImportStep == ImportInv /\ [Next]_vars => ImportInv'
<1> SUFFICES ASSUME ImportInv, [Next]_vars PROVE ImportInv'
  OBVIOUS
<1>1. ASSUME NEW b \in MarkdownBlocks, ReadBlock(b) PROVE ImportInv'
  BY <1>1, ReadBlockStep
<1>2. ASSUME NEW b \in MarkdownBlocks, ReadBlankInfo(b) PROVE ImportInv'
  BY <1>2, ReadBlankInfoStep
<1>3. ASSUME NEW p \in Paragraphs, ReadParagraph(p) PROVE ImportInv'
  BY <1>3, ReadParagraphStep
<1>4. CASE ReadTable
  BY <1>4, ReadTableStep
<1>5. ASSUME NEW p \in PdfPages, ReadPage(p) PROVE ImportInv'
  BY <1>5, ReadPageStep
<1>6. CASE Refuse
  BY <1>6, RefuseStep
<1>7. CASE EndOfDocument
  BY <1>7, EndOfDocumentStep
<1>8. CASE WeighImage
  BY <1>8, WeighImageStep
<1>9. CASE Assemble
  BY <1>9, AssembleStep
<1>10. CASE UNCHANGED vars
  BY <1>10, ImportStutter
<1>11. CASE ReadOther
  BY <1>11, ReadOtherStep
<1> QED BY <1>1, <1>2, <1>3, <1>4, <1>5, <1>6, <1>7, <1>8, <1>9, <1>10, <1>11 DEF Next

\* Whatever the file and however its reading goes on, what was collected of it
\* is sound, in the order of the file and accounted for but for the kinds that
\* Silent names, and what is built of it has the form its format gives it
\* (document_import.py's converters and the loop of import_document).
THEOREM ImportSound == Spec => []ImportInv
<1> QED BY InitImport, ImportStep, PTL DEF Spec

\* For every file, limit and size of image: a module that was created shows
\* every piece of the file in the order of the file, or its report tells of it,
\* but for what Silent names and the text beside a drawing (convert_markdown,
\* convert_docx, _finalize_pages, _drop_empty_pages).
THEOREM ImportLosesNothing == Spec => []NothingIsLost
<1>1. ImportInv => NothingIsLost
  BY NothingLost
<1> QED BY <1>1, ImportSound, PTL

\* For every file, limit and size of image: validate_document refuses what the
\* converters built for the reasons RefusalIsExplained lists or because a page
\* has too many nodes or bytes, always for those and never for another.
THEOREM ImportRefusesForAReason == Spec => []RefusalIsExplained
<1>1. ImportInv => RefusalIsExplained
  BY RefusalExplained
<1> QED BY <1>1, ImportSound, PTL

=============================================================================
