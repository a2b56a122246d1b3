-------------------------- MODULE ConfigDataProofs --------------------------
(***************************************************************************)
(* Proofs about ConfigData and the parser it runs: the tree is sound and   *)
(* the parser goes forward whatever is in the file and wherever it ends,   *)
(* and a file is read as Configuration.tla promises.                       *)
(***************************************************************************)
EXTENDS ConfigData, TinyXmlProofs

(* The elements of a name, and all elements.                               *)
ElementsOf(name) == {m \in DOMAIN nodes : nodes[m].type = "ELEMENT" /\ nodes[m].value = name}

AllElements == {m \in DOMAIN nodes : nodes[m].type = "ELEMENT"}

(* ElementFrom walks along the list to the first element of the name.      *)
LEMMA ElementFromWalks ==
    ASSUME XmlInv, NEW name
    PROVE  \E t : /\ Walk(t, ElementsOf(name))
                  /\ \A n : ElementFrom(n, name) = t[n]
<1> DEFINE body(t) == [m \in 0 .. Len(nodes) |->
                         IF m = 0 \/ (nodes[m].type = "ELEMENT" /\ nodes[m].value = name)
                         THEN m ELSE t[nodes[m].next]]
           t == CHOOSE t : t = body(t)
<1>1. DOMAIN nodes = 1 .. Len(nodes) /\ Len(nodes) \in Nat
  BY TreePointers
<1>2. PICK f : f = [m \in 0 .. Len(nodes) |-> IF m = 0 \/ m \in ElementsOf(name)
                                             THEN m ELSE f[nodes[m].next]]
  BY WalkExists
<1>3. f = body(f)
  <2>1. \A m \in 0 .. Len(nodes) :
          m \in ElementsOf(name) <=> m # 0 /\ nodes[m].type = "ELEMENT" /\ nodes[m].value = name
    BY <1>1 DEF ElementsOf
  <2> QED BY <1>2, <2>1
<1>4. t = body(t)
  <2> HIDE DEF body
  <2> QED BY <1>3
<1>5. \A n : ElementFrom(n, name) = t[n]
  BY DEF ElementFrom
<1> HIDE DEF t
<1>6. Walk(t, ElementsOf(name))
  BY <1>1, <1>4 DEF Walk, ElementsOf
<1> QED BY <1>5, <1>6

(* RootElement walks to the first element of all.                          *)
LEMMA RootElementWalks ==
    ASSUME XmlInv
    PROVE  \E t : Walk(t, AllElements) /\ RootElement = t[nodes[1].first]
<1> DEFINE body(t) == [m \in 0 .. Len(nodes) |->
                         IF m = 0 \/ nodes[m].type = "ELEMENT" THEN m ELSE t[nodes[m].next]]
           t == CHOOSE t : t = body(t)
<1>1. DOMAIN nodes = 1 .. Len(nodes) /\ Len(nodes) \in Nat
  BY TreePointers
<1>2. PICK f : f = [m \in 0 .. Len(nodes) |-> IF m = 0 \/ m \in AllElements
                                             THEN m ELSE f[nodes[m].next]]
  BY WalkExists
<1>3. f = body(f)
  <2>1. \A m \in 0 .. Len(nodes) : m \in AllElements <=> m # 0 /\ nodes[m].type = "ELEMENT"
    BY <1>1 DEF AllElements
  <2> QED BY <1>2, <2>1
<1>4. t = body(t)
  <2> HIDE DEF body
  <2> QED BY <1>3
<1>5. RootElement = t[nodes[1].first]
  BY DEF RootElement
<1> HIDE DEF t
<1>6. Walk(t, AllElements)
  BY <1>1, <1>4 DEF Walk, AllElements
<1> QED BY <1>5, <1>6

(* What the functions of the tree return is NULL or an element of it.      *)
LEMMA ElementsFound ==
    ASSUME XmlInv, NEW name
    PROVE  /\ \A n \in 0 .. Len(nodes) :
                /\ ElementFrom(n, name) = 0 \/ (ElementFrom(n, name) \in DOMAIN nodes
                                                /\ ElementFrom(n, name) >= n)
                /\ FirstChildElement(n, name) \in 0 .. Len(nodes)
           /\ \A m \in DOMAIN nodes :
                /\ NextSiblingElement(m, name) \in 0 .. Len(nodes)
                /\ NextSiblingElement(m, name) = 0 \/ NextSiblingElement(m, name) > m
<1>1. PICK t : Walk(t, ElementsOf(name)) /\ \A n : ElementFrom(n, name) = t[n]
  BY ElementFromWalks
<1>2. /\ DOMAIN nodes = 1 .. Len(nodes) /\ Len(nodes) \in Nat
      /\ \A m \in DOMAIN nodes : /\ nodes[m].next \in 0 .. Len(nodes) /\ nodes[m].first \in 0 .. Len(nodes)
                                 /\ nodes[m].next = 0 \/ nodes[m].next > m
  BY TreePointers
<1>3. \A n \in 0 .. Len(nodes) : ElementFrom(n, name) = 0 \/ (ElementFrom(n, name) \in DOMAIN nodes
                                                             /\ ElementFrom(n, name) >= n)
  BY <1>1, WalkEnds
<1>4. ASSUME NEW n \in 0 .. Len(nodes) PROVE FirstChildElement(n, name) \in 0 .. Len(nodes)
  BY <1>2, <1>3 DEF FirstChildElement
<1>5. ASSUME NEW m \in DOMAIN nodes
      PROVE  /\ NextSiblingElement(m, name) \in 0 .. Len(nodes)
             /\ NextSiblingElement(m, name) = 0 \/ NextSiblingElement(m, name) > m
  <2>1. nodes[m].next \in 0 .. Len(nodes) /\ (nodes[m].next = 0 \/ nodes[m].next > m)
    BY <1>2
  <2>2. CASE nodes[m].next = 0
    BY <1>1, <1>2, <2>2 DEF Walk, NextSiblingElement
  <2>3. CASE nodes[m].next # 0
    <3>1. ElementFrom(nodes[m].next, name) = 0 \/ (ElementFrom(nodes[m].next, name) \in 1 .. Len(nodes)
                                                   /\ ElementFrom(nodes[m].next, name) >= nodes[m].next)
      BY <1>2, <1>3, <2>1
    <3> QED BY <1>2, <2>1, <2>3, <3>1 DEF NextSiblingElement
  <2> QED BY <2>2, <2>3
<1> QED BY <1>3, <1>4, <1>5

LEMMA RootFound ==
    ASSUME XmlInv, nodes # <<>>
    PROVE  RootElement \in 0 .. Len(nodes) /\ RecordSetting \in 0 .. Len(nodes)
<1>1. PICK t : Walk(t, AllElements) /\ RootElement = t[nodes[1].first]
  BY RootElementWalks
<1>2. DOMAIN nodes = 1 .. Len(nodes) /\ Len(nodes) \in Nat
  BY TreePointers
<1>3. 1 \in DOMAIN nodes
  <2>1. Len(nodes) # 0
    BY EmptySeq DEF XmlInv, XmlTypeOK
  <2> QED BY <1>2, <2>1
<1>4. nodes[1].first \in 0 .. Len(nodes)
  BY <1>3, TreePointers
<1>5. RootElement = 0 \/ RootElement \in DOMAIN nodes
  BY <1>1, <1>4, WalkEnds
<1>6. RootElement \in 0 .. Len(nodes)
  BY <1>2, <1>5
<1> QED BY <1>6, ElementsFound DEF RecordSetting

(* A text that is listed is not blank.                                     *)
LEMMA TextsGot ==
    ASSUME XmlInv, NEW m \in DOMAIN nodes
    PROVE  GetText(m) \in Seq(Texts)
<1>1. nodes[m].first = 0 \/ nodes[m].first \in DOMAIN nodes
  BY TreePointers
<1>2. <<>> \in Seq(Texts) /\ \A x \in Texts : <<x>> \in Seq(Texts)
  BY EmptySeq
<1> QED BY <1>1, <1>2 DEF GetText, XmlInv, ValuesInv

(* TextsFrom puts together the texts of the elements it passes.            *)
LEMMA TextsFromUnfolds ==
    ASSUME XmlInv, NEW name
    PROVE  /\ TextsFrom(0, name) = <<>>
           /\ \A m \in DOMAIN nodes :
                TextsFrom(m, name) = GetText(m) \o TextsFrom(NextSiblingElement(m, name), name)
<1> DEFINE N == Len(nodes)
           V == Seq(Texts)
           before(m, s) == GetText(m) \o s
           body(t) == [m \in 0 .. N |-> IF m = 0 THEN <<>> ELSE before(m, t[NextSiblingElement(m, name)])]
           t == CHOOSE t : t = body(t)
           next == [m \in 1 .. N |-> NextSiblingElement(m, name)]
           step == [x \in (1 .. N) \X V |-> GetText(x[1]) \o x[2]]
           depth == [m \in 1 .. N |-> N - m]
<1>1. DOMAIN nodes = 1 .. N /\ N \in Nat
  BY TreePointers
<1>2. \A m \in 1 .. N : GetText(m) \in V
  BY <1>1, TextsGot
<1>3. \A m \in 1 .. N : /\ NextSiblingElement(m, name) \in 0 .. N
                        /\ NextSiblingElement(m, name) = 0 \/ NextSiblingElement(m, name) > m
  BY <1>1, ElementsFound
<1> HIDE DEF N
<1>4. step \in [(1 .. N) \X V -> V]
  <2>1. ASSUME NEW x \in (1 .. N) \X V PROVE GetText(x[1]) \o x[2] \in V
    <3>1. x[1] \in 1 .. N /\ x[2] \in V
      OBVIOUS
    <3> QED BY <1>2, <3>1, ConcatProperties
  <2> HIDE DEF V
  <2> QED BY <2>1
<1>5. IsRecursion(N, V, <<>>, next, step, depth)
  <2>1. next \in [1 .. N -> 0 .. N]
    BY <1>3
  <2>2. depth \in [1 .. N -> 0 .. N]
    BY <1>1
  <2>3. \A m \in 1 .. N : next[m] = 0 \/ depth[next[m]] < depth[m]
    BY <1>1, <1>3
  <2>4. <<>> \in V
    BY EmptySeq
  <2> HIDE DEF next, step, depth, V
  <2> QED BY <1>1, <1>4, <2>1, <2>2, <2>3, <2>4 DEF IsRecursion
<1>6. PICK f \in [0 .. N -> V] : f[0] = <<>> /\ \A m \in 1 .. N : f[m] = step[<<m, f[next[m]]>>]
  <2> HIDE DEF next, step, depth, V
  <2> QED BY <1>5, Recursion
<1>7. f = body(f)
  <2>1. ASSUME NEW m \in 1 .. N PROVE f[m] = GetText(m) \o f[NextSiblingElement(m, name)]
    <3>1. next[m] = NextSiblingElement(m, name) /\ f[next[m]] \in V
      BY <1>3, <1>6
    <3>2. <<m, f[next[m]]>> \in (1 .. N) \X V
      BY <3>1
    <3> HIDE DEF next
    <3>3. step[<<m, f[next[m]]>>] = GetText(m) \o f[next[m]]
      BY <3>2
    <3> HIDE DEF step
    <3> QED BY <1>6, <3>1, <3>3
  <2>2. \A m \in 0 .. N : m = 0 \/ m \in 1 .. N
    BY <1>1
  <2> HIDE DEF step, next, V
  <2> QED BY <1>6, <2>1, <2>2
<1>8. t = body(t)
  <2> HIDE DEF body
  <2> QED BY <1>7
<1>9. \A n : TextsFrom(n, name) = t[n]
  BY DEF TextsFrom, N
<1> HIDE DEF t, step, next, depth
<1>10. t[0] = <<>> /\ \A m \in 1 .. N : t[m] = before(m, t[NextSiblingElement(m, name)])
  <2> HIDE DEF before
  <2>1. 0 \in 0 .. N /\ \A m \in 1 .. N : m \in 0 .. N /\ m # 0
    BY <1>1
  <2>2. t[0] = body(t)[0] /\ \A m \in 1 .. N : t[m] = body(t)[m]
    <3> HIDE DEF body
    <3> QED BY <1>8
  <2>3. body(t)[0] = <<>> /\ \A m \in 1 .. N : body(t)[m] = before(m, t[NextSiblingElement(m, name)])
    BY <2>1, ZenonT(30)
  <2> HIDE DEF body
  <2> QED BY <2>2, <2>3
<1> QED BY <1>1, <1>9, <1>10

(* Before the parser has been called, nothing is read and no list filled.  *)
ConfIInv ==
    /\ XmlInv
    /\ written \in Files
    /\ conf \in Confs
    /\ conf.at # "start" => 1 \in DOMAIN nodes
    /\ conf.at = "start" => frames = <<>> /\ conf.lists = NoLists

(* The tree that LoadFile begins with is the document.                     *)
LEMMA LoadKeeps ==
    ASSUME XmlInv, frames = <<>>, written \in Files, Load
    PROVE  XmlInv'
<1> DEFINE document == NewNode("DOCUMENT", Blank, 0)
           f == [node |-> 1, at |-> "document", attributes |-> {}]
<1>1. written.text \in Seq(Lexemes)
  BY FilesAssumption
<1>2. /\ nodes' = <<document>>
      /\ frames' = <<>> \/ frames' = <<f>>
      /\ pos' = 0 \/ pos' = SkipWhiteSpace(written.text, 1) \/ pos' = pos
      /\ file' = written.text \/ file' = file
      /\ error' \in BOOLEAN
  BY DEF Load, LoadFile, NoFile
<1>3. document \in Nodes /\ document.first = 0 /\ document.last = 0
      /\ document.prev = 0 /\ document.next = 0
  BY DEF NewNode, Nodes, NodeTypes
<1> HIDE DEF document
<1>4. nodes' \in Seq(Nodes) /\ DOMAIN nodes' = {1} /\ nodes'[1] = document
  BY <1>2, <1>3
<1>5. f \in Frames
  BY DEF Frames
<1>6. frames' \in Seq(Frames) /\ \A i \in DOMAIN frames' : i = 1 /\ frames'[i] = f
  <2> HIDE DEF f
  <2>1. CASE frames' = <<>>
    BY <2>1, EmptySeq
  <2>2. CASE frames' = <<f>>
    BY <1>5, <2>2
  <2> QED BY <1>2, <2>1, <2>2
<1>7. frames' # <<>> => frames'[1] = f
  <2> HIDE DEF f
  <2> QED BY <1>2
<1>8. Linked' = {}
  BY <1>4 DEF Linked
<1>9. Chained(nodes', {})
  BY <1>3, <1>4 DEF Chained
<1>10. FramesInv'
  <2>1. \A i, j \in DOMAIN frames' : ~ (i < j)
    BY <1>6
  <2> QED BY <1>4, <1>6, <1>7, <2>1 DEF FramesInv
<1>11. XmlTypeOK'
  <2>1. pos' \in Nat
    BY <1>2, SkipIsPosition DEF XmlInv, XmlTypeOK
  <2>2. file' \in Seq(Lexemes)
    BY <1>1, <1>2 DEF XmlInv, XmlTypeOK
  <2> QED BY <1>2, <1>4, <1>6, <2>1, <2>2 DEF XmlTypeOK
<1>12. ValuesInv'
  <2>1. document.type = "DOCUMENT"
    BY DEF document, NewNode
  <2> QED BY <1>4, <2>1 DEF ValuesInv
<1> QED BY <1>8, <1>9, <1>10, <1>11, <1>12 DEF XmlInv

(* CConfigData starts with no tree.                                        *)
LEMMA ConfInitHolds ==
    ASSUME ConfInit
    PROVE  ConfIInv
<1>1. nodes = <<>> /\ frames = <<>> /\ DOMAIN nodes = {} /\ DOMAIN frames = {}
  BY DEF ConfInit, Init
<1>2. Linked = {}
  BY <1>1 DEF Linked
<1>3. Chained(nodes, Linked)
  BY <1>1, <1>2 DEF Chained
<1>4. FramesInv
  BY <1>1 DEF FramesInv
<1>5. XmlTypeOK /\ ValuesInv
  BY <1>1, EmptySeq DEF ConfInit, Init, XmlTypeOK, ValuesInv
<1>6. conf \in Confs
  <2>1. NoLists \in [Lists -> Seq(Texts)]
    BY EmptySeq DEF NoLists
  <2> QED BY <2>1 DEF ConfInit, Confs
<1> QED BY <1>1, <1>3, <1>4, <1>5, <1>6 DEF ConfInit, ConfIInv, XmlInv

(* What does not touch the tree leaves it sound.                           *)
LEMMA TreeUntouched ==
    ASSUME XmlInv, UNCHANGED xml
    PROVE  XmlInv'
<1>1. Linked' = Linked
  BY DEF Linked, xml
<1> QED BY <1>1 DEF xml, XmlInv, XmlTypeOK, FramesInv, ValuesInv

(* The texts of the elements from one on are not blank.                    *)
LEMMA TextsAreTexts ==
    ASSUME XmlInv, NEW name
    PROVE  \A n \in 0 .. Len(nodes) : TextsFrom(n, name) \in Seq(Texts)
<1> DEFINE N == Len(nodes)
           V == Seq(Texts)
           T == {k \in Nat : \A m \in 1 .. N : N - m < k => TextsFrom(m, name) \in V}
<1>1. DOMAIN nodes = 1 .. N /\ N \in Nat /\ TextsFrom(0, name) \in V
  BY TreePointers, TextsFromUnfolds, EmptySeq
<1>2. \A m \in 1 .. N : /\ NextSiblingElement(m, name) \in 0 .. N
                        /\ NextSiblingElement(m, name) = 0 \/ NextSiblingElement(m, name) > m
  BY <1>1, ElementsFound
<1>3. \A m \in 1 .. N : TextsFrom(NextSiblingElement(m, name), name) \in V => TextsFrom(m, name) \in V
  <2> SUFFICES ASSUME NEW m \in 1 .. N, TextsFrom(NextSiblingElement(m, name), name) \in V
               PROVE  TextsFrom(m, name) \in V
    OBVIOUS
  <2>1. GetText(m) \in V
    BY <1>1, TextsGot
  <2>2. TextsFrom(m, name) = GetText(m) \o TextsFrom(NextSiblingElement(m, name), name)
    BY <1>1, TextsFromUnfolds
  <2> QED BY <2>1, <2>2, ConcatProperties
<1> HIDE DEF N, V
<1>4. 0 \in T
  BY <1>1
<1>5. ASSUME NEW k \in Nat, k \in T PROVE k + 1 \in T
  <2> SUFFICES ASSUME NEW m \in 1 .. N, N - m < k + 1 PROVE TextsFrom(m, name) \in V
    OBVIOUS
  <2>1. NextSiblingElement(m, name) = 0
          \/ (NextSiblingElement(m, name) \in 1 .. N /\ N - NextSiblingElement(m, name) < k)
    BY <1>1, <1>2
  <2> QED BY <1>1, <1>3, <1>5, <2>1
<1>6. N + 1 \in T
  <2> HIDE DEF T
  <2>1. Nat \subseteq T
    BY <1>4, <1>5, SetInduction
  <2> QED BY <1>1, <2>1
<1>7. \A m \in 1 .. N : N - m < N + 1
  BY <1>1
<1> QED BY <1>1, <1>6, <1>7 DEF N, V

(* Adding changes one list and the result.                                 *)
LEMMA AddingAdds ==
    ASSUME XmlInv, NEW c \in Confs, NEW list \in Lists, NEW section \in 0 .. Len(nodes), NEW name
    PROVE  LET after == Adding(c, list, section, name)
               first == FirstChildElement(section, name)
           IN  /\ after \in Confs
               /\ after.at = c.at
               /\ after.result = (c.result /\ first # 0)
               /\ \A other \in Lists : after.lists[other] =
                    IF other = list THEN c.lists[list] \o TextsFrom(first, name) ELSE c.lists[other]
<1> DEFINE after == Adding(c, list, section, name)
           first == FirstChildElement(section, name)
           texts == TextsFrom(first, name)
           lists == [c.lists EXCEPT ![list] = c.lists[list] \o texts]
<1>1. texts \in Seq(Texts)
  BY ElementsFound, TextsAreTexts
<1>2. c.lists \in [Lists -> Seq(Texts)] /\ c.result \in BOOLEAN
  BY DEF Confs
<1>3. after = [c EXCEPT !.lists = lists, !.result = (c.result /\ first # 0)]
  BY DEF Adding
<1> HIDE DEF texts, after
<1>4. c.lists[list] \o texts \in Seq(Texts)
  BY <1>1, <1>2, ConcatProperties
<1>5. lists \in [Lists -> Seq(Texts)]
  BY <1>2, <1>4
<1>6. \A other \in Lists : lists[other] = IF other = list THEN c.lists[list] \o texts ELSE c.lists[other]
  BY <1>2
<1> HIDE DEF lists
<1>7. /\ after \in Confs
      /\ after.at = c.at
      /\ after.result = (c.result /\ first # 0) /\ after.lists = lists
  BY <1>3, <1>5 DEF Confs
<1> QED BY <1>6, <1>7 DEF after, texts

(* The steps after the file has been parsed.                               *)
LEMMA ReadingKeeps ==
    ASSUME ConfIInv, ReadRecordSetting \/ ReadEvent \/ ReadFeedback \/ ReadEffect
    PROVE  ConfIInv'
<1>1. XmlInv /\ conf \in Confs /\ conf.at # "start" /\ 1 \in DOMAIN nodes
  BY DEF ConfIInv, ReadRecordSetting, ReadEvent, ReadFeedback, ReadEffect
<1>2. XmlInv' /\ written' = written /\ nodes' = nodes
  BY TreeUntouched DEF ConfIInv, ReadRecordSetting, ReadEvent, ReadFeedback, ReadEffect, xml
<1>3. RecordSetting \in 0 .. Len(nodes)
  BY <1>1, RootFound
<1>4. \A name : FirstChildElement(RecordSetting, name) \in 0 .. Len(nodes)
  BY <1>1, <1>3, ElementsFound
<1>5. {"EventType", "FeedbackAttitude", "FeedbackType", "EffectLevel"} = Lists
  BY DEF Lists
(* The place is set in each of these steps, and nothing else than by Adding.*)
<1>6. ASSUME NEW c \in Confs, NEW at \in {"feedback", "effect", "accepted", "refused"}
      PROVE  LET d == [c EXCEPT !.at = at]
             IN  d \in Confs /\ d.at = at
  BY DEF Confs
<1>7. conf' \in Confs /\ conf'.at # "start"
  <2>1. CASE ReadRecordSetting
    <3>1. NoLists \in [Lists -> Seq(Texts)]
      BY EmptySeq DEF NoLists
    <3>2. CASE conf' = [conf EXCEPT !.at = "refused"]
      BY <1>1, <1>6, <3>2
    <3>3. CASE conf' = [conf EXCEPT !.at = "event", !.lists = NoLists, !.result = TRUE]
      BY <1>1, <3>1, <3>3 DEF Confs
    <3> QED BY <2>1, <3>2, <3>3 DEF ReadRecordSetting
  <2>2. CASE ReadEvent
    <3> DEFINE c == Adding(conf, "EventType", FirstChildElement(RecordSetting, "Event"), "Type")
    <3>1. c \in Confs
      BY <1>1, <1>4, <1>5, AddingAdds
    <3>2. conf' = [c EXCEPT !.at = "feedback"]
      BY <2>2 DEF ReadEvent
    <3> HIDE DEF c
    <3> QED BY <1>6, <3>1, <3>2
  <2>3. CASE ReadFeedback
    <3> DEFINE feedback == FirstChildElement(RecordSetting, "Feedback")
               c == Adding(conf, "FeedbackAttitude", feedback, "Attitude")
               d == Adding(c, "FeedbackType", feedback, "Type")
    <3>1. c \in Confs
      BY <1>1, <1>4, <1>5, AddingAdds
    <3>2. d \in Confs
      <4> HIDE DEF c
      <4> QED BY <1>1, <1>4, <1>5, <3>1, AddingAdds
    <3>3. conf' = [c EXCEPT !.at = "effect"] \/ conf' = [d EXCEPT !.at = "effect"]
      BY <2>3 DEF ReadFeedback
    <3> HIDE DEF c, d
    <3>4. CASE conf' = [c EXCEPT !.at = "effect"]
      BY <1>6, <3>1, <3>4
    <3>5. CASE conf' = [d EXCEPT !.at = "effect"]
      BY <1>6, <3>2, <3>5
    <3> QED BY <3>3, <3>4, <3>5
  <2>4. CASE ReadEffect
    <3> DEFINE c == Adding(conf, "EffectLevel", FirstChildElement(RecordSetting, "Effect"), "Level")
    <3>1. c \in Confs
      BY <1>1, <1>4, <1>5, AddingAdds
    <3>2. conf' = [c EXCEPT !.at = "accepted"] \/ conf' = [c EXCEPT !.at = "refused"]
      BY <2>4 DEF ReadEffect
    <3> HIDE DEF c
    <3>3. CASE conf' = [c EXCEPT !.at = "accepted"]
      BY <1>6, <3>1, <3>3
    <3>4. CASE conf' = [c EXCEPT !.at = "refused"]
      BY <1>6, <3>1, <3>4
    <3> QED BY <3>2, <3>3, <3>4
  <2> QED BY <2>1, <2>2, <2>3, <2>4
<1> QED BY <1>1, <1>2, <1>7 DEF ConfIInv

(* Every step of Initialize keeps the invariant.                           *)
LEMMA ConfNextKeeps ==
    ASSUME ConfIInv, ConfNext \/ UNCHANGED vars
    PROVE  ConfIInv'
<1>1. CASE Initialize
  <2>1. XmlInv'
    BY <1>1, LoadKeeps DEF Initialize, ConfIInv
  <2>2. 1 \in DOMAIN nodes'
    BY <1>1 DEF Initialize, Load, LoadFile, NoFile
  <2>3. conf' \in Confs /\ conf'.at = "parsing"
    BY <1>1 DEF Initialize, ConfIInv, Confs
  <2> QED BY <1>1, <2>1, <2>2, <2>3 DEF Initialize, ConfIInv
<1>2. CASE Parsing
  <2>1. XmlInv' /\ 1 \in DOMAIN nodes'
    BY <1>2, ParseKeeps, ParseKeepsDocument DEF Parsing, ConfIInv
  <2> QED BY <1>2, <2>1 DEF Parsing, ConfIInv
<1>3. CASE ReadRecordSetting \/ ReadEvent \/ ReadFeedback \/ ReadEffect
  BY <1>3, ReadingKeeps
<1>4. CASE UNCHANGED vars
  BY <1>4, TreeUntouched DEF ConfIInv, vars, xml
<1> QED BY <1>1, <1>2, <1>3, <1>4 DEF ConfNext

(* ConfIInv holds whatever is in the file and wherever it ends.            *)
THEOREM ConfInvariance == ConfSpec => []ConfIInv
<1>1. ConfInit => ConfIInv
  BY ConfInitHolds
<1>2. ConfIInv /\ [ConfNext]_vars => ConfIInv'
  BY ConfNextKeeps
<1> QED BY <1>1, <1>2, PTL DEF ConfSpec

(* The pointers of the tree always are NULL or those of nodes, and         *)
(* the children of every node are one list from both ends, wherever the    *)
(* text ends and whatever functions of the parser return early.            *)
THEOREM AlwaysLinked == ConfSpec => []ChildrenLinked
<1>1. ConfIInv => ChildrenLinked
  BY DEF ConfIInv, XmlInv, Chained, ChildrenLinked
<1> QED BY <1>1, ConfInvariance, PTL

(* The variables of the parser and of CConfigData keep their types, and no *)
(* blank text is ever listed.                                              *)
THEOREM AlwaysTyped == ConfSpec => []TypeOK
<1>1. ConfIInv => TypeOK
  BY DEF ConfIInv, XmlInv, TypeOK
<1> QED BY <1>1, ConfInvariance, PTL

(* Every call of a Parse function goes forward in the text or returns to   *)
(* its caller: none is repeated forever, wherever the text ends.           *)
THEOREM AlwaysAdvances == ConfSpec => ParserAdvances
<1>1. ConfIInv => [Parsing => Progress' > Progress]_vars
  BY ParseAdvances DEF ConfIInv, Parsing
<1> QED BY <1>1, ConfInvariance, PTL DEF ParserAdvances

-----------------------------------------------------------------------------
(* What is found in the tree of a well-formed text is what is in the text  *)

(* The parser has returned from this text; at is where each node is in it. *)
IsRead(text, inside, at) ==
    /\ XmlInv
    /\ frames = <<>>
    /\ 1 \in DOMAIN nodes
    /\ text \in Seq(Lexemes)
    /\ TreeTracks(nodes, text, inside, at, Len(text) + 1)

(* Where this node is in the text; zero is NULL for both.                  *)
PlaceOf(n, at) == IF n = 0 THEN 0 ELSE at[n]

(* The nodes have places in the text that are in their order.              *)
LEMMA PlacesInOrder ==
    ASSUME NEW text, NEW inside, NEW at, IsRead(text, inside, at)
    PROVE  /\ Linked = DOMAIN nodes \ {1} /\ DOMAIN nodes \subseteq Nat /\ 0 \notin DOMAIN nodes
           /\ \A n \in DOMAIN nodes : at[n] \in Nat
           /\ at[1] = 0
           /\ \A n \in DOMAIN nodes \ {1} : at[n] \in DOMAIN text /\ at[n] # 0
           /\ \A m, n \in DOMAIN nodes : m < n <=> at[m] < at[n]
           /\ \A m, n \in DOMAIN nodes : at[m] = at[n] => m = n
<1>1. DOMAIN text = 1 .. Len(text) /\ Len(text) \in Nat
  BY LenProperties DEF IsRead
<1>2. DOMAIN nodes = 1 .. Len(nodes) /\ Len(nodes) \in Nat /\ 1 \in DOMAIN nodes
  BY TreePointers DEF IsRead
<1>3. Linked = DOMAIN nodes \ {1}
  <2>1. DOMAIN frames = {}
    BY DEF IsRead
  <2> QED BY <2>1 DEF Linked
<1>4. /\ at \in [DOMAIN nodes -> 0 .. (Len(text) + 1) - 1] /\ at[1] = 0
      /\ \A m, n \in DOMAIN nodes : m < n => at[m] < at[n]
  BY DEF IsRead, TreeTracks
<1>5. \A n \in DOMAIN nodes : n \in Nat /\ at[n] \in Nat /\ at[n] <= Len(text)
  BY <1>1, <1>2, <1>4
<1>6. ASSUME NEW n \in DOMAIN nodes \ {1} PROVE at[n] \in DOMAIN text /\ at[n] # 0
  <2>1. at[1] < at[n]
    BY <1>2, <1>4
  <2> QED BY <1>1, <1>4, <1>5, <2>1
<1>7. ASSUME NEW m \in DOMAIN nodes, NEW n \in DOMAIN nodes
      PROVE  (m < n <=> at[m] < at[n]) /\ (at[m] = at[n] => m = n)
  <2>1. (m < n => at[m] < at[n]) /\ (n < m => at[n] < at[m])
    BY <1>4
  <2>2. m \in Nat /\ n \in Nat /\ at[m] \in Nat /\ at[n] \in Nat
    BY <1>5
  <2> QED BY <2>1, <2>2
<1>8. DOMAIN nodes \subseteq Nat /\ 0 \notin DOMAIN nodes
  BY <1>2
<1> QED BY <1>3, <1>4, <1>5, <1>6, <1>7, <1>8

(* The first of some nodes is the one at the first of their places.        *)
LEMMA FirstPlace ==
    ASSUME NEW text, NEW inside, NEW at, IsRead(text, inside, at),
           NEW S \in SUBSET DOMAIN nodes
    PROVE  FirstOf({at[n] : n \in S}) = PlaceOf(FirstOf(S), at)
<1>1. S \subseteq Nat /\ 0 \notin S /\ \A n \in S : at[n] \in Nat
  BY PlacesInOrder
<1>2. {at[n] : n \in S} \subseteq Nat
  BY <1>1
<1>3. CASE S = {}
  <2>1. FirstOf(S) = 0 /\ {at[n] : n \in S} = {}
    BY <1>1, <1>3, FirstOfSet
  <2> QED BY <2>1 DEF FirstOf, PlaceOf
<1>4. CASE S # {}
  <2>1. FirstOf(S) \in S /\ \A n \in S : FirstOf(S) <= n
    BY <1>1, <1>4, FirstOfSet
  <2> DEFINE a == FirstOf(S)
             L == {at[n] : n \in S}
  <2>2. a \in S /\ \A n \in S : a <= n
    BY <2>1
  <2> HIDE DEF a
  <2>3. ASSUME NEW n \in S PROVE at[a] <= at[n]
    <3>1. ~ (at[n] < at[a])
      <4>1. ~ (n < a)
        BY <1>1, <2>2
      <4> QED BY <2>2, <4>1, PlacesInOrder
    <3>2. at[n] \in Nat /\ at[a] \in Nat
      BY <1>1, <2>2
    <3> QED BY <3>1, <3>2
  <2>4. at[a] \in L /\ L \subseteq Nat /\ \A x \in L : at[a] <= x
    BY <1>2, <2>2, <2>3
  <2> HIDE DEF L
  <2>5. FirstOf(L) = at[a]
    BY <2>4, FirstOfSet
  <2>6. PlaceOf(a, at) = at[a]
    BY <1>1, <2>2 DEF PlaceOf
  <2> QED BY <2>5, <2>6 DEF L, a
<1> QED BY <1>3, <1>4

(* The children of a node are what the text makes in its content.          *)
LEMMA ChildrenPlaces ==
    ASSUME NEW text, NEW inside, NEW at, IsRead(text, inside, at), NEW p \in DOMAIN nodes
    PROVE  /\ {at[n] : n \in ChildrenOf(p)} = {i \in DOMAIN text : inside[i] = at[p] /\ Makes(text[i])}
           /\ \A n \in ChildrenOf(p) : /\ n \in DOMAIN nodes \ {1} /\ at[n] \in DOMAIN text
                                       /\ inside[at[n]] = at[p]
                                       /\ Makes(text[at[n]]) /\ MadeFrom(nodes[n], text[at[n]])
<1>1. ASSUME NEW n \in ChildrenOf(p)
      PROVE  /\ n \in DOMAIN nodes \ {1} /\ at[n] \in DOMAIN text
             /\ inside[at[n]] = at[p]
             /\ Makes(text[at[n]]) /\ MadeFrom(nodes[n], text[at[n]])
  <2>1. n \in DOMAIN nodes \ {1} /\ nodes[n].parent = p
    BY PlacesInOrder DEF ChildrenOf
  <2>2. at[n] \in DOMAIN text
    BY <2>1, PlacesInOrder
  <2> QED BY <2>1, <2>2 DEF IsRead, TreeTracks
<1>2. ASSUME NEW i \in DOMAIN text, inside[i] = at[p], Makes(text[i])
      PROVE  \E n \in ChildrenOf(p) : at[n] = i
  <2>1. DOMAIN text = 1 .. Len(text) /\ Len(text) \in Nat
    BY LenProperties DEF IsRead
  <2>2. i \in 1 .. (Len(text) + 1) - 1 /\ i # 0
    BY <2>1
  <2>3. PICK n \in DOMAIN nodes : at[n] = i
    BY <1>2, <2>2 DEF IsRead, TreeTracks
  <2>4. n # 1
    BY <2>2, <2>3, PlacesInOrder
  <2>5. nodes[n].parent \in DOMAIN nodes /\ at[nodes[n].parent] = at[p]
    BY <1>2, <2>3, <2>4 DEF IsRead, TreeTracks
  <2>6. nodes[n].parent = p
    BY <2>5, PlacesInOrder
  <2>7. n \in Linked
    BY <2>3, <2>4, PlacesInOrder
  <2> QED BY <2>3, <2>6, <2>7 DEF ChildrenOf
<1> QED BY <1>1, <1>2

(* The lexeme of a name and a kind.                                        *)
LEMMA OpenLexeme ==
    ASSUME NEW lexeme \in Lexemes, lexeme.kind = "open"
    PROVE  lexeme = [kind |-> "open", value |-> lexeme.value]
BY DEF Lexemes, Named, Verbatim, Others

(* These are the places of these nodes.                                    *)
ArePlaces(L, S, at) == (\A n \in S : at[n] \in L) /\ (\A i \in L : \E n \in S : at[n] = i)

(* Its elements of a name are the elements of the name in its content.     *)
LEMMA ElementPlaces ==
    ASSUME NEW text, NEW inside, NEW at, IsRead(text, inside, at),
           NEW p \in DOMAIN nodes, p # 1, NEW name
    PROVE  ArePlaces(ElementsIn(text, inside, at[p], name), ChildrenOf(p) \cap ElementsOf(name), at)
<1>1. at[p] # 0
  BY PlacesInOrder
<1>2. ASSUME NEW n \in ChildrenOf(p) \cap ElementsOf(name)
      PROVE  at[n] \in ElementsIn(text, inside, at[p], name)
  <2>1. /\ at[n] \in DOMAIN text /\ inside[at[n]] = at[p] /\ MadeFrom(nodes[n], text[at[n]])
        /\ nodes[n].type = "ELEMENT" /\ nodes[n].value = name
    BY <1>2, ChildrenPlaces DEF ElementsOf
  <2>2. text[at[n]].kind = "open" /\ text[at[n]].value = name
    BY <2>1 DEF MadeFrom, TypeOf
  <2>3. text[at[n]] \in Lexemes
    BY <2>1, ElementOfSeq, LenProperties DEF IsRead
  <2>4. text[at[n]] = [kind |-> "open", value |-> name]
    BY <2>2, <2>3, OpenLexeme
  <2> QED BY <1>1, <2>1, <2>4 DEF ElementsIn
<1>3. ASSUME NEW i \in ElementsIn(text, inside, at[p], name)
      PROVE  \E n \in ChildrenOf(p) \cap ElementsOf(name) : at[n] = i
  <2>1. i \in DOMAIN text /\ inside[i] = at[p] /\ text[i].kind = "open" /\ text[i].value = name
    BY <1>3 DEF ElementsIn
  <2>2. Makes(text[i])
    BY <2>1 DEF Makes
  <2>3. PICK n \in ChildrenOf(p) : at[n] = i
    BY <2>1, <2>2, ChildrenPlaces
  <2>4. n \in DOMAIN nodes /\ MadeFrom(nodes[n], text[i])
    BY <2>3, ChildrenPlaces
  <2>5. n \in ElementsOf(name)
    BY <2>1, <2>4 DEF MadeFrom, TypeOf, ElementsOf
  <2> QED BY <2>3, <2>5
<1> QED BY <1>2, <1>3 DEF ArePlaces

(* RootElement is the first element outside of all elements.               *)
LEMMA RootPlace ==
    ASSUME NEW text, NEW inside, NEW at, IsRead(text, inside, at)
    PROVE  /\ PlaceOf(RootElement, at) = Root(text, inside)
           /\ RootElement = 0 \/ RootElement \in DOMAIN nodes \ {1}
<1> DEFINE S == ChildrenOf(1) \cap AllElements
           L == {i \in DOMAIN text : inside[i] = 0 /\ text[i].kind = "open"}
<1>1. 1 \in DOMAIN nodes /\ XmlInv /\ at[1] = 0
  BY PlacesInOrder DEF IsRead
<1>2. S \in SUBSET DOMAIN nodes /\ S \subseteq Nat /\ 1 \notin S
  BY PlacesInOrder DEF ChildrenOf, AllElements
<1>3. RootElement = FirstOf(S)
  <2>1. PICK t : Walk(t, AllElements) /\ RootElement = t[nodes[1].first]
    BY <1>1, RootElementWalks
  <2> QED BY <1>1, <2>1, WalkFinds
<1>4. {at[n] : n \in S} = L
  <2>1. ASSUME NEW n \in S PROVE at[n] \in L
    <3>1. /\ at[n] \in DOMAIN text /\ inside[at[n]] = 0 /\ MadeFrom(nodes[n], text[at[n]])
          /\ nodes[n].type = "ELEMENT"
      BY <1>1, ChildrenPlaces DEF AllElements
    <3> QED BY <3>1 DEF MadeFrom, TypeOf
  <2>2. ASSUME NEW i \in L PROVE \E n \in S : at[n] = i
    <3>1. Makes(text[i])
      BY DEF Makes
    <3>2. PICK n \in ChildrenOf(1) : at[n] = i
      BY <1>1, <3>1, ChildrenPlaces
    <3>3. n \in DOMAIN nodes /\ MadeFrom(nodes[n], text[i])
      BY <1>1, <3>2, ChildrenPlaces
    <3>4. n \in AllElements
      BY <3>3 DEF MadeFrom, TypeOf, AllElements
    <3> QED BY <3>2, <3>4
  <2> QED BY <2>1, <2>2
<1>5. Root(text, inside) = FirstOf(L)
  BY DEF Root
<1> HIDE DEF S, L
<1>6. FirstOf({at[n] : n \in S}) = PlaceOf(FirstOf(S), at)
  BY <1>2, FirstPlace
<1>7. FirstOf(S) = 0 \/ FirstOf(S) \in S
  BY <1>2, FirstOfSet
<1> QED BY <1>2, <1>3, <1>4, <1>5, <1>6, <1>7

(* FirstChildElement and NextSiblingElement go through the elements of the *)
(* name in their order.                                                    *)
LEMMA SiblingsInOrder ==
    ASSUME XmlInv, NEW p \in DOMAIN nodes, NEW name
    PROVE  /\ FirstChildElement(p, name) = FirstOf(ChildrenOf(p) \cap ElementsOf(name))
           /\ \A m \in ChildrenOf(p) :
                NextSiblingElement(m, name) = FirstOf({k \in ChildrenOf(p) \cap ElementsOf(name) : k > m})
<1>1. PICK t : Walk(t, ElementsOf(name)) /\ \A n : ElementFrom(n, name) = t[n]
  BY ElementFromWalks
<1>2. p # 0
  BY TreePointers
<1>3. /\ t[nodes[p].first] = FirstOf(ChildrenOf(p) \cap ElementsOf(name))
      /\ \A m \in ChildrenOf(p) :
           t[nodes[m].next] = FirstOf({k \in ChildrenOf(p) \cap ElementsOf(name) : k > m})
  <2>1. PICK S : S = ElementsOf(name)
    OBVIOUS
  <2>2. Walk(t, S)
    BY <1>1, <2>1
  <2>3. /\ t[nodes[p].first] = FirstOf(ChildrenOf(p) \cap S)
        /\ \A m \in ChildrenOf(p) :
             t[nodes[m].next] = FirstOf({k \in ChildrenOf(p) \cap S : k > m})
    BY ONLY <2>2, XmlInv, p \in DOMAIN nodes, WalkFinds
  <2> QED BY <2>1, <2>3
<1> QED BY <1>1, <1>2, <1>3 DEF FirstChildElement, NextSiblingElement

(* FirstChildElement finds the first element of the name in the content.   *)
LEMMA FirstChildPlace ==
    ASSUME NEW text, NEW inside, NEW at, IsRead(text, inside, at),
           NEW p, p = 0 \/ p \in DOMAIN nodes \ {1}, NEW name
    PROVE  /\ PlaceOf(FirstChildElement(p, name), at) = FirstIn(text, inside, PlaceOf(p, at), name)
           /\ \/ FirstChildElement(p, name) = 0
              \/ FirstChildElement(p, name) \in DOMAIN nodes \ {1}
<1> DEFINE S == ChildrenOf(p) \cap ElementsOf(name)
<1>1. CASE p = 0
  <2>1. FirstChildElement(p, name) = 0
    BY <1>1 DEF FirstChildElement
  <2>2. ElementsIn(text, inside, PlaceOf(p, at), name) = {}
    BY <1>1 DEF PlaceOf, ElementsIn
  <2> QED BY <2>1, <2>2 DEF PlaceOf, FirstIn, FirstOf
<1>2. CASE p # 0
  <2>1. p \in DOMAIN nodes \ {1} /\ PlaceOf(p, at) = at[p] /\ XmlInv
    BY <1>2 DEF PlaceOf, IsRead
  <2>2. S \in SUBSET DOMAIN nodes /\ S \subseteq Nat /\ 1 \notin S
    BY PlacesInOrder DEF ChildrenOf, ElementsOf
  <2>3. FirstChildElement(p, name) = FirstOf(S)
    BY <2>1, SiblingsInOrder
  <2>4. {at[n] : n \in S} = ElementsIn(text, inside, at[p], name)
    <3>1. p \in DOMAIN nodes /\ p # 1
      BY <2>1
    <3>2. ArePlaces(ElementsIn(text, inside, at[p], name), S, at)
      BY <3>1, ElementPlaces
    <3> HIDE DEF S
    <3> QED BY <3>2 DEF ArePlaces
  <2> HIDE DEF S
  <2>5. FirstOf({at[n] : n \in S}) = PlaceOf(FirstOf(S), at)
    BY <2>2, FirstPlace
  <2>6. FirstOf(S) = 0 \/ FirstOf(S) \in S
    BY <2>2, FirstOfSet
  <2> QED BY <2>1, <2>2, <2>3, <2>4, <2>5, <2>6 DEF FirstIn
<1> QED BY <1>1, <1>2

(* GetText finds the text of an element.                                   *)
LEMMA TextPlace ==
    ASSUME NEW text, NEW inside, NEW at, IsRead(text, inside, at), NEW n \in DOMAIN nodes
    PROVE  GetText(n) = IF TextIn(text, inside, at[n]) = Blank THEN <<>> ELSE <<TextIn(text, inside, at[n])>>
<1> DEFINE S == ChildrenOf(n)
           L == {j \in DOMAIN text : inside[j] = at[n] /\ Makes(text[j])}
           c == FirstOf(S)
<1>1. nodes[n].first = c
  BY ChildrenInOrder DEF IsRead
<1>2. S \in SUBSET DOMAIN nodes /\ S \subseteq Nat /\ 0 \notin S
  BY PlacesInOrder DEF ChildrenOf
<1>3. {at[m] : m \in S} = L
  BY ChildrenPlaces
<1> HIDE DEF S
<1>4. FirstOf(L) = PlaceOf(c, at)
  BY <1>2, <1>3, FirstPlace
<1>5. c = 0 \/ c \in S
  BY <1>2, FirstOfSet
<1>6. TextIn(text, inside, at[n]) =
        IF FirstOf(L) # 0 /\ text[FirstOf(L)].kind \in {"text", "cdata"} THEN text[FirstOf(L)].value ELSE Blank
  BY DEF TextIn
<1> HIDE DEF L, c
<1>7. CASE c = 0
  BY <1>1, <1>4, <1>6, <1>7 DEF GetText, PlaceOf
<1>8. CASE c # 0
  <2>1. /\ c \in S /\ FirstOf(L) = at[c]
        /\ at[c] \in DOMAIN text /\ at[c] # 0 /\ Makes(text[at[c]]) /\ MadeFrom(nodes[c], text[at[c]])
    <3>1. c \in S /\ FirstOf(L) = at[c]
      BY <1>4, <1>5, <1>8 DEF PlaceOf
    <3> QED BY <3>1, ChildrenPlaces, PlacesInOrder DEF S
  <2>2. text[at[c]] \in Lexemes
    BY <2>1, ElementOfSeq, LenProperties DEF IsRead
  <2>3. nodes[c].type = "TEXT" <=> text[at[c]].kind \in {"text", "cdata"}
    BY <2>1 DEF MadeFrom, TypeOf
  <2>4. text[at[c]].kind \in {"text", "cdata"} =>
          nodes[c].value = text[at[c]].value /\ text[at[c]].value # Blank
    <3>1. text[at[c]].kind = "text" => text[at[c]].value # Blank
      BY <2>1 DEF Makes
    <3>2. text[at[c]].kind = "cdata" => text[at[c]].value \in Texts
      BY <2>2 DEF Lexemes, Named, Verbatim, Others
    <3> QED BY <2>1, <2>3, <3>1, <3>2, BlankAssumption DEF MadeFrom
  <2> QED BY <1>1, <1>6, <1>8, <2>1, <2>3, <2>4 DEF GetText
<1> QED BY <1>7, <1>8

-----------------------------------------------------------------------------
(* The lists that are read                                                 *)

(* What one element adds to its list.                                      *)
Adds(text) == IF text = Blank THEN <<>> ELSE <<text>>

(* Listed puts together what the elements add.                             *)
LEMMA ListedUnfolds ==
    ASSUME NEW texts \in Seq(Texts \cup {Blank})
    PROVE  \E listed :
             /\ listed \in [0 .. Len(texts) -> Seq(Texts)]
             /\ listed[0] = <<>>
             /\ \A k \in 1 .. Len(texts) : listed[k] = listed[k - 1] \o Adds(texts[k])
             /\ Promise!Listed(texts) = listed[Len(texts)]
<1> DEFINE N == Len(texts)
           V == Seq(Texts)
           body(t) == [n \in 0 .. N |->
                         IF n = 0 THEN <<>>
                         ELSE IF texts[n] = Blank THEN t[n - 1] ELSE Append(t[n - 1], texts[n])]
           t == CHOOSE t : t = body(t)
           next == [m \in 1 .. N |-> m - 1]
           depth == [m \in 1 .. N |-> m]
           step == [x \in (1 .. N) \X V |->
                      IF texts[x[1]] = Blank THEN x[2] ELSE Append(x[2], texts[x[1]])]
<1>1. N \in Nat /\ \A m \in 1 .. N : texts[m] \in Texts \cup {Blank}
  BY LenProperties, ElementOfSeq
<1>2. Promise!Listed(texts) = t[N]
  BY DEF Promise!Listed
<1> HIDE DEF N
<1>3. ASSUME NEW m \in 1 .. N, NEW s \in V
      PROVE  (IF texts[m] = Blank THEN s ELSE Append(s, texts[m])) \in V
  <2>1. texts[m] = Blank \/ texts[m] \in Texts
    BY <1>1
  <2> QED BY <2>1, AppendProperties
<1>4. step \in [(1 .. N) \X V -> V]
  <2>1. ASSUME NEW x \in (1 .. N) \X V
        PROVE  (IF texts[x[1]] = Blank THEN x[2] ELSE Append(x[2], texts[x[1]])) \in V
    <3>1. x[1] \in 1 .. N /\ x[2] \in V
      OBVIOUS
    <3> HIDE DEF V
    <3> QED BY <1>3, <3>1
  <2> HIDE DEF V
  <2> QED BY <2>1
<1>5. IsRecursion(N, V, <<>>, next, step, depth)
  <2>1. next \in [1 .. N -> 0 .. N] /\ depth \in [1 .. N -> 0 .. N]
    BY <1>1
  <2>2. \A m \in 1 .. N : next[m] = 0 \/ depth[next[m]] < depth[m]
    BY <1>1
  <2>3. <<>> \in V
    BY EmptySeq
  <2> HIDE DEF next, step, depth, V
  <2> QED BY <1>1, <1>4, <2>1, <2>2, <2>3 DEF IsRecursion
<1>6. PICK f \in [0 .. N -> V] : f[0] = <<>> /\ \A m \in 1 .. N : f[m] = step[<<m, f[next[m]]>>]
  <2> HIDE DEF next, step, depth, V
  <2> QED BY <1>5, Recursion
<1>7. ASSUME NEW m \in 1 .. N
      PROVE  f[m] = IF texts[m] = Blank THEN f[m - 1] ELSE Append(f[m - 1], texts[m])
  <2>1. next[m] = m - 1 /\ f[m - 1] \in V
    BY <1>1, <1>6
  <2>2. <<m, f[m - 1]>> \in (1 .. N) \X V
    BY <2>1
  <2> HIDE DEF next
  <2>3. step[<<m, f[m - 1]>>] = IF texts[m] = Blank THEN f[m - 1] ELSE Append(f[m - 1], texts[m])
    BY <2>2
  <2> HIDE DEF step
  <2> QED BY <1>6, <2>1, <2>3
<1>8. f = body(f)
  <2>1. \A m \in 0 .. N : m = 0 \/ m \in 1 .. N
    BY <1>1
  <2> HIDE DEF step, next, V
  <2> QED BY <1>6, <1>7, <2>1
<1>9. t = body(t)
  <2> HIDE DEF body
  <2> QED BY <1>8
<1> HIDE DEF step, next, depth, t
<1>10. /\ DOMAIN t = 0 .. N /\ t[0] = <<>>
       /\ \A m \in 1 .. N : t[m] = IF texts[m] = Blank THEN t[m - 1] ELSE Append(t[m - 1], texts[m])
  <2>1. 0 \in 0 .. N /\ \A m \in 1 .. N : m \in 0 .. N /\ m # 0
    BY <1>1
  <2>2. DOMAIN t = DOMAIN body(t) /\ \A m \in 0 .. N : t[m] = body(t)[m]
    <3> HIDE DEF body
    <3> QED BY <1>9
  <2> QED BY <2>1, <2>2
<1> HIDE DEF body, V
<1>11. \A k \in Nat : k \in 0 .. N => t[k] \in V
  <2> DEFINE T == {k \in Nat : k \in 0 .. N => t[k] \in V}
  <2>1. 0 \in T
    BY <1>10, EmptySeq DEF V
  <2>2. ASSUME NEW k \in Nat, k \in T PROVE k + 1 \in T
    <3> SUFFICES ASSUME k + 1 \in 0 .. N PROVE t[k + 1] \in V
      OBVIOUS
    <3>1. k + 1 \in 1 .. N /\ (k + 1) - 1 = k /\ t[k] \in V
      BY <1>1, <2>2
    <3> QED BY <1>3, <1>10, <3>1
  <2>3. Nat \subseteq T
    <3> HIDE DEF T
    <3> QED BY <2>1, <2>2, SetInduction
  <2> QED BY <2>3
<1>12. t \in [0 .. N -> V]
  <2>1. \A k \in 0 .. N : k \in Nat /\ t[k] \in V
    BY <1>1, <1>11
  <2>2. t = [k \in 0 .. N |-> t[k]]
    BY <1>9, <1>10 DEF body
  <2> QED BY <2>1, <2>2
<1>13. \A k \in 1 .. N : t[k] = t[k - 1] \o Adds(texts[k])
  <2> SUFFICES ASSUME NEW k \in 1 .. N PROVE t[k] = t[k - 1] \o Adds(texts[k])
    OBVIOUS
  <2>1. t[k - 1] \in Seq(Texts)
    BY <1>1, <1>12 DEF V
  <2>2. CASE texts[k] = Blank
    <3>1. t[k - 1] \o <<>> = t[k - 1]
      BY <2>1, ConcatEmptySeq
    <3> QED BY <1>10, <2>2, <3>1 DEF Adds
  <2>3. CASE texts[k] # Blank
    <3>1. texts[k] \in Texts
      BY <1>1, <2>3
    <3>2. Append(t[k - 1], texts[k]) = t[k - 1] \o <<texts[k]>>
      BY <2>1, <3>1, AppendIsConcat
    <3> QED BY <1>10, <2>3, <3>2 DEF Adds
  <2> QED BY <2>2, <2>3
<1> QED BY <1>2, <1>10, <1>12, <1>13 DEF N, V

(* s has all numbers of S in their order.                                  *)
InOrder(S, K, s) ==
    /\ S \subseteq Nat
    /\ K \in Nat
    /\ s \in [1 .. K -> S]
    /\ \A k, l \in 1 .. K : k < l => s[k] < s[l]
    /\ \A x \in S : \E k \in 1 .. K : s[k] = x

(* So the number after each is the next one of s.                          *)
LEMMA NextInOrder ==
    ASSUME NEW S, NEW K, NEW s, InOrder(S, K, s)
    PROVE  /\ FirstOf(S) = IF K = 0 THEN 0 ELSE s[1]
           /\ \A k \in 1 .. K : FirstOf({x \in S : x > s[k]}) = IF k = K THEN 0 ELSE s[k + 1]
<1> USE DEF InOrder
<1>1. ASSUME NEW k \in 1 .. K, NEW l \in 1 .. K, k <= l PROVE s[k] <= s[l]
  <2>1. k = l \/ k < l
    BY <1>1
  <2>2. s[k] \in Nat /\ s[l] \in Nat
    OBVIOUS
  <2> QED BY <2>1, <2>2
<1>2. FirstOf(S) = IF K = 0 THEN 0 ELSE s[1]
  <2>1. CASE K = 0
    <3>1. S = {}
      BY <2>1
    <3> QED BY <2>1, <3>1 DEF FirstOf
  <2>2. CASE K # 0
    <3>1. 1 \in 1 .. K /\ s[1] \in S
      BY <2>2
    <3>2. ASSUME NEW x \in S PROVE s[1] <= x
      <4>1. PICK k \in 1 .. K : s[k] = x
        OBVIOUS
      <4> QED BY <1>1, <3>1, <4>1
    <3> QED BY <2>2, <3>1, <3>2, FirstOfSet
  <2> QED BY <2>1, <2>2
<1>3. ASSUME NEW k \in 1 .. K
      PROVE  FirstOf({x \in S : x > s[k]}) = IF k = K THEN 0 ELSE s[k + 1]
  <2> DEFINE R == {x \in S : x > s[k]}
  <2>1. R \subseteq Nat /\ s[k] \in Nat
    OBVIOUS
  <2>2. ASSUME NEW x \in R PROVE \E l \in 1 .. K : s[l] = x /\ k < l
    <3>1. PICK l \in 1 .. K : s[l] = x
      OBVIOUS
    <3>2. ~ (l <= k)
      <4>1. ~ (x <= s[k])
        BY <2>1
      <4> QED BY <1>1, <3>1, <4>1
    <3> QED BY <3>1, <3>2
  <2>3. CASE k = K
    <3>1. ASSUME NEW x \in R PROVE FALSE
      <4>1. PICK l \in 1 .. K : k < l
        BY <2>2
      <4> QED BY <2>3, <4>1
    <3>2. R = {}
      BY <3>1
    <3> HIDE DEF R
    <3>3. FirstOf(R) = 0
      BY <3>2 DEF FirstOf
    <3> QED BY <2>3, <3>3 DEF R
  <2>4. CASE k # K
    <3>1. k + 1 \in 1 .. K /\ k < k + 1
      BY <2>4
    <3>2. s[k + 1] \in R
      BY <3>1
    <3>3. ASSUME NEW x \in R PROVE s[k + 1] <= x
      <4>1. PICK l \in 1 .. K : s[l] = x /\ k < l
        BY <2>2
      <4>2. k + 1 <= l
        BY <4>1
      <4> QED BY <1>1, <3>1, <4>1, <4>2
    <3> HIDE DEF R
    <3>4. FirstOf(R) = s[k + 1]
      BY <2>1, <3>2, <3>3, FirstOfSet
    <3> QED BY <2>4, <3>4 DEF R
  <2> QED BY <2>3, <2>4
<1> QED BY <1>2, <1>3

(* Going through elements in their order puts their texts together.        *)
LEMMA TextsInOrder ==
    ASSUME XmlInv, NEW name, NEW texts \in Seq(Texts \cup {Blank}),
           NEW s \in [1 .. Len(texts) -> DOMAIN nodes],
           \A k \in 1 .. Len(texts) :
             /\ GetText(s[k]) = Adds(texts[k])
             /\ NextSiblingElement(s[k], name) = IF k = Len(texts) THEN 0 ELSE s[k + 1]
    PROVE  TextsFrom(IF texts = <<>> THEN 0 ELSE s[1], name) = Promise!Listed(texts)
<1> DEFINE K == Len(texts)
           from(k) == IF k = K THEN 0 ELSE s[k + 1]
<1>1. K \in Nat /\ (texts = <<>> <=> K = 0)
  BY LenProperties, EmptySeq
<1>2. PICK listed :
        /\ listed \in [0 .. K -> Seq(Texts)]
        /\ listed[0] = <<>>
        /\ \A k \in 1 .. K : listed[k] = listed[k - 1] \o Adds(texts[k])
        /\ Promise!Listed(texts) = listed[K]
  BY ListedUnfolds
<1> HIDE DEF K
<1> DEFINE Together(k) == listed[k] \o TextsFrom(from(k), name) = listed[K]
           T == {j \in Nat : j <= K => Together(K - j)}
<1>3. 0 \in T
  <2>1. TextsFrom(from(K), name) = <<>>
    BY TextsFromUnfolds
  <2>2. listed[K] \in Seq(Texts) /\ K - 0 = K
    BY <1>1, <1>2
  <2> HIDE DEF from
  <2>3. listed[K] \o <<>> = listed[K]
    BY <2>2, ConcatEmptySeq
  <2>4. Together(K)
    BY <2>1, <2>3
  <2> HIDE DEF Together
  <2> QED BY <2>2, <2>4
<1>4. ASSUME NEW j \in Nat, j \in T PROVE j + 1 \in T
  <2> HIDE DEF from, Together
  <2> SUFFICES ASSUME j + 1 <= K PROVE Together(K - (j + 1))
    OBVIOUS
  <2> DEFINE k == K - j
  <2>1. k \in 1 .. K /\ K - (j + 1) = k - 1 /\ k - 1 \in 0 .. K /\ k - 1 # K /\ (k - 1) + 1 = k
    BY <1>1
  <2>2. listed[k] \o TextsFrom(from(k), name) = listed[K]
    <3>1. Together(k)
      BY <1>1, <1>4
    <3> QED BY <3>1 DEF Together
  <2> HIDE DEF k
  <2>3. from(k - 1) = s[k] /\ s[k] \in DOMAIN nodes
    BY <2>1 DEF from, K
  <2>4. NextSiblingElement(s[k], name) = from(k) /\ GetText(s[k]) = Adds(texts[k])
    BY <2>1 DEF from, K
  <2>5. TextsFrom(s[k], name) = Adds(texts[k]) \o TextsFrom(from(k), name)
    BY <2>3, <2>4, TextsFromUnfolds
  <2>6. /\ listed[k - 1] \in Seq(Texts) /\ listed[k] = listed[k - 1] \o Adds(texts[k])
        /\ Adds(texts[k]) \in Seq(Texts) /\ TextsFrom(from(k), name) \in Seq(Texts)
    <3>1. Adds(texts[k]) \in Seq(Texts)
      BY <2>3, <2>4, TextsGot
    <3>2. from(k) \in 0 .. Len(nodes)
      BY <2>3, <2>4, ElementsFound
    <3>3. TextsFrom(from(k), name) \in Seq(Texts)
      BY <3>2, TextsAreTexts
    <3> QED BY <1>2, <2>1, <3>1, <3>3
  <2> DEFINE a == listed[k - 1]
             b == Adds(texts[k])
             c == TextsFrom(from(k), name)
  <2>7. a \o (b \o c) = (a \o b) \o c
    <3>1. a \in Seq(Texts) /\ b \in Seq(Texts) /\ c \in Seq(Texts)
      BY <2>6
    <3> HIDE DEF a, b, c
    <3> QED BY <3>1, ConcatAssociative
  <2>8. (a \o b) \o c = listed[K]
    BY <2>2, <2>6
  <2>9. TextsFrom(from(k - 1), name) = b \o c
    BY <2>3, <2>5
  <2>10. Together(k - 1)
    BY <2>7, <2>8, <2>9 DEF Together
  <2> QED BY <2>1, <2>10
<1>5. K \in T
  <2> HIDE DEF T, Together
  <2>1. Nat \subseteq T
    BY <1>3, <1>4, SetInduction
  <2> QED BY <1>1, <2>1
<1>6. listed[0] \o TextsFrom(from(0), name) = listed[K]
  <2>1. K <= K /\ K - K = 0
    BY <1>1
  <2>2. Together(0)
    <3> HIDE DEF Together
    <3> QED BY <1>5, <2>1
  <2> QED BY <2>2
<1>7. from(0) = IF texts = <<>> THEN 0 ELSE s[1]
  BY <1>1
<1>8. TextsFrom(from(0), name) \in Seq(Texts)
  <2>1. from(0) \in 0 .. Len(nodes)
    <3>1. K # 0 => s[1] \in DOMAIN nodes
      BY <1>1 DEF K
    <3> QED BY <3>1, TreePointers
  <2> HIDE DEF from
  <2> QED BY <2>1, TextsAreTexts
<1> HIDE DEF from
<1>9. <<>> \o TextsFrom(from(0), name) = TextsFrom(from(0), name)
  BY <1>8, ConcatEmptySeq
<1> QED BY <1>2, <1>6, <1>7, <1>9

(* The texts of the elements of a name in a section are listed as they     *)
(* were written.                                                           *)
LEMMA TextsAreListed ==
    ASSUME NEW text, NEW inside, NEW at, IsRead(text, inside, at),
           NEW p, p = 0 \/ p \in DOMAIN nodes \ {1}, NEW name,
           NEW texts \in Seq(Texts \cup {Blank}),
           TextsOf(text, inside, ElementsIn(text, inside, PlaceOf(p, at), name), texts)
    PROVE  /\ TextsFrom(FirstChildElement(p, name), name) = Promise!Listed(texts)
           /\ FirstChildElement(p, name) = 0 <=> texts = <<>>
<1> DEFINE E == ElementsIn(text, inside, PlaceOf(p, at), name)
           S == ChildrenOf(p) \cap ElementsOf(name)
           K == Len(texts)
<1>1. K \in Nat /\ DOMAIN texts = 1 .. K /\ (texts = <<>> <=> K = 0)
  BY LenProperties, EmptySeq
<1>2. ASSUME p \in DOMAIN nodes, p # 1
      PROVE  ArePlaces(ElementsIn(text, inside, at[p], name), S, at)
  BY <1>2, ElementPlaces
<1>3. PICK places \in [DOMAIN texts -> E] :
        /\ \A k, l \in DOMAIN texts : k < l => places[k] < places[l]
        /\ \A i \in E : \E k \in DOMAIN texts : places[k] = i
        /\ \A k \in DOMAIN texts : texts[k] = TextIn(text, inside, places[k])
  BY DEF TextsOf
<1>4. XmlInv
  BY DEF IsRead
<1>5. CASE p = 0
  <2>1. E = {}
    BY <1>5 DEF PlaceOf, ElementsIn
  <2>2. FirstChildElement(p, name) = 0
    BY <1>5 DEF FirstChildElement
  <2>3. K = 0
    <3>1. K # 0 => 1 \in DOMAIN texts
      BY <1>1
    <3> HIDE DEF E
    <3> QED BY <1>3, <2>1, <3>1
  <2>4. Promise!Listed(texts) = <<>>
    BY <2>3, ListedUnfolds
  <2>5. TextsFrom(0, name) = <<>>
    BY <1>4, TextsFromUnfolds
  <2> QED BY <1>1, <2>2, <2>3, <2>4, <2>5
<1>6. CASE p # 0
  <2>1. p \in DOMAIN nodes /\ p # 1 /\ PlaceOf(p, at) = at[p]
    BY <1>6 DEF PlaceOf
  <2>2. S \subseteq DOMAIN nodes /\ S \subseteq Nat /\ S \subseteq ChildrenOf(p) /\ 0 \notin S
    BY PlacesInOrder DEF ElementsOf
  <2>3. /\ \A n \in S : at[n] \in E
        /\ \A i \in E : \E n \in S : at[n] = i
    <3> HIDE DEF S
    <3> QED BY <1>2, <2>1 DEF ArePlaces
  <2>4. /\ FirstChildElement(p, name) = FirstOf(S)
        /\ \A n \in S : NextSiblingElement(n, name) = FirstOf({k \in S : k > n})
    BY <1>4, <2>1, SiblingsInOrder
  <2> HIDE DEF E, S, K
  <2> DEFINE s == [k \in 1 .. K |-> CHOOSE n \in S : at[n] = places[k]]
  <2>5. \A k \in 1 .. K : s[k] \in S /\ at[s[k]] = places[k]
    <3> SUFFICES ASSUME NEW k \in 1 .. K PROVE s[k] \in S /\ at[s[k]] = places[k]
      OBVIOUS
    <3>1. places[k] \in E
      BY <1>1, <1>3
    <3>2. \E n \in S : at[n] = places[k]
      BY <2>3, <3>1
    <3> QED BY <3>2
  <2>6. s \in [1 .. K -> S]
    <3>1. \A k \in 1 .. K : (CHOOSE n \in S : at[n] = places[k]) \in S
      BY <2>5
    <3> QED BY <3>1
  <2> HIDE DEF s
  <2>7. \A k, l \in 1 .. K : k < l => s[k] < s[l]
    <3> SUFFICES ASSUME NEW k \in 1 .. K, NEW l \in 1 .. K, k < l PROVE s[k] < s[l]
      OBVIOUS
    <3>1. at[s[k]] < at[s[l]]
      BY <1>1, <1>3, <2>5
    <3>2. s[k] \in DOMAIN nodes /\ s[l] \in DOMAIN nodes
      BY <2>2, <2>5
    <3> QED BY <3>1, <3>2, PlacesInOrder
  <2>8. \A x \in S : \E k \in 1 .. K : s[k] = x
    <3> SUFFICES ASSUME NEW x \in S PROVE \E k \in 1 .. K : s[k] = x
      OBVIOUS
    <3>1. PICK k \in 1 .. K : places[k] = at[x]
      BY <1>1, <1>3, <2>3
    <3>2. at[s[k]] = at[x] /\ s[k] \in DOMAIN nodes /\ x \in DOMAIN nodes
      BY <2>2, <2>5, <3>1
    <3> QED BY <3>2, PlacesInOrder
  <2>9. /\ FirstOf(S) = IF K = 0 THEN 0 ELSE s[1]
        /\ \A k \in 1 .. K : FirstOf({x \in S : x > s[k]}) = IF k = K THEN 0 ELSE s[k + 1]
    <3>1. InOrder(S, K, s)
      BY <1>1, <2>2, <2>6, <2>7, <2>8 DEF InOrder
    <3> QED BY <3>1, NextInOrder
  <2>10. FirstChildElement(p, name) = IF texts = <<>> THEN 0 ELSE s[1]
    BY <1>1, <2>4, <2>9
  <2>11. ASSUME NEW k \in 1 .. K
         PROVE  /\ GetText(s[k]) = Adds(texts[k])
                /\ NextSiblingElement(s[k], name) = IF k = K THEN 0 ELSE s[k + 1]
    <3>1. s[k] \in S /\ s[k] \in DOMAIN nodes /\ texts[k] = TextIn(text, inside, at[s[k]])
      BY <1>1, <1>3, <2>2, <2>5
    <3>2. GetText(s[k]) = Adds(texts[k])
      BY <3>1, TextPlace DEF Adds
    <3> QED BY <2>4, <2>9, <3>1, <3>2
  <2>12. s \in [1 .. Len(texts) -> DOMAIN nodes]
    BY <2>2, <2>6 DEF K
  <2>13. TextsFrom(IF texts = <<>> THEN 0 ELSE s[1], name) = Promise!Listed(texts)
    BY <1>4, <2>11, <2>12, TextsInOrder DEF K
  <2>14. texts # <<>> => s[1] # 0
    <3>1. texts # <<>> => 1 \in 1 .. K
      BY <1>1
    <3> QED BY <2>2, <2>5, <3>1
  <2> QED BY <2>10, <2>13, <2>14
<1> QED BY <1>5, <1>6

-----------------------------------------------------------------------------
(* What is read of a text that another one departs from                    *)

(* Place c is in the root element, or outside of it.                       *)
AtTop(inside, c) == inside[c] = 0 \/ inside[inside[c]] = 0

(* Then an element inside of the root element that begins before it ends   *)
(* before it.                                                              *)
LEMMA NothingIsLater ==
    ASSUME NEW text \in Seq(Lexemes), NEW inside, WellFormed(text, inside),
           NEW c \in 1 .. Len(text) + 1, AtTop(inside, c),
           NEW e \in 1 .. c - 1, inside[e] # 0,
           NEW j \in DOMAIN text, inside[j] = e
    PROVE  j < c
<1> DEFINE Ok(i) == inside[i] >= c \/ inside[i] = 0 \/ inside[i] = inside[c]
           T == {n \in Nat : \A i \in c .. Len(text) + 1 : i < n => Ok(i)}
<1>1. DOMAIN text = 1 .. Len(text) /\ Len(text) \in Nat /\ c \in Nat /\ c # 0
  BY LenProperties
<1>2. inside[c] \in 0 .. c - 1
  BY InsideBefore
<1>3. ASSUME NEW n \in T, NEW i \in c .. Len(text) + 1, i = n PROVE Ok(i)
  <2>1. CASE i = c
    BY <2>1
  <2>2. CASE i # c
    <3>1. /\ i - 1 \in DOMAIN text /\ i - 1 \in c .. Len(text) + 1 /\ i - 1 < n /\ (i - 1) + 1 = i
          /\ i - 1 >= c
      BY <1>1, <1>3, <2>2
    <3>2. PICK k : k = i - 1
      OBVIOUS
    <3>3. Ok(k)
      BY <3>1, <3>2
    <3>4. /\ k \in Nat /\ inside[k] \in 0 .. k - 1
          /\ text[k].kind = "open" => inside[k + 1] = k
          /\ text[k].kind \in {"close", "empty"} => inside[k + 1] = inside[inside[k]]
          /\ text[k].kind \notin {"open", "close", "empty"} => inside[k + 1] = inside[k]
      <4>1. k \in DOMAIN text
        BY <3>1, <3>2
      <4> QED BY ONLY <4>1, AfterLexeme, text \in Seq(Lexemes), WellFormed(text, inside)
    <3>5. CASE text[k].kind = "open"
      BY <3>1, <3>2, <3>4, <3>5
    <3>6. CASE text[k].kind \in {"close", "empty"}
      <4>1. inside[k] # 0
        <5>1. InTheTag(text, inside, k) \/ InTheContent(text, inside, k) \/ InTheDocument(text, inside, k)
          BY <3>1, <3>2 DEF WellFormed
        <5> QED BY <3>6, <5>1 DEF InTheTag, InTag, InTheContent, InTheDocument
      <4>2. CASE inside[k] >= c
        <5>1. inside[k] \in c .. Len(text) + 1 /\ inside[k] < n
          BY <1>1, <1>3, <3>1, <3>2, <3>4, <4>2
        <5>2. Ok(inside[k])
          BY <5>1
        <5> QED BY <3>1, <3>2, <3>4, <3>6, <5>2
      <4>3. CASE inside[k] = inside[c]
        BY <3>1, <3>2, <3>4, <3>6, <4>1, <4>3 DEF AtTop
      <4> QED BY <3>3, <4>1, <4>2, <4>3
    <3>7. CASE text[k].kind \notin {"open", "close", "empty"}
      BY <3>1, <3>2, <3>3, <3>4, <3>7
    <3> QED BY <3>5, <3>6, <3>7
  <2> QED BY <2>1, <2>2
<1>4. Nat \subseteq T
  <2>1. 0 \in T
    BY <1>1
  <2>2. ASSUME NEW n \in Nat, n \in T PROVE n + 1 \in T
    <3>1. \A i \in c .. Len(text) + 1 : i < n + 1 => i < n \/ i = n
      BY <1>1, <2>2
    <3>2. \A i \in c .. Len(text) + 1 : i < n => Ok(i)
      BY <2>2
    <3>3. \A i \in c .. Len(text) + 1 : i = n => Ok(i)
      BY <1>3, <2>2
    <3>4. \A i \in c .. Len(text) + 1 : i < n + 1 => Ok(i)
      <4> HIDE DEF Ok
      <4> QED BY <3>1, <3>2, <3>3
    <3> QED BY <2>2, <3>4
  <2> HIDE DEF T
  <2> QED BY <2>1, <2>2, SetInduction
<1>5. ASSUME j >= c PROVE FALSE
  <2>1. j + 1 \in T /\ j \in c .. Len(text) + 1 /\ j < j + 1
    BY <1>1, <1>4, <1>5
  <2>2. Ok(j)
    <3> HIDE DEF Ok
    <3> QED BY <2>1
  <2>3. inside[c] = e
    BY <1>1, <2>2
  <2> QED BY <1>1, <2>3 DEF AtTop
<1> QED BY <1>1, <1>5

(* The same is in an element of both texts.                                *)
Alike(v, within, text, inside, e) ==
    /\ \A j \in DOMAIN text : inside[j] = e => j \in DOMAIN v /\ within[j] = e /\ v[j] = text[j]
    /\ \A j \in DOMAIN v : within[j] = e => j \in DOMAIN text /\ inside[j] = e /\ v[j] = text[j]

(* So it is in a text that goes on there without an element.               *)
LEMMA ContentsAlike ==
    ASSUME NEW text \in Seq(Lexemes), NEW inside, WellFormed(text, inside),
           NEW c \in 1 .. Len(text) + 1, AtTop(inside, c), NEW v, Continues(v, text, c),
           NEW e \in 1 .. c - 1, inside[e] # 0
    PROVE  Alike(v, Until(inside, c), text, inside, e)
<1>1. /\ DOMAIN text = 1 .. Len(text) /\ Len(text) \in Nat /\ c \in Nat
      /\ DOMAIN v = 1 .. Len(v) /\ Len(v) \in Nat /\ Len(v) + 1 >= c
  BY LenProperties DEF Continues
<1>2. \A j \in DOMAIN text : inside[j] = e => j < c
  BY NothingIsLater
<1>3. ASSUME NEW j \in DOMAIN v, Until(inside, c)[j] = e PROVE j < c
  <2>1. inside[c] # e
    BY <1>1 DEF AtTop
  <2>2. j \in Nat
    BY <1>1
  <2> QED BY <1>1, <1>3, <2>1, <2>2 DEF Until
<1>4. ASSUME NEW j \in Nat, 1 <= j, j < c
      PROVE  /\ j \in DOMAIN text /\ j \in DOMAIN v /\ v[j] = text[j]
             /\ Until(inside, c)[j] = inside[j]
  <2>1. j \in DOMAIN text /\ j \in DOMAIN v /\ j \in 1 .. c - 1
    BY <1>1, <1>4
  <2>2. v[j] = text[j]
    BY <2>1 DEF Continues
  <2> QED BY <1>4, <2>1, <2>2 DEF Until
<1>5. ASSUME NEW j \in DOMAIN text, inside[j] = e
      PROVE  j \in DOMAIN v /\ Until(inside, c)[j] = e /\ v[j] = text[j]
  <2>1. j \in Nat /\ 1 <= j /\ j < c
    BY <1>1, <1>2, <1>5
  <2> QED BY <1>4, <1>5, <2>1
<1>6. ASSUME NEW j \in DOMAIN v, Until(inside, c)[j] = e
      PROVE  j \in DOMAIN text /\ inside[j] = e /\ v[j] = text[j]
  <2>1. j \in Nat /\ 1 <= j /\ j < c
    BY <1>1, <1>3, <1>6
  <2> QED BY <1>4, <1>6, <2>1
<1> QED BY <1>5, <1>6 DEF Alike

(* The same elements are found in it, with the same text.                  *)
LEMMA AlikeElements ==
    ASSUME NEW v, NEW within, NEW text, NEW inside, NEW e, NEW name,
           e = 0 \/ Alike(v, within, text, inside, e)
    PROVE  ElementsIn(v, within, e, name) = ElementsIn(text, inside, e, name)
BY DEF ElementsIn, Alike

LEMMA AlikeTexts ==
    ASSUME NEW v, NEW within, NEW text, NEW inside, NEW e, Alike(v, within, text, inside, e),
           DOMAIN text \subseteq Nat
    PROVE  TextIn(v, within, e) = TextIn(text, inside, e)
<1> DEFINE L == {j \in DOMAIN text : inside[j] = e /\ Makes(text[j])}
           M == {j \in DOMAIN v : within[j] = e /\ Makes(v[j])}
<1>1. L = M
  BY DEF Alike
<1>2. \A j \in L : v[j] = text[j]
  BY DEF Alike
<1>3. L # {} => FirstOf(L) \in L
  <2>1. L \subseteq Nat
    OBVIOUS
  <2> HIDE DEF L
  <2> QED BY <2>1, FirstOfSet
<1> HIDE DEF L, M
<1>4. TextIn(text, inside, e) = IF FirstOf(L) # 0 /\ text[FirstOf(L)].kind \in {"text", "cdata"}
                                THEN text[FirstOf(L)].value ELSE Blank
  BY DEF TextIn, L
<1>5. TextIn(v, within, e) = IF FirstOf(M) # 0 /\ v[FirstOf(M)].kind \in {"text", "cdata"}
                             THEN v[FirstOf(M)].value ELSE Blank
  BY DEF TextIn, M
<1>6. L = {} => FirstOf(L) = 0
  BY DEF FirstOf
<1> QED BY <1>1, <1>2, <1>3, <1>4, <1>5, <1>6

(* Sets with the same numbers below c have the same first one there.       *)
LEMMA FirstAlike ==
    ASSUME NEW L, NEW M, NEW c \in Nat, L \subseteq Nat, M \subseteq Nat,
           \A i \in L : i < c /\ i \in M, \A i \in M : i < c => i \in L, FirstOf(L) # 0
    PROVE  FirstOf(M) = FirstOf(L) /\ FirstOf(L) \in L
<1>1. L # {}
  BY FirstOfSet
<1>2. FirstOf(L) \in L /\ \A i \in L : FirstOf(L) <= i
  BY <1>1, FirstOfSet
<1>3. FirstOf(L) \in M /\ FirstOf(L) < c /\ FirstOf(L) \in Nat
  BY <1>2
<1>4. \A i \in M : FirstOf(L) <= i
  <2>1. ASSUME NEW i \in M PROVE FirstOf(L) <= i
    <3>1. CASE i < c
      BY <1>2, <3>1
    <3>2. CASE ~(i < c)
      <4>1. i \in Nat
        OBVIOUS
      <4> QED BY <1>3, <3>2, <4>1
    <3> QED BY <3>1, <3>2
  <2> QED BY <2>1
<1> QED BY <1>2, <1>3, <1>4, FirstOfSet

(* When its record settings are before place c, all is read that was       *)
(* written in them.                                                        *)
LEMMA ReadsAlike ==
    ASSUME NEW text \in Seq(Lexemes), NEW inside, WellFormed(text, inside),
           NEW c \in 1 .. Len(text) + 1, AtTop(inside, c), NEW v, Continues(v, text, c),
           NEW elements, Reads(text, inside, elements),
           FirstIn(v, Until(inside, c), Root(v, Until(inside, c)), "RecordSetting") # 0
    PROVE  Reads(v, Until(inside, c), elements)
<1> DEFINE within == Until(inside, c)
           root == Root(v, within)
           setting == FirstIn(v, within, root, "RecordSetting")
           In(section, name) ==
             ElementsIn(text, inside, FirstIn(text, inside, setting, section), name)
           InV(section, name) ==
             ElementsIn(v, within, FirstIn(v, within, setting, section), name)
<1>1. /\ DOMAIN text = 1 .. Len(text) /\ Len(text) \in Nat /\ c \in Nat
      /\ DOMAIN v = 1 .. Len(v) /\ Len(v) \in Nat /\ Len(v) + 1 >= c
      /\ DOMAIN text \subseteq Nat /\ DOMAIN v \subseteq Nat
  BY LenProperties DEF Continues
<1>2. ASSUME NEW i \in DOMAIN v, v[i].kind = "open"
      PROVE  i < c /\ i \in DOMAIN text /\ v[i] = text[i] /\ within[i] = inside[i]
  <2>1. i < c
    <3>1. i >= c => i \in c .. Len(v)
      BY <1>1
    <3>2. i \in Nat
      BY <1>1
    <3> QED BY <1>1, <1>2, <3>1, <3>2 DEF Continues
  <2>2. i \in 1 .. c - 1 /\ i \in DOMAIN text /\ i \in Nat
    BY <1>1, <2>1
  <2> QED BY <2>1, <2>2 DEF Continues, Until
<1>3. ASSUME NEW i \in DOMAIN text, i < c
      PROVE  i \in DOMAIN v /\ v[i] = text[i] /\ within[i] = inside[i]
  <2>1. i \in 1 .. c - 1 /\ i \in DOMAIN v /\ i \in Nat
    BY <1>1, <1>3
  <2> QED BY <1>3, <2>1 DEF Continues, Until
<1> HIDE DEF within
<1>4. root # 0
  <2>1. ElementsIn(v, within, 0, "RecordSetting") = {}
    BY DEF ElementsIn
  <2> QED BY <2>1 DEF FirstIn, FirstOf, within
<1>5. Root(text, inside) = root
  <2> DEFINE L == {i \in DOMAIN v : within[i] = 0 /\ v[i].kind = "open"}
             M == {i \in DOMAIN text : inside[i] = 0 /\ text[i].kind = "open"}
  <2>1. L \subseteq Nat /\ M \subseteq Nat
    BY <1>1
  <2>2. \A i \in L : i < c /\ i \in M
    BY <1>2
  <2>3. \A i \in M : i < c => i \in L
    BY <1>3
  <2>4. FirstOf(L) = root /\ FirstOf(M) = Root(text, inside)
    BY DEF Root
  <2> HIDE DEF L, M
  <2> QED BY <1>1, <1>4, <2>1, <2>2, <2>3, <2>4, FirstAlike
<1> HIDE DEF root
<1>6. /\ FirstIn(text, inside, root, "RecordSetting") = setting
      /\ setting \in 1 .. c - 1 /\ inside[setting] # 0
  <2> DEFINE L == ElementsIn(v, within, root, "RecordSetting")
             M == ElementsIn(text, inside, root, "RecordSetting")
  <2>1. L \subseteq Nat /\ M \subseteq Nat
    BY <1>1 DEF ElementsIn
  <2>2. \A i \in L : i < c /\ i \in M /\ inside[i] = root /\ i \in 1 .. c - 1
    <3>1. ASSUME NEW i \in L PROVE i < c /\ i \in M /\ inside[i] = root /\ i \in 1 .. c - 1
      <4>1. i \in DOMAIN v /\ v[i].kind = "open" /\ within[i] = root
            /\ v[i] = [kind |-> "open", value |-> "RecordSetting"]
        BY <3>1 DEF ElementsIn
      <4>2. i < c /\ i \in DOMAIN text /\ v[i] = text[i] /\ within[i] = inside[i]
        BY <1>2, <4>1
      <4>3. i \in 1 .. c - 1
        BY <1>1, <4>2
      <4> QED BY <1>4, <4>1, <4>2, <4>3 DEF ElementsIn
    <3> QED BY <3>1
  <2>3. \A i \in M : i < c => i \in L
    BY <1>3 DEF ElementsIn
  <2>4. FirstOf(L) = setting /\ FirstOf(M) = FirstIn(text, inside, root, "RecordSetting")
    BY DEF FirstIn
  <2>5. setting # 0
    BY DEF root, within
  <2> HIDE DEF L, M, setting
  <2> QED BY <1>1, <1>4, <2>1, <2>2, <2>3, <2>4, <2>5, FirstAlike
<1>7. Reads(text, inside, elements) <=>
        /\ TextsOf(text, inside, In("Event", "Type"), elements["EventType"])
        /\ TextsOf(text, inside, In("Feedback", "Attitude"), elements["FeedbackAttitude"])
        /\ TextsOf(text, inside, In("Feedback", "Type"), elements["FeedbackType"])
        /\ TextsOf(text, inside, In("Effect", "Level"), elements["EffectLevel"])
  BY <1>5, <1>6 DEF Reads
<1>8. Reads(v, within, elements) <=>
        /\ TextsOf(v, within, InV("Event", "Type"), elements["EventType"])
        /\ TextsOf(v, within, InV("Feedback", "Attitude"), elements["FeedbackAttitude"])
        /\ TextsOf(v, within, InV("Feedback", "Type"), elements["FeedbackType"])
        /\ TextsOf(v, within, InV("Effect", "Level"), elements["EffectLevel"])
  BY DEF Reads, root
<1> HIDE DEF setting
<1>9. ASSUME NEW e \in 1 .. c - 1, inside[e] # 0
      PROVE  /\ Alike(v, within, text, inside, e)
             /\ \A i \in DOMAIN text : inside[i] = e => i \in 1 .. c - 1
  <2>1. Alike(v, within, text, inside, e)
    BY <1>9, ContentsAlike DEF within
  <2>2. \A i \in DOMAIN text : inside[i] = e => i < c
    BY <1>9, NothingIsLater
  <2> QED BY <1>1, <2>1, <2>2
<1>10. ASSUME NEW section, NEW name, NEW texts, TextsOf(text, inside, In(section, name), texts)
       PROVE  TextsOf(v, within, InV(section, name), texts)
  <2> DEFINE e == FirstIn(text, inside, setting, section)
  <2>1. FirstIn(v, within, setting, section) = e
    BY <1>6, <1>9, AlikeElements DEF FirstIn
  <2>2. e = 0 \/ (e \in 1 .. c - 1 /\ inside[e] # 0)
    <3> DEFINE M == ElementsIn(text, inside, setting, section)
    <3>1. M \subseteq Nat /\ \A i \in M : i \in DOMAIN text /\ inside[i] = setting
      BY <1>1 DEF ElementsIn
    <3>2. e = FirstOf(M)
      BY DEF FirstIn
    <3> HIDE DEF M, e
    <3>3. e = 0 \/ e \in M
      BY <3>1, <3>2, FirstOfSet
    <3>4. \A i \in M : i \in 1 .. c - 1 /\ inside[i] # 0
      BY <1>1, <1>6, <1>9, <3>1
    <3> QED BY <3>3, <3>4
  <2> HIDE DEF e
  <2>3. ElementsIn(v, within, e, name) = ElementsIn(text, inside, e, name)
    <3>1. e = 0 \/ Alike(v, within, text, inside, e)
      BY <1>9, <2>2
    <3> QED BY <3>1, AlikeElements
  <2>4. InV(section, name) = In(section, name)
    BY <2>1, <2>3 DEF e
  <2>5. ASSUME NEW i \in In(section, name) PROVE TextIn(v, within, i) = TextIn(text, inside, i)
    <3>1. i \in DOMAIN text /\ inside[i] = e /\ e # 0
      BY <2>5 DEF ElementsIn, e
    <3>2. i \in 1 .. c - 1 /\ inside[i] # 0
      BY <1>9, <2>2, <3>1
    <3> QED BY <1>1, <1>9, <3>2, AlikeTexts
  <2> HIDE DEF In, InV
  <2>6. PICK places \in [DOMAIN texts -> In(section, name)] :
          /\ \A k, l \in DOMAIN texts : k < l => places[k] < places[l]
          /\ \A i \in In(section, name) : \E k \in DOMAIN texts : places[k] = i
          /\ \A k \in DOMAIN texts : texts[k] = TextIn(text, inside, places[k])
    BY <1>10 DEF TextsOf
  <2>7. \A k \in DOMAIN texts : texts[k] = TextIn(v, within, places[k])
    BY <2>5, <2>6
  <2> QED BY <2>4, <2>6, <2>7 DEF TextsOf
<1> HIDE DEF In, InV
<1>11. Reads(v, within, elements)
  BY <1>7, <1>8, <1>10
<1> QED BY <1>11 DEF within

-----------------------------------------------------------------------------
(* Files are read as Configuration.tla promises                            *)

(* What is known of the lists that have been read: all that was written,   *)
(* unless one of them is missing.                                          *)
Known(c, lists) ==
    /\ c.result <=> \A list \in lists : written.elements[list] # <<>>
    /\ c.result => \A list \in lists : c.lists[list] = Promise!Listed(written.elements[list])
    /\ \A list \in Lists \ lists : c.lists[list] = <<>>

(* The elements of this name in this section are those of the list.        *)
ReadAs(section, name, list) ==
    LET first == FirstChildElement(FirstChildElement(RecordSetting, section), name)
    IN  /\ TextsFrom(first, name) = Promise!Listed(written.elements[list])
        /\ first = 0 <=> written.elements[list] = <<>>

(* Every list is in the tree as it was written.                            *)
ListsFound ==
    /\ ReadAs("Event", "Type", "EventType")
    /\ ReadAs("Feedback", "Attitude", "FeedbackAttitude")
    /\ ReadAs("Feedback", "Type", "FeedbackType")
    /\ ReadAs("Effect", "Level", "EffectLevel")

(* A text was read in which the lists are.                                 *)
AllRead == \E text, inside, at : IsRead(text, inside, at) /\ Reads(text, inside, written.elements)

(* The files the theorem is about.                                         *)
Covered == written.sound \/ (Spoiled(written) /\ (Overruns(written.text) => IdleMemory))

(* The parser reads the text that was written, or leaves it somewhere.     *)
Parses ==
    \/ written.sound /\ Tracking(written.text, Inside(written.text))
    \/ /\ ~written.sound
       /\ \E c \in 1 .. Len(written.whole) + 1 :
            Leaving(written.whole, Inside(written.whole), c)

(* What is found in the tree in the end is known from the lists.           *)
WholeIInv ==
    /\ ConfIInv
    /\ Covered
    /\ conf.at = "parsing" => Parses
    /\ conf.at \in {"event", "feedback", "effect"} => frames = <<>> /\ AllRead
    /\ conf.at = "event" => Known(conf, {})
    /\ conf.at = "feedback" => Known(conf, {"EventType"})
    /\ conf.at = "effect" => Known(conf, {"EventType", "FeedbackAttitude", "FeedbackType"})

(* In either case a text was written in which the lists are.               *)
LEMMA CoveredFile ==
    ASSUME written \in Files, Covered
    PROVE  /\ written.text \in Seq(Lexemes) /\ written.whole \in Seq(Lexemes)
           /\ written.sound => written.text = written.whole
           /\ WellFormed(written.whole, Inside(written.whole))
           /\ Reads(written.whole, Inside(written.whole), written.elements)
           /\ \A list \in Lists : written.elements[list] \in Seq(Texts \cup {Blank})
           /\ ~written.sound => (Overruns(written.text) => IdleMemory)
                  /\ \E n \in 0 .. Len(written.whole) : Departs(written.text, written.whole, n)
BY FilesAssumption DEF Covered, Spoiled

(* When a text has been read in which the lists are, they are found.       *)
LEMMA ListsAreRead ==
    ASSUME AllRead, \A list \in Lists : written.elements[list] \in Seq(Texts \cup {Blank})
    PROVE  ListsFound
<1>0. PICK text, inside, at : IsRead(text, inside, at) /\ Reads(text, inside, written.elements)
  BY DEF AllRead
<1> DEFINE In(section, name) ==
             ElementsIn(text, inside,
                        FirstIn(text, inside,
                                FirstIn(text, inside, Root(text, inside), "RecordSetting"), section),
                        name)
<1>1. /\ TextsOf(text, inside, In("Event", "Type"), written.elements["EventType"])
      /\ TextsOf(text, inside, In("Feedback", "Attitude"), written.elements["FeedbackAttitude"])
      /\ TextsOf(text, inside, In("Feedback", "Type"), written.elements["FeedbackType"])
      /\ TextsOf(text, inside, In("Effect", "Level"), written.elements["EffectLevel"])
  BY <1>0 DEF Reads
<1>2. /\ PlaceOf(RecordSetting, at) = FirstIn(text, inside, Root(text, inside), "RecordSetting")
      /\ RecordSetting = 0 \/ RecordSetting \in DOMAIN nodes \ {1}
  BY <1>0, RootPlace, FirstChildPlace DEF RecordSetting
<1>3. ASSUME NEW section, NEW name, NEW list \in Lists,
             TextsOf(text, inside, In(section, name), written.elements[list])
      PROVE  ReadAs(section, name, list)
  <2> DEFINE p == FirstChildElement(RecordSetting, section)
  <2>1. /\ PlaceOf(p, at) = FirstIn(text, inside, PlaceOf(RecordSetting, at), section)
        /\ p = 0 \/ p \in DOMAIN nodes \ {1}
    BY <1>0, <1>2, FirstChildPlace
  <2>2. TextsOf(text, inside, ElementsIn(text, inside, PlaceOf(p, at), name), written.elements[list])
    BY <1>2, <1>3, <2>1
  <2> HIDE DEF p
  <2>3. /\ TextsFrom(FirstChildElement(p, name), name) = Promise!Listed(written.elements[list])
        /\ FirstChildElement(p, name) = 0 <=> written.elements[list] = <<>>
    BY <1>0, <2>1, <2>2, TextsAreListed
  <2> QED BY <2>3 DEF ReadAs, p
<1>4. {"EventType", "FeedbackAttitude", "FeedbackType", "EffectLevel"} = Lists
  BY DEF Lists
<1> HIDE DEF In
<1> QED BY <1>1, <1>3, <1>4 DEF ListsFound

(* When the parser has returned from a sound file, a list is missing if    *)
(* there was an error or there are no record settings.                     *)
LEMMA SoundReturns ==
    ASSUME WholeIInv, written.sound, conf.at = "parsing", frames = <<>>
    PROVE  /\ AllRead
           /\ error \/ RecordSetting = 0 => written.elements["EventType"] = <<>>
<1> DEFINE text == written.text
           inside == Inside(written.text)
<1>1. XmlInv /\ 1 \in DOMAIN nodes /\ Tracking(text, inside)
  BY DEF WholeIInv, ConfIInv, Parses
<1>2. /\ text \in Seq(Lexemes) /\ Reads(text, inside, written.elements)
      /\ \A list \in Lists : written.elements[list] \in Seq(Texts \cup {Blank})
  BY CoveredFile DEF WholeIInv, ConfIInv
<1> HIDE DEF text, inside
<1>3. PICK at : TreeTracks(nodes, text, inside, at, Len(text) + 1)
  BY <1>1 DEF Tracking
<1>4. IsRead(text, inside, at)
  BY <1>1, <1>2, <1>3 DEF IsRead
<1>5. AllRead /\ ListsFound
  <2>1. AllRead
    BY <1>2, <1>4 DEF AllRead
  <2> QED BY <1>2, <2>1, ListsAreRead
<1>6. error => RecordSetting = 0
  <2>1. PICK t : Walk(t, AllElements) /\ RootElement = t[nodes[1].first]
    BY <1>1, RootElementWalks
  <2>2. error => RootElement = 0
    BY <1>1, <2>1 DEF Tracking, Walk
  <2> QED BY <2>2 DEF RecordSetting, FirstChildElement
<1>7. RecordSetting = 0 => written.elements["EventType"] = <<>>
  BY <1>5 DEF ListsFound, ReadAs, FirstChildElement
<1> QED BY <1>5, <1>6, <1>7

(* When it has returned from another one without an error, everything that *)
(* was written in the record settings it found has been read.              *)
LEMMA SpoiledReturns ==
    ASSUME WholeIInv, ~written.sound, conf.at = "parsing", frames = <<>>,
           ~error, RecordSetting # 0
    PROVE  AllRead
<1> DEFINE text == written.whole
           inside == Inside(written.whole)
<1>1. XmlInv /\ 1 \in DOMAIN nodes
  BY DEF WholeIInv, ConfIInv
<1>2. /\ text \in Seq(Lexemes) /\ WellFormed(text, inside) /\ Reads(text, inside, written.elements)
      /\ \A list \in Lists : written.elements[list] \in Seq(Texts \cup {Blank})
  BY CoveredFile DEF WholeIInv, ConfIInv
<1>3. PICK c \in 1 .. Len(text) + 1 : Leaving(text, inside, c)
  BY DEF WholeIInv, Parses
<1> HIDE DEF text, inside
<1>4. Over(text, inside, c)
  BY <1>3 DEF Leaving, Departed
<1>5. PICK at, v : Continues(v, text, c) /\ TreeTracks(nodes, v, Until(inside, c), at, Len(v) + 1)
  BY <1>4 DEF Over, HasRead
<1>6. IsRead(v, Until(inside, c), at)
  BY <1>1, <1>5 DEF IsRead, Continues
<1>7. FirstIn(v, Until(inside, c), Root(v, Until(inside, c)), "RecordSetting") # 0
  <2>1. /\ PlaceOf(RecordSetting, at)
             = FirstIn(v, Until(inside, c), Root(v, Until(inside, c)), "RecordSetting")
        /\ RecordSetting \in DOMAIN nodes \ {1}
    BY <1>6, RootPlace, FirstChildPlace DEF RecordSetting
  <2>2. at[RecordSetting] # 0
    BY <1>6, <2>1, PlacesInOrder
  <2> QED BY <2>1, <2>2 DEF PlaceOf
<1>8. Reads(v, Until(inside, c), written.elements)
  <2>1. AtTop(inside, c)
    BY <1>4 DEF Over, AtTop
  <2> QED BY <1>2, <1>5, <1>7, <2>1, ReadsAlike
<1> QED BY <1>6, <1>8 DEF AllRead

(* One more list is known after it was added.                              *)
LEMMA KnownAdds ==
    ASSUME XmlInv, NEW c \in Confs, NEW lists \in SUBSET Lists, NEW list \in Lists \ lists,
           NEW section, NEW name, FirstChildElement(RecordSetting, section) \in 0 .. Len(nodes),
           Known(c, lists), ReadAs(section, name, list)
    PROVE  LET after == Adding(c, list, FirstChildElement(RecordSetting, section), name)
           IN  after \in Confs /\ Known(after, lists \cup {list})
<1> DEFINE p == FirstChildElement(RecordSetting, section)
           after == Adding(c, list, p, name)
           first == FirstChildElement(p, name)
<1>1. /\ after \in Confs /\ after.result = (c.result /\ first # 0)
      /\ \A other \in Lists : after.lists[other] =
           IF other = list THEN c.lists[list] \o TextsFrom(first, name) ELSE c.lists[other]
  BY AddingAdds
<1>2. TextsFrom(first, name) = Promise!Listed(written.elements[list])
      /\ (first = 0 <=> written.elements[list] = <<>>)
  BY DEF ReadAs
<1>3. c.lists[list] \o TextsFrom(first, name) = TextsFrom(first, name)
  <2>1. first \in 0 .. Len(nodes)
    BY ElementsFound
  <2>2. TextsFrom(first, name) \in Seq(Texts)
    BY <2>1, TextsAreTexts
  <2>3. c.lists[list] = <<>>
    BY DEF Known
  <2> QED BY <2>2, <2>3, ConcatEmptySeq
<1> HIDE DEF after, first, p
<1>4. after.result <=> \A other \in lists \cup {list} : written.elements[other] # <<>>
  <2>1. c.result <=> \A other \in lists : written.elements[other] # <<>>
    BY DEF Known
  <2> QED BY <1>1, <1>2, <2>1
<1>5. ASSUME after.result, NEW other \in lists \cup {list}
      PROVE  after.lists[other] = Promise!Listed(written.elements[other])
  <2>1. CASE other = list
    BY <1>1, <1>2, <1>3, <2>1
  <2>2. CASE other # list
    <3>1. other \in lists /\ c.result
      BY <1>1, <1>5, <2>2
    <3>2. c.lists[other] = Promise!Listed(written.elements[other])
      BY <3>1 DEF Known
    <3> QED BY <1>1, <2>2, <3>1, <3>2
  <2> QED BY <2>1, <2>2
<1>6. \A other \in Lists \ (lists \cup {list}) : after.lists[other] = <<>>
  <2>1. \A other \in Lists \ lists : c.lists[other] = <<>>
    BY DEF Known
  <2> QED BY <1>1, <2>1
<1>7. Known(after, lists \cup {list})
  BY <1>4, <1>5, <1>6 DEF Known
<1> QED BY <1>1, <1>7 DEF after, p

(* Initialize is undecided while it runs, and decided afterwards.          *)
LEMMA Outcomes ==
    /\ conf.at \notin {"accepted", "refused"} => Outcome = Promise!Unread
    /\ conf.at = "refused" => Outcome = Promise!Refused
    /\ conf.at = "accepted" => Outcome = [outcome |-> "accepted", lists |-> conf.lists]
BY DEF Outcome, Promise!Unread, Promise!Refused

LEMMA NextOutcomes ==
    /\ conf'.at \notin {"accepted", "refused"} => Outcome' = Promise!Unread
    /\ conf'.at = "refused" => Outcome' = Promise!Refused
    /\ conf'.at = "accepted" => Outcome' = [outcome |-> "accepted", lists |-> conf'.lists]
BY DEF Outcome, Promise!Unread, Promise!Refused

Undecided == UNCHANGED <<written, Outcome>>

LEMMA ReadStays ==
    ASSUME AllRead, XmlInv', UNCHANGED <<xml, written>>
    PROVE  AllRead'
BY DEF AllRead, IsRead, xml

(* The steps that read the file and look for the record settings.          *)
LEMMA WholeParses ==
    ASSUME WholeIInv, Initialize \/ Parsing \/ ReadRecordSetting
    PROVE  WholeIInv' /\ (Promise!Next \/ Undecided)
<1>0. PICK text, inside : text = written.whole /\ inside = Inside(written.whole)
  OBVIOUS
<1>1. /\ text \in Seq(Lexemes) /\ WellFormed(text, inside)
      /\ XmlInv /\ conf \in Confs /\ written' = written /\ Covered
  BY <1>0, CoveredFile DEF WholeIInv, ConfIInv, Initialize, Parsing, ReadRecordSetting
<1>2. ConfIInv' /\ XmlInv' /\ Covered'
  <2>1. ConfIInv'
    BY ConfNextKeeps DEF WholeIInv, ConfNext
  <2> QED BY <1>1, <2>1 DEF ConfIInv, Covered
<1>3. /\ written.text \in Seq(Lexemes)
      /\ written.sound => written.text = text
      /\ ~written.sound => /\ Overruns(written.text) => IdleMemory
                           /\ \E n \in 0 .. Len(text) : Departs(written.text, text, n)
  BY <1>0, CoveredFile DEF WholeIInv, ConfIInv
<1>4. ASSUME written.sound, Tracking(text, inside)' PROVE Parses'
  <2>1. written'.text = text /\ Inside(written'.text) = inside /\ written'.sound
    BY <1>0, <1>1, <1>3, <1>4
  <2> QED BY <1>4, <2>1 DEF Parses, Tracking
<1>5. ASSUME ~written.sound, NEW c \in 1 .. Len(text) + 1, Leaving(text, inside, c)' PROVE Parses'
  <2>1. written'.whole = text /\ Inside(written'.whole) = inside /\ ~written'.sound
    BY <1>0, <1>1, <1>5
  <2> QED BY <1>5, <2>1 DEF Parses
<1>6. CASE Initialize
  <2>1. conf.at = "start" /\ conf'.at = "parsing"
    BY <1>1, <1>6 DEF Initialize, Confs
  <2>2. Undecided
    BY <1>1, <2>1, Outcomes, NextOutcomes DEF Undecided
  <2>3. Parses'
    <3>1. CASE written.sound
      <4>1. LoadFile(text)
        BY <1>3, <1>6, <3>1 DEF Initialize, Load
      <4>2. Tracking(text, inside)'
        BY <1>1, <4>1, LoadTracks
      <4> QED BY <1>4, <3>1, <4>2
    <3>2. CASE ~written.sound /\ LoadFile(written.text)
      <4>1. PICK n \in 0 .. Len(text) : Departs(written.text, text, n)
        BY <1>3, <3>2
      <4>2. PICK part : part = written.text
        OBVIOUS
      <4>3. part \in Seq(Lexemes) /\ Departs(part, text, n) /\ LoadFile(part)
            /\ (Overruns(part) => IdleMemory)
        BY <1>3, <3>2, <4>1, <4>2
      <4>4. Leaving(text, Inside(text), n + 1)'
        BY <1>0, <1>1, <1>2, <4>3, LoadLeaves
      <4>5. Inside(text) = inside
        BY <1>0
      <4>6. Leaving(text, inside, n + 1)'
        BY <4>4, <4>5
      <4>7. n + 1 \in 1 .. Len(text) + 1
        BY <1>1, LenProperties
      <4> QED BY <1>5, <3>2, <4>6, <4>7
    <3>3. CASE ~written.sound /\ NoFile
      <4>1. Leaving(text, inside, 1)'
        BY <3>3 DEF NoFile, Leaving
      <4>2. 1 \in 1 .. Len(text) + 1
        BY <1>1, LenProperties
      <4> QED BY <1>5, <3>3, <4>1, <4>2
    <3> QED BY <1>6, <3>1, <3>2, <3>3 DEF Initialize, Load
  <2> QED BY <1>2, <2>1, <2>2, <2>3 DEF WholeIInv
<1>7. CASE Parsing
  <2>1. conf.at = "parsing" /\ conf' = conf /\ Parse /\ Parses
    BY <1>7 DEF Parsing, WholeIInv
  <2>2. Undecided
    BY <1>1, <2>1, Outcomes, NextOutcomes DEF Undecided
  <2>3. Parses'
    <3>1. CASE written.sound
      <4>1. Tracking(text, inside)
        BY <1>0, <1>3, <2>1, <3>1 DEF Parses
      <4>2. Tracking(text, inside)'
        BY <1>1, <2>1, <4>1, ParseReads
      <4> QED BY <1>4, <3>1, <4>2
    <3>2. CASE ~written.sound
      <4>1. PICK c \in 1 .. Len(text) + 1 : Leaving(text, inside, c)
        BY <1>0, <2>1, <3>2 DEF Parses
      <4>2. 1 \in DOMAIN nodes
        BY <2>1 DEF WholeIInv, ConfIInv
      <4>3. Leaving(text, inside, c)'
        BY <1>1, <2>1, <4>1, <4>2, ParseLeaves
      <4> QED BY <1>5, <3>2, <4>3
    <3> QED BY <3>1, <3>2
  <2> QED BY <1>2, <2>1, <2>2, <2>3 DEF WholeIInv
<1>8. CASE ReadRecordSetting
  <2>1. conf.at = "parsing" /\ frames = <<>> /\ frames' = <<>> /\ UNCHANGED <<xml, written>>
    BY <1>8 DEF ReadRecordSetting, xml
  <2>2. CASE conf'.at = "refused"
    <3>1. error \/ RecordSetting = 0
      BY <1>1, <1>8, <2>2 DEF ReadRecordSetting, Confs
    <3>2. ~Promise!Complete
      BY <2>1, <3>1, SoundReturns DEF Promise!Complete, Promise!Lists
    <3>3. Promise!Refuse
      BY <1>1, <2>1, <2>2, <3>2, Outcomes, NextOutcomes DEF Promise!Refuse
    <3> QED BY <1>2, <2>2, <3>3 DEF WholeIInv, Promise!Next
  <2>3. CASE conf'.at # "refused"
    <3>1. /\ conf' = [conf EXCEPT !.at = "event", !.lists = NoLists, !.result = TRUE]
          /\ ~error /\ RecordSetting # 0
      BY <1>1, <1>8, <2>3 DEF ReadRecordSetting, Confs
    <3>2. conf'.at = "event" /\ conf'.lists = NoLists /\ conf'.result = TRUE
      BY <1>1, <3>1 DEF Confs
    <3>3. Known(conf, {})'
      BY <3>2 DEF Known, NoLists
    <3>4. AllRead'
      BY <1>2, <2>1, <3>1, SoundReturns, SpoiledReturns, ReadStays
    <3>5. Undecided
      BY <1>1, <2>1, <3>2, Outcomes, NextOutcomes DEF Undecided
    <3> QED BY <1>2, <2>1, <3>2, <3>3, <3>4, <3>5 DEF WholeIInv
  <2> QED BY <2>2, <2>3
<1> QED BY <1>6, <1>7, <1>8

(* The steps that read the lists.                                          *)
LEMMA WholeReads ==
    ASSUME WholeIInv, ReadEvent \/ ReadFeedback \/ ReadEffect
    PROVE  WholeIInv' /\ (Promise!Next \/ Undecided)
<1>1. /\ XmlInv /\ 1 \in DOMAIN nodes /\ conf \in Confs /\ frames = <<>>
      /\ conf.at \in {"event", "feedback", "effect"}
      /\ written' = written /\ UNCHANGED xml
  BY DEF WholeIInv, ConfIInv, ReadEvent, ReadFeedback, ReadEffect
<1>2. ConfIInv'
  BY ConfNextKeeps DEF WholeIInv, ConfNext
<1>3. frames' = <<>> /\ AllRead' /\ Covered'
  <2>1. AllRead /\ Covered
    BY <1>1 DEF WholeIInv
  <2>2. Covered'
    BY <1>1, <2>1 DEF Covered
  <2>3. frames' = <<>>
    BY <1>1 DEF xml
  <2>4. XmlInv'
    BY <1>2 DEF ConfIInv
  <2> QED BY <1>1, <2>1, <2>2, <2>3, <2>4, ReadStays
<1>4. /\ ReadAs("Event", "Type", "EventType")
      /\ ReadAs("Feedback", "Attitude", "FeedbackAttitude")
      /\ ReadAs("Feedback", "Type", "FeedbackType")
      /\ ReadAs("Effect", "Level", "EffectLevel")
  <2>1. AllRead /\ \A list \in Lists : written.elements[list] \in Seq(Texts \cup {Blank})
    BY <1>1, CoveredFile DEF WholeIInv, ConfIInv
  <2> QED BY <2>1, ListsAreRead DEF ListsFound
<1>5. \A name : FirstChildElement(RecordSetting, name) \in 0 .. Len(nodes)
  <2>1. RecordSetting \in 0 .. Len(nodes)
    BY <1>1, RootFound
  <2> QED BY <1>1, <2>1, ElementsFound
<1>6. ASSUME NEW c \in Confs, NEW at \in {"feedback", "effect", "accepted", "refused"},
             NEW lists, Known(c, lists), conf' = [c EXCEPT !.at = at]
      PROVE  Known(conf, lists)' /\ conf'.at = at /\ conf'.lists = c.lists /\ conf'.result = c.result
  <2>1. conf'.at = at /\ conf'.lists = c.lists /\ conf'.result = c.result
    BY <1>6 DEF Confs
  <2> QED BY <1>1, <1>6, <2>1 DEF Known
<1>7. CASE ReadEvent
  <2> DEFINE c == Adding(conf, "EventType", FirstChildElement(RecordSetting, "Event"), "Type")
  <2>1. Known(conf, {}) /\ conf.at = "event"
    BY <1>7 DEF WholeIInv, ReadEvent
  <2>2. c \in Confs /\ Known(c, {} \cup {"EventType"})
    BY <1>1, <1>4, <1>5, <2>1, KnownAdds DEF Lists
  <2>3. conf' = [c EXCEPT !.at = "feedback"]
    BY <1>7 DEF ReadEvent
  <2>4. {} \cup {"EventType"} = {"EventType"}
    OBVIOUS
  <2> HIDE DEF c
  <2>5. Known(conf, {"EventType"})' /\ conf'.at = "feedback"
    BY <1>6, <2>2, <2>3, <2>4
  <2>6. Undecided
    BY <1>1, <2>1, <2>5, Outcomes, NextOutcomes DEF Undecided
  <2> QED BY <1>1, <1>2, <1>3, <2>5, <2>6 DEF WholeIInv
<1>8. CASE ReadFeedback
  <2> DEFINE feedback == FirstChildElement(RecordSetting, "Feedback")
             c == Adding(conf, "FeedbackAttitude", feedback, "Attitude")
             d == Adding(c, "FeedbackType", feedback, "Type")
             both == {"EventType", "FeedbackAttitude"}
             all == {"EventType", "FeedbackAttitude", "FeedbackType"}
  <2>1. Known(conf, {"EventType"}) /\ conf.at = "feedback"
    BY <1>8 DEF WholeIInv, ReadFeedback
  <2>2. c \in Confs /\ Known(c, {"EventType"} \cup {"FeedbackAttitude"})
    BY <1>1, <1>4, <1>5, <2>1, KnownAdds DEF Lists
  <2>3. {"EventType"} \cup {"FeedbackAttitude"} = both
    OBVIOUS
  <2>4. FirstChildElement(feedback, "Attitude") = 0 <=> written.elements["FeedbackAttitude"] = <<>>
    BY <1>4 DEF ReadAs
  <2>5. Known(conf, all)' /\ conf'.at = "effect"
    <3>1. CASE FirstChildElement(feedback, "Attitude") = 0
      <4>1. conf' = [c EXCEPT !.at = "effect"]
        BY <1>8, <3>1 DEF ReadFeedback
      <4> HIDE DEF c
      <4>2. Known(c, both)
        BY <2>2, <2>3
      <4>3. written.elements["FeedbackAttitude"] = <<>>
        BY <2>4, <3>1
      <4>4. ~c.result
        BY <4>2, <4>3 DEF Known
      <4>5. Known(c, all)
        BY <4>2, <4>3, <4>4 DEF Known
      <4> QED BY <1>6, <2>2, <4>1, <4>5
    <3>2. CASE FirstChildElement(feedback, "Attitude") # 0
      <4>1. conf' = [d EXCEPT !.at = "effect"]
        BY <1>8, <3>2 DEF ReadFeedback
      <4>2. d \in Confs /\ Known(d, both \cup {"FeedbackType"})
        <5> HIDE DEF c
        <5>1. both \in SUBSET Lists /\ "FeedbackType" \in Lists \ both
          BY DEF Lists
        <5> HIDE DEF both
        <5> QED BY <1>1, <1>4, <1>5, <2>2, <2>3, <5>1, KnownAdds
      <4>3. both \cup {"FeedbackType"} = all
        OBVIOUS
      <4> HIDE DEF d, both, all
      <4> QED BY <1>6, <4>1, <4>2, <4>3
    <3> QED BY <3>1, <3>2
  <2>6. Undecided
    BY <1>1, <2>1, <2>5, Outcomes, NextOutcomes DEF Undecided
  <2> QED BY <1>1, <1>2, <1>3, <2>5, <2>6 DEF WholeIInv
<1>9. CASE ReadEffect
  <2> DEFINE c == Adding(conf, "EffectLevel", FirstChildElement(RecordSetting, "Effect"), "Level")
             three == {"EventType", "FeedbackAttitude", "FeedbackType"}
  <2>1. Known(conf, three) /\ conf.at = "effect"
    BY <1>9 DEF WholeIInv, ReadEffect
  <2>2. c \in Confs /\ Known(c, three \cup {"EffectLevel"})
    <3>1. three \in SUBSET Lists /\ "EffectLevel" \in Lists \ three
      BY DEF Lists
    <3> HIDE DEF three
    <3> QED BY <1>1, <1>4, <1>5, <2>1, <3>1, KnownAdds
  <2>3. three \cup {"EffectLevel"} = Lists
    BY DEF Lists
  <2>4. conf' = [c EXCEPT !.at = IF c.result THEN "accepted" ELSE "refused"]
    BY <1>9 DEF ReadEffect
  <2> HIDE DEF c, three
  <2>5. Known(c, Lists)
    BY <2>2, <2>3
  <2>6. conf'.at = (IF c.result THEN "accepted" ELSE "refused") /\ conf'.lists = c.lists
    BY <1>6, <2>2, <2>4, <2>5
  <2>7. CASE c.result
    <3>1. c.lists = [list \in Lists |-> Promise!Listed(written.elements[list])]
      <4>1. c.lists \in [Lists -> Seq(Texts)]
        BY <2>2 DEF Confs
      <4>2. \A list \in Lists : c.lists[list] = Promise!Listed(written.elements[list])
        BY <2>5, <2>7 DEF Known
      <4> QED BY <4>1, <4>2
    <3>2. Promise!Accept
      <4>1. Outcome = Promise!Unread
        BY <2>1, Outcomes
      <4>2. Outcome' = [outcome |-> "accepted", lists |-> c.lists]
        BY <2>6, <2>7, NextOutcomes
      <4>3. Promise!Lists = Lists
        BY DEF Promise!Lists, Lists
      <4> QED BY <1>1, <3>1, <4>1, <4>2, <4>3 DEF Promise!Accept
    <3> QED BY <1>1, <1>2, <1>3, <2>6, <2>7, <3>2 DEF WholeIInv, Promise!Next
  <2>8. CASE ~c.result
    <3>1. \E list \in Lists : written.elements[list] = <<>>
      BY <2>5, <2>8 DEF Known
    <3>2. ~Promise!Complete
      BY <3>1 DEF Promise!Complete, Promise!Lists, Lists
    <3>3. Promise!Refuse
      BY <1>1, <2>1, <2>6, <2>8, <3>2, Outcomes, NextOutcomes DEF Promise!Refuse
    <3> QED BY <1>1, <1>2, <1>3, <2>6, <2>8, <3>3 DEF WholeIInv, Promise!Next
  <2> QED BY <2>7, <2>8
<1> QED BY <1>7, <1>8, <1>9

LEMMA WholeNext ==
    ASSUME WholeIInv, ConfNext \/ UNCHANGED vars
    PROVE  WholeIInv' /\ (Promise!Next \/ Undecided)
<1>1. CASE ConfNext
  BY <1>1, WholeParses, WholeReads DEF ConfNext
<1>2. CASE UNCHANGED vars
  <2>1. ConfIInv'
    BY <1>2, ConfNextKeeps DEF WholeIInv
  <2>2. conf' = conf /\ written' = written /\ UNCHANGED xml /\ frames' = frames
    BY <1>2 DEF vars, xml
  <2>3. Covered' /\ (Parses => Parses')
    BY <2>2 DEF WholeIInv, Covered, Parses, Tracking, Leaving, Departing, Departed, Reading, Arrived, Overruns,
                InLastTag, Returned, Over, IsAt, Frame, AtEnd, xml
  <2>4. AllRead => AllRead'
    BY <2>1, <2>2, ReadStays DEF ConfIInv
  <2>5. WholeIInv'
    BY <2>1, <2>2, <2>3, <2>4 DEF WholeIInv, Known
  <2>6. Undecided
    BY <1>2 DEF Undecided, Outcome, vars
  <2> QED BY <2>5, <2>6
<1> QED BY <1>1, <1>2

(* A file that is readable, complete and well formed, and one that departs *)
(* from such a text anywhere, because it ends or has a mistake there, is   *)
(* read as promised in Configuration.tla: it is accepted with every text   *)
(* of every element, in their order, whatever else is in the file, or it   *)
(* is refused, and a sound one is refused only if a list has no element.   *)
(* Nothing is assumed of the memory behind the text, but for a file that   *)
(* ends in a comment, in CDATA or in a quoted value: what the parser reads *)
(* behind such a text is undefined, and the theorem is about the case that *)
(* no part of a tag is there.                                              *)
THEOREM ReadAsPromised ==
    ConfSpec /\ (written.sound \/ (Spoiled(written) /\ (Overruns(written.text) => IdleMemory)))
      => WholeOrRefused
<1>1. ConfInit /\ (written.sound \/ (Spoiled(written) /\ (Overruns(written.text) => IdleMemory)))
        => WholeIInv /\ Promise!Init
  <2> SUFFICES ASSUME ConfInit, Covered PROVE WholeIInv /\ Promise!Init
    BY DEF Covered
  <2>1. ConfIInv /\ conf.at = "start"
    BY ConfInitHolds DEF ConfInit
  <2> QED BY <2>1, Outcomes DEF WholeIInv, Promise!Init
<1>2. WholeIInv /\ [ConfNext]_vars => WholeIInv' /\ [Promise!Next]_<<written, Outcome>>
  BY WholeNext DEF Undecided
<1> QED BY <1>1, <1>2, PTL DEF ConfSpec, WholeOrRefused, Promise!Safety
=============================================================================
