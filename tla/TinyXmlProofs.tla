--------------------------- MODULE TinyXmlProofs ----------------------------
(***************************************************************************)
(* Proofs about the parser TinyXml, for texts of any kind that end         *)
(* anywhere: its tree is sound after every step, and every step goes       *)
(* forward. A well-formed text becomes a tree that is this text; one that  *)
(* departs from a well-formed text becomes, if there is no error, a tree   *)
(* that is this text up to the place where it departs.                     *)
(*                                                                         *)
(* The nodes on the stack of calls are not linked yet, and that is what    *)
(* makes the lists of children hard: while an element is read, nodes that  *)
(* are younger than it are linked before it. FramesInv says that these are *)
(* all below it, so that it still becomes the last child of its parent.    *)
(***************************************************************************)
EXTENDS TinyXml, DataLemmas

(* L is the set of linked nodes of this tree.                              *)
Chained(tree, L) ==
    /\ L \subseteq DOMAIN tree
    /\ \A n \in L :
         /\ tree[n].parent \in DOMAIN tree /\ tree[n].parent < n
         /\ n <= tree[tree[n].parent].last
         /\ IF tree[n].prev = 0
            THEN tree[tree[n].parent].first = n
            ELSE tree[n].prev < n /\ tree[n].prev \in L
                   /\ tree[tree[n].prev].next = n
                   /\ tree[tree[n].prev].parent = tree[n].parent
         /\ IF tree[n].next = 0
            THEN tree[tree[n].parent].last = n
            ELSE n < tree[n].next /\ tree[n].next \in L
                   /\ tree[tree[n].next].prev = n
                   /\ tree[tree[n].next].parent = tree[n].parent
    /\ \A n \in DOMAIN tree : \A child \in {tree[n].first, tree[n].last} \ {0} :
         child \in L /\ tree[child].parent = n
    /\ \A n \in DOMAIN tree \ L : tree[n].prev = 0 /\ tree[n].next = 0

(* The calls of Parse, from the document down to the element being read.   *)
FramesInv ==
    /\ frames # <<>> => frames[1].node = 1 /\ frames[1].at = "document"
    /\ \A i \in DOMAIN frames :
         /\ frames[i].node \in DOMAIN nodes
         /\ i # 1 => /\ frames[i].at # "document"
                     /\ nodes[frames[i].node].parent = frames[i - 1].node
                     /\ \A n \in DOMAIN nodes :
                          n > frames[i].node => nodes[n].parent >= frames[i].node
    /\ \A i, j \in DOMAIN frames : i < j => frames[i].node < frames[j].node

(* Text nodes are not blank: a blank text is not linked, and white space   *)
(* that CDATA keeps is not blank.                                          *)
ValuesInv == \A n \in DOMAIN nodes : nodes[n].type = "TEXT" => nodes[n].value \in Texts

XmlInv == XmlTypeOK /\ FramesInv /\ ValuesInv /\ Chained(nodes, Linked)

-----------------------------------------------------------------------------
(* The tree                                                                *)

(* next is tree with n linked as the last child of its parent.             *)
IsLinked(tree, n, after) ==
    LET p == tree[n].parent
        last == tree[p].last
    IN  /\ DOMAIN after = DOMAIN tree
        /\ \A m \in DOMAIN tree :
             /\ after[m].type = tree[m].type
             /\ after[m].value = tree[m].value
             /\ after[m].parent = tree[m].parent
             /\ after[m].prev = IF m = n THEN last ELSE tree[m].prev
             /\ after[m].next = IF m = last THEN n ELSE tree[m].next
             /\ after[m].first = IF m = p /\ last = 0 THEN n ELSE tree[m].first
             /\ after[m].last = IF m = p THEN n ELSE tree[m].last

(* LinkEndChild sets the pointers of the node, of its parent and of the    *)
(* sibling that was last, and nothing else.                                *)
LEMMA LinkEndChildLinks ==
    ASSUME NEW tree \in Seq(Nodes), NEW n \in DOMAIN tree,
           tree[n].parent \in DOMAIN tree, tree[n].parent # n,
           tree[tree[n].parent].last = 0
             \/ /\ tree[tree[n].parent].last \in DOMAIN tree
                /\ tree[tree[n].parent].last \notin {n, tree[n].parent}
    PROVE  /\ LinkEndChild(tree, n) \in Seq(Nodes)
           /\ Len(LinkEndChild(tree, n)) = Len(tree)
           /\ IsLinked(tree, n, LinkEndChild(tree, n))
<1> DEFINE p == tree[n].parent
           last == tree[p].last
           linked == [tree EXCEPT ![n].prev = last, ![p].last = n]
           ifFirst == [linked EXCEPT ![p].first = n]
           ifNext == [linked EXCEPT ![last].next = n]
<1>1. DOMAIN tree = 1 .. Len(tree) /\ Len(tree) \in Nat /\ n \in Nat /\ 0 \notin DOMAIN tree
  <2>1. DOMAIN tree = 1 .. Len(tree) /\ Len(tree) \in Nat
    BY LenProperties
  <2> QED BY <2>1
<1>2. \A m \in DOMAIN tree : tree[m] \in Nodes
  BY <1>1, ElementOfSeq
<1>3. LinkEndChild(tree, n) = IF last = 0 THEN ifFirst ELSE ifNext
  BY DEF LinkEndChild
<1>4. p \in DOMAIN tree /\ p # n /\ last \in Nat /\ (last = 0 \/ (last \in DOMAIN tree /\ last \notin {n, p}))
  BY <1>2 DEF Nodes
<1> HIDE DEF p, last
<1>5. DOMAIN linked = DOMAIN tree /\ \A m \in DOMAIN tree :
        /\ linked[m] \in Nodes
        /\ linked[m].type = tree[m].type
        /\ linked[m].value = tree[m].value
        /\ linked[m].parent = tree[m].parent
        /\ linked[m].prev = IF m = n THEN last ELSE tree[m].prev
        /\ linked[m].next = tree[m].next
        /\ linked[m].first = tree[m].first
        /\ linked[m].last = IF m = p THEN n ELSE tree[m].last
  BY <1>1, <1>2, <1>4 DEF Nodes
<1> HIDE DEF linked
<1>6. CASE last = 0
  <2>1. DOMAIN ifFirst = DOMAIN tree /\ \A m \in DOMAIN tree :
          /\ ifFirst[m] \in Nodes
          /\ ifFirst[m].type = tree[m].type
          /\ ifFirst[m].value = tree[m].value
          /\ ifFirst[m].parent = tree[m].parent
          /\ ifFirst[m].prev = IF m = n THEN last ELSE tree[m].prev
          /\ ifFirst[m].next = tree[m].next
          /\ ifFirst[m].first = IF m = p THEN n ELSE tree[m].first
          /\ ifFirst[m].last = IF m = p THEN n ELSE tree[m].last
    <3>1. DOMAIN ifFirst = DOMAIN tree
      BY <1>5
    <3>2. \A m \in DOMAIN tree : ifFirst[m] = IF m = p THEN [linked[m] EXCEPT !.first = n] ELSE linked[m]
      BY <1>4, <1>5
    <3>3. ASSUME NEW r \in Nodes
          PROVE  LET s == [r EXCEPT !.first = n]
                 IN  /\ s \in Nodes /\ s.first = n /\ s.parent = r.parent
                     /\ s.prev = r.prev /\ s.next = r.next /\ s.last = r.last
                     /\ s.type = r.type /\ s.value = r.value
      BY <1>1 DEF Nodes
    <3>4. ASSUME NEW m \in DOMAIN tree
          PROVE  /\ ifFirst[m] \in Nodes /\ ifFirst[m].parent = linked[m].parent
                 /\ ifFirst[m].type = linked[m].type /\ ifFirst[m].value = linked[m].value
                 /\ ifFirst[m].prev = linked[m].prev /\ ifFirst[m].last = linked[m].last
                 /\ ifFirst[m].next = linked[m].next
                 /\ ifFirst[m].first = IF m = p THEN n ELSE linked[m].first
      <4>1. linked[m] \in Nodes
        BY <1>5
      <4> HIDE DEF ifFirst
      <4>2. CASE m = p
        BY <3>2, <3>3, <4>1, <4>2
      <4>3. CASE m # p
        BY <3>2, <4>1, <4>3
      <4> QED BY <4>2, <4>3
    <3> HIDE DEF ifFirst
    <3> QED BY <1>5, <3>1, <3>4
  <2>2. ifFirst \in [1 .. Len(tree) -> Nodes]
    <3>1. ifFirst = [m \in DOMAIN linked |-> ifFirst[m]]
      OBVIOUS
    <3> HIDE DEF ifFirst
    <3> QED BY <1>1, <1>5, <2>1, <3>1
  <2>3. ifFirst \in Seq(Nodes) /\ Len(ifFirst) = Len(tree)
    <3> HIDE DEF ifFirst
    <3> QED BY <1>1, <2>2, SeqDef, LenProperties
  <2> HIDE DEF ifFirst
  <2>4. IsLinked(tree, n, ifFirst)
    BY <1>1, <1>6, <2>1, SMTT(30) DEF IsLinked, p, last
  <2> QED BY <1>3, <1>6, <2>3, <2>4
<1>7. CASE last # 0
  <2>1. DOMAIN ifNext = DOMAIN tree /\ \A m \in DOMAIN tree :
          /\ ifNext[m] \in Nodes
          /\ ifNext[m].type = tree[m].type
          /\ ifNext[m].value = tree[m].value
          /\ ifNext[m].parent = tree[m].parent
          /\ ifNext[m].prev = IF m = n THEN last ELSE tree[m].prev
          /\ ifNext[m].next = IF m = last THEN n ELSE tree[m].next
          /\ ifNext[m].first = tree[m].first
          /\ ifNext[m].last = IF m = p THEN n ELSE tree[m].last
    <3>1. DOMAIN ifNext = DOMAIN tree
      BY <1>5
    <3>2. \A m \in DOMAIN tree : ifNext[m] = IF m = last THEN [linked[m] EXCEPT !.next = n] ELSE linked[m]
      BY <1>4, <1>5, <1>7
    <3>3. ASSUME NEW r \in Nodes
          PROVE  LET s == [r EXCEPT !.next = n]
                 IN  /\ s \in Nodes /\ s.next = n /\ s.parent = r.parent
                     /\ s.prev = r.prev /\ s.first = r.first /\ s.last = r.last
                     /\ s.type = r.type /\ s.value = r.value
      BY <1>1 DEF Nodes
    <3>4. ASSUME NEW m \in DOMAIN tree
          PROVE  /\ ifNext[m] \in Nodes /\ ifNext[m].parent = linked[m].parent
                 /\ ifNext[m].type = linked[m].type /\ ifNext[m].value = linked[m].value
                 /\ ifNext[m].prev = linked[m].prev /\ ifNext[m].last = linked[m].last
                 /\ ifNext[m].first = linked[m].first
                 /\ ifNext[m].next = IF m = last THEN n ELSE linked[m].next
      <4>1. linked[m] \in Nodes
        BY <1>5
      <4> HIDE DEF ifNext
      <4>2. CASE m = last
        BY <3>2, <3>3, <4>1, <4>2
      <4>3. CASE m # last
        BY <3>2, <4>1, <4>3
      <4> QED BY <4>2, <4>3
    <3> HIDE DEF ifNext
    <3> QED BY <1>5, <3>1, <3>4
  <2>2. ifNext \in [1 .. Len(tree) -> Nodes]
    <3>1. ifNext = [m \in DOMAIN linked |-> ifNext[m]]
      OBVIOUS
    <3> HIDE DEF ifNext
    <3> QED BY <1>1, <1>5, <2>1, <3>1
  <2>3. ifNext \in Seq(Nodes) /\ Len(ifNext) = Len(tree)
    <3> HIDE DEF ifNext
    <3> QED BY <1>1, <2>2, SeqDef, LenProperties
  <2> HIDE DEF ifNext
  <2>4. IsLinked(tree, n, ifNext)
    BY <1>7, <2>1 DEF IsLinked, p, last
  <2> QED BY <1>3, <1>7, <2>3, <2>4
<1> QED BY <1>6, <1>7

(* A node that is younger than its new siblings can be linked.             *)
LEMMA LinkKeeps ==
    ASSUME NEW tree \in Seq(Nodes), NEW after, NEW L, NEW n \in DOMAIN tree,
           Chained(tree, L), n \notin L, IsLinked(tree, n, after),
           tree[n].parent \in DOMAIN tree, tree[n].parent < n,
           \A m \in L : tree[m].parent = tree[n].parent => m < n
    PROVE  Chained(after, L \cup {n})
<1> DEFINE p == tree[n].parent
           last == tree[p].last
<1>1. /\ DOMAIN tree \subseteq Nat /\ 0 \notin DOMAIN tree
      /\ \A m \in DOMAIN tree : /\ tree[m].parent \in Nat /\ tree[m].prev \in Nat
                               /\ tree[m].next \in Nat /\ tree[m].first \in Nat
                               /\ tree[m].last \in Nat
  <2>1. DOMAIN tree = 1 .. Len(tree) /\ Len(tree) \in Nat
    BY LenProperties
  <2>2. \A m \in DOMAIN tree : tree[m] \in Nodes
    BY <2>1, ElementOfSeq
  <2>3. DOMAIN tree \subseteq Nat /\ 0 \notin DOMAIN tree
    BY <2>1
  <2>4. \A m \in DOMAIN tree : /\ tree[m].parent \in Nat /\ tree[m].prev \in Nat
                               /\ tree[m].next \in Nat /\ tree[m].first \in Nat
                               /\ tree[m].last \in Nat
    BY <2>2 DEF Nodes
  <2> QED BY <2>3, <2>4
<1>2. p \in DOMAIN tree /\ p < n /\ p \in Nat /\ n \in Nat /\ last \in Nat
  BY <1>1
<1>3. last = 0 \/ (last \in L /\ tree[last].parent = p /\ last < n /\ tree[last].next = 0)
  <2>1. ASSUME last # 0 PROVE last \in L /\ tree[last].parent = p /\ last < n /\ tree[last].next = 0
    <3>1. last \in L /\ tree[last].parent = p /\ last < n
      BY <1>2, <2>1 DEF Chained
    <3>2. last \in DOMAIN tree
      BY <3>1 DEF Chained
    <3>3. ASSUME tree[last].next # 0 PROVE FALSE
      <4>1. /\ tree[last].next \in L /\ last < tree[last].next
            /\ tree[tree[last].next].parent = p
        BY <3>1, <3>3 DEF Chained
      <4>2. tree[last].next <= last
        BY <4>1 DEF Chained
      <4>3. last \in Nat /\ tree[last].next \in Nat
        BY <1>1, <3>2
      <4> QED BY <4>1, <4>2, <4>3
    <3> QED BY <3>1, <3>3
  <2> QED BY <2>1
<1>4. /\ DOMAIN after = DOMAIN tree
      /\ \A m \in DOMAIN tree :
           /\ after[m].parent = tree[m].parent
           /\ after[m].prev = IF m = n THEN last ELSE tree[m].prev
           /\ after[m].next = IF m = last THEN n ELSE tree[m].next
           /\ after[m].first = IF m = p /\ last = 0 THEN n ELSE tree[m].first
           /\ after[m].last = IF m = p THEN n ELSE tree[m].last
  BY DEF IsLinked
<1>5. tree[n].prev = 0 /\ tree[n].next = 0
  BY DEF Chained
<1>6. L \subseteq DOMAIN tree
  BY DEF Chained
(* No sibling comes after the last.                                        *)
<1>7. \A m \in L : tree[m].parent = p => m <= last /\ last # 0
  <2> SUFFICES ASSUME NEW m \in L, tree[m].parent = p PROVE m <= last /\ last # 0
    OBVIOUS
  <2>1. m <= last
    BY DEF Chained
  <2> QED BY <1>1, <1>2, <1>6, <2>1
<1> HIDE DEF p, last
<1>8. ASSUME NEW m \in L \cup {n}
      PROVE  /\ after[m].parent \in DOMAIN after /\ after[m].parent < m
             /\ m <= after[after[m].parent].last
  <2>1. CASE m = n
    BY <1>2, <1>4, <2>1 DEF p
  <2>2. CASE m # n
    <3>1. /\ m \in L /\ tree[m].parent \in DOMAIN tree /\ tree[m].parent < m
          /\ m <= tree[tree[m].parent].last
      BY <2>2 DEF Chained
    <3>2. CASE tree[m].parent = p
      BY <1>1, <1>2, <1>4, <1>6, <3>1, <3>2 DEF p
    <3>3. CASE tree[m].parent # p
      BY <1>4, <1>6, <3>1, <3>3
    <3> QED BY <3>2, <3>3
  <2> QED BY <2>1, <2>2
<1>9. ASSUME NEW m \in L \cup {n}
      PROVE  IF after[m].prev = 0
             THEN after[after[m].parent].first = m
             ELSE after[m].prev < m /\ after[m].prev \in L \cup {n}
                    /\ after[after[m].prev].next = m
                    /\ after[after[m].prev].parent = after[m].parent
  <2>1. CASE m = n
    <3>1. after[m].prev = last /\ after[m].parent = p
      BY <1>4, <2>1 DEF p
    <3>2. CASE last = 0
      BY <1>2, <1>4, <2>1, <3>1, <3>2
    <3>3. CASE last # 0
      BY <1>3, <1>4, <1>6, <2>1, <3>1, <3>3
    <3> QED BY <3>2, <3>3
  <2>2. CASE m # n
    <3>1. /\ m \in L /\ m \in DOMAIN tree /\ tree[m].parent \in DOMAIN tree
          /\ IF tree[m].prev = 0
             THEN tree[tree[m].parent].first = m
             ELSE tree[m].prev < m /\ tree[m].prev \in L
                    /\ tree[tree[m].prev].next = m
                    /\ tree[tree[m].prev].parent = tree[m].parent
      BY <1>6, <2>2 DEF Chained
    <3>2. after[m].prev = tree[m].prev /\ after[m].parent = tree[m].parent
      BY <1>4, <2>2, <3>1
    <3>3. CASE tree[m].prev = 0
      <4>1. tree[m].parent = p => last # 0
        BY <1>7, <3>1
      <4> QED BY <1>4, <3>1, <3>2, <3>3, <4>1
    <3>4. CASE tree[m].prev # 0
      <4>1. tree[m].prev # last
        BY <1>1, <1>3, <3>1, <3>4
      <4> QED BY <1>4, <1>6, <3>1, <3>2, <3>4, <4>1
    <3> QED BY <3>3, <3>4
  <2> QED BY <2>1, <2>2
<1>10. ASSUME NEW m \in L \cup {n}
      PROVE  IF after[m].next = 0
             THEN after[after[m].parent].last = m
             ELSE m < after[m].next /\ after[m].next \in L \cup {n}
                    /\ after[after[m].next].prev = m
                    /\ after[after[m].next].parent = after[m].parent
  <2>1. CASE m = n
    <3>1. after[m].next = 0 /\ after[m].parent = p
      BY <1>2, <1>3, <1>4, <1>5, <2>1 DEF p
    <3> QED BY <1>2, <1>4, <2>1, <3>1
  <2>2. CASE m # n /\ m = last
    <3>1. /\ m \in L /\ m \in DOMAIN tree /\ m < n /\ tree[m].parent = p
      BY <1>1, <1>3, <1>6, <2>2
    <3>2. after[m].next = n /\ after[m].parent = p /\ after[n].prev = last /\ after[n].parent = p
      BY <1>4, <2>2, <3>1 DEF p
    <3> QED BY <1>1, <2>2, <3>1, <3>2
  <2>3. CASE m # n /\ m # last
    <3>1. /\ m \in L /\ m \in DOMAIN tree /\ tree[m].parent \in DOMAIN tree
          /\ IF tree[m].next = 0
             THEN tree[tree[m].parent].last = m
             ELSE m < tree[m].next /\ tree[m].next \in L
                    /\ tree[tree[m].next].prev = m
                    /\ tree[tree[m].next].parent = tree[m].parent
      BY <1>6, <2>3 DEF Chained
    <3>2. after[m].next = tree[m].next /\ after[m].parent = tree[m].parent
      BY <1>4, <2>3, <3>1
    <3>3. CASE tree[m].next = 0
      BY <1>4, <2>3, <3>1, <3>2, <3>3 DEF last
    <3>4. CASE tree[m].next # 0
      BY <1>4, <1>6, <3>1, <3>2, <3>4
    <3> QED BY <3>3, <3>4
  <2> QED BY <2>1, <2>2, <2>3
<1>11. ASSUME NEW m \in DOMAIN after, NEW child \in {after[m].first, after[m].last} \ {0}
       PROVE  child \in L \cup {n} /\ after[child].parent = m
  <2>1. m \in DOMAIN tree
    BY <1>4
  <2>2. CASE child = n /\ m = p
    BY <1>4, <2>2 DEF p
  <2>3. CASE ~ (child = n /\ m = p)
    <3>1. child \in {tree[m].first, tree[m].last} \ {0}
      BY <1>4, <2>1, <2>3
    <3>2. child \in L /\ tree[child].parent = m
      BY <2>1, <3>1 DEF Chained
    <3> QED BY <1>4, <1>6, <3>2
  <2> QED BY <2>2, <2>3
<1>12. ASSUME NEW m \in DOMAIN after \ (L \cup {n})
       PROVE  after[m].prev = 0 /\ after[m].next = 0
  <2>1. m \in DOMAIN tree \ L /\ m # n /\ m # last
    BY <1>1, <1>3, <1>4
  <2>2. tree[m].prev = 0 /\ tree[m].next = 0
    BY <2>1 DEF Chained
  <2> QED BY <1>4, <2>1, <2>2
<1>13. L \cup {n} \subseteq DOMAIN after
  BY <1>4, <1>6
<1> QED BY <1>8, <1>9, <1>10, <1>11, <1>12, <1>13 DEF Chained

(* A new node that is not linked yet changes nothing.                      *)
LEMMA GrowKeeps ==
    ASSUME NEW tree \in Seq(Nodes), NEW L, Chained(tree, L), NEW type \in NodeTypes,
           NEW value \in Names \cup Texts \cup {Blank}, NEW parent \in DOMAIN tree,
           NEW after, after = Append(tree, NewNode(type, value, parent))
    PROVE  /\ after \in Seq(Nodes) /\ Len(after) = Len(tree) + 1
           /\ DOMAIN after = DOMAIN tree \cup {Len(tree) + 1}
           /\ Len(tree) + 1 \notin DOMAIN tree /\ Len(tree) \in Nat
           /\ \A m \in DOMAIN tree : after[m] = tree[m]
           /\ after[Len(tree) + 1] = NewNode(type, value, parent)
           /\ Chained(after, L)
<1> DEFINE node == NewNode(type, value, parent)
<1>1. parent \in Nat
  BY LenProperties
<1>2. node \in Nodes /\ node.prev = 0 /\ node.next = 0 /\ node.first = 0 /\ node.last = 0
  BY <1>1 DEF NewNode, Nodes
<1> HIDE DEF node
<1>3. Appended(tree, after, node) /\ after \in Seq(Nodes)
  <2>1. after = Append(tree, node)
    BY DEF node
  <2> QED BY <1>2, <2>1, AppendPlaces, AppendProperties
<1>4. /\ Len(after) = Len(tree) + 1
      /\ DOMAIN after = DOMAIN tree \cup {Len(tree) + 1}
      /\ Len(tree) + 1 \notin DOMAIN tree /\ Len(tree) \in Nat
      /\ \A m \in DOMAIN tree : after[m] = tree[m]
      /\ after[Len(tree) + 1] = node
  BY <1>3 DEF Appended
<1>5. Chained(after, L)
  <2>1. L \subseteq DOMAIN tree
    BY DEF Chained
  <2>2. \A m \in L : after[m] = tree[m] /\ after[tree[m].parent] = tree[tree[m].parent]
                     /\ tree[m].parent \in DOMAIN after
    BY <1>4, <2>1 DEF Chained
  <2>3. \A m \in L : /\ tree[m].prev # 0 => after[tree[m].prev] = tree[tree[m].prev]
                     /\ tree[m].next # 0 => after[tree[m].next] = tree[tree[m].next]
    BY <1>4, <2>1 DEF Chained
  <2>4. \A m \in DOMAIN after : \A child \in {after[m].first, after[m].last} \ {0} :
          child \in L /\ after[child].parent = m
    BY <1>2, <1>4, <2>1 DEF Chained
  <2>5. \A m \in DOMAIN after \ L : after[m].prev = 0 /\ after[m].next = 0
    BY <1>2, <1>4 DEF Chained
  <2>6. \A m \in L :
         /\ after[m].parent \in DOMAIN after /\ after[m].parent < m
         /\ m <= after[after[m].parent].last
         /\ IF after[m].prev = 0
            THEN after[after[m].parent].first = m
            ELSE after[m].prev < m /\ after[m].prev \in L
                   /\ after[after[m].prev].next = m
                   /\ after[after[m].prev].parent = after[m].parent
         /\ IF after[m].next = 0
            THEN after[after[m].parent].last = m
            ELSE m < after[m].next /\ after[m].next \in L
                   /\ after[after[m].next].prev = m
                   /\ after[after[m].next].parent = after[m].parent
    BY <2>2, <2>3 DEF Chained
  <2> QED BY <1>4, <2>1, <2>4, <2>5, <2>6 DEF Chained
<1> QED BY <1>3, <1>4, <1>5 DEF node

(* A node whose siblings are older can be created and linked, or linked    *)
(* when its Parse returns.                                                 *)
LEMMA LinkIsSound ==
    ASSUME NEW tree \in Seq(Nodes), NEW L, NEW n \in DOMAIN tree, Chained(tree, L), n \notin L,
           tree[n].parent \in DOMAIN tree, tree[n].parent < n,
           \A m \in L : tree[m].parent = tree[n].parent => m < n
    PROVE  /\ LinkEndChild(tree, n) \in Seq(Nodes)
           /\ Len(LinkEndChild(tree, n)) = Len(tree)
           /\ \A m \in DOMAIN tree : /\ LinkEndChild(tree, n)[m].type = tree[m].type
                                    /\ LinkEndChild(tree, n)[m].value = tree[m].value
                                    /\ LinkEndChild(tree, n)[m].parent = tree[m].parent
           /\ Chained(LinkEndChild(tree, n), L \cup {n})
<1> DEFINE p == tree[n].parent
           last == tree[p].last
<1>1. ASSUME last # 0 PROVE last \in DOMAIN tree /\ last \notin {n, p}
  <2>1. last \in L /\ tree[last].parent = p /\ last \in DOMAIN tree
    BY <1>1 DEF Chained
  <2>2. p < last
    BY <2>1 DEF Chained
  <2>3. last # p
    <3>1. p \in Nat
      BY LenProperties
    <3> QED BY <2>2, <3>1
  <2> QED BY <2>1, <2>3
<1>2. p # n
  <2>1. p \in Nat
    BY LenProperties
  <2> QED BY <2>1
<1>3. /\ LinkEndChild(tree, n) \in Seq(Nodes)
      /\ Len(LinkEndChild(tree, n)) = Len(tree)
      /\ IsLinked(tree, n, LinkEndChild(tree, n))
  BY <1>1, <1>2, LinkEndChildLinks
<1>4. Chained(LinkEndChild(tree, n), L \cup {n})
  BY <1>3, LinkKeeps
<1> QED BY <1>3, <1>4 DEF IsLinked

-----------------------------------------------------------------------------
(* The text                                                                *)

(* Skipping white space gives a pointer again.                             *)
LEMMA SkipIsPosition ==
    ASSUME NEW text, NEW p \in Nat
    PROVE  SkipWhiteSpace(text, p) \in Nat
BY DEF SkipWhiteSpace

(* What is written in a lexeme depends on its kind.                        *)
LEMMA LexemeValue ==
    ASSUME NEW text \in Seq(Lexemes), NEW p \in DOMAIN text
    PROVE  /\ p \in Nat
           /\ text[p].kind \in Named => text[p].value \in Names
           /\ text[p].kind = "text" => text[p].value \in Texts \cup {Blank}
           /\ text[p].kind \in Verbatim => text[p].value \in Texts
           /\ text[p].kind \in Others => text[p].value = Blank
           /\ text[p].value \in Names \cup Texts \cup {Blank}
<1>1. DOMAIN text = 1 .. Len(text) /\ Len(text) \in Nat
  BY LenProperties
<1>2. text[p] \in Lexemes
  BY <1>1, ElementOfSeq
<1>3. text[p].kind \in Named => text[p].value \in Names
  BY <1>2 DEF Lexemes, Named, Verbatim, Others
<1>4. text[p].kind = "text" => text[p].value \in Texts \cup {Blank}
  BY <1>2 DEF Lexemes, Named, Verbatim, Others
<1>5. text[p].kind \in Verbatim => text[p].value \in Texts
  BY <1>2 DEF Lexemes, Named, Verbatim, Others
<1>6. text[p].kind \in Others => text[p].value = Blank
  BY <1>2 DEF Lexemes, Named, Verbatim, Others
<1>7. text[p].value \in Names \cup Texts \cup {Blank}
  BY <1>2 DEF Lexemes
<1> QED BY <1>1, <1>3, <1>4, <1>5, <1>6, <1>7

-----------------------------------------------------------------------------
(* The calls of Parse                                                      *)

(* A step of the parser leaves the nodes that are there where they are.    *)
Preserved(tree, after) ==
    \A m \in DOMAIN tree :
      /\ m \in DOMAIN after
      /\ after[m].type = tree[m].type
      /\ after[m].value = tree[m].value
      /\ after[m].parent = tree[m].parent

(* It adds one node to what the call on top reads.                         *)
Grown(type, value) ==
    /\ Preserved(nodes, nodes')
    /\ DOMAIN nodes' = DOMAIN nodes \cup {Len(nodes) + 1}
    /\ nodes'[Len(nodes) + 1].type = type
    /\ nodes'[Len(nodes) + 1].value = value
    /\ nodes'[Len(nodes) + 1].parent = Frame.node

(* The call on top is left.                                                *)
Popped ==
    /\ Len(frames') = Len(frames) - 1
    /\ DOMAIN frames' = 1 .. Len(frames) - 1
    /\ \A i \in DOMAIN frames' : frames'[i] = frames[i]

(* Another call comes on top of it.                                        *)
Pushed(frame) ==
    /\ Len(frames') = Len(frames) + 1
    /\ DOMAIN frames' = 1 .. Len(frames) + 1
    /\ \A i \in DOMAIN frames : frames'[i] = frames[i]
    /\ frames'[Len(frames) + 1] = frame

(* What is known of the call on top of the stack.                          *)
LEMMA TopFrame ==
    ASSUME XmlInv, frames # <<>>
    PROVE  /\ Len(frames) \in Nat \ {0} /\ DOMAIN frames = 1 .. Len(frames)
           /\ Frame = frames[Len(frames)] /\ Frame \in Frames
           /\ Frame.node \in DOMAIN nodes
           /\ Len(nodes) \in Nat \ {0} /\ DOMAIN nodes = 1 .. Len(nodes)
           /\ \A i \in DOMAIN frames : /\ frames[i] \in Frames
                                      /\ frames[i].node \in DOMAIN nodes
                                      /\ frames[i].node <= Frame.node
           /\ Frame.at # "document" => Len(frames) > 1
           /\ Frame.at = "document" => Len(frames) = 1
<1>1. frames \in Seq(Frames) /\ nodes \in Seq(Nodes)
  BY DEF XmlInv, XmlTypeOK
<1>2. Len(frames) \in Nat \ {0} /\ DOMAIN frames = 1 .. Len(frames)
  BY <1>1, LenProperties, EmptySeq
<1>3. Len(nodes) \in Nat /\ DOMAIN nodes = 1 .. Len(nodes)
  BY <1>1, LenProperties
<1>4. Frame = frames[Len(frames)]
  BY DEF Frame, Last
<1>5. \A i \in DOMAIN frames : frames[i] \in Frames /\ frames[i].node \in DOMAIN nodes
  BY <1>1, <1>2, ElementOfSeq DEF XmlInv, FramesInv
<1>6. Len(frames) \in DOMAIN frames /\ 1 \in DOMAIN frames
  BY <1>2
<1>7. \A i \in DOMAIN frames : frames[i].node <= Frame.node
  <2> SUFFICES ASSUME NEW i \in DOMAIN frames PROVE frames[i].node <= Frame.node
    OBVIOUS
  <2>1. frames[i].node \in Nat /\ frames[Len(frames)].node \in Nat
    BY <1>5, <1>6 DEF Frames
  <2>2. i = Len(frames) \/ i < Len(frames)
    BY <1>2
  <2>3. i < Len(frames) => frames[i].node < frames[Len(frames)].node
    BY <1>6 DEF XmlInv, FramesInv
  <2> QED BY <1>4, <2>1, <2>2, <2>3
<1>8. Frame.at # "document" => Len(frames) > 1
  <2>1. frames[1].at = "document"
    BY DEF XmlInv, FramesInv
  <2> QED BY <1>2, <1>4, <2>1
<1>9. Frame.at = "document" => Len(frames) = 1
  BY <1>4, <1>6 DEF XmlInv, FramesInv
<1> QED BY <1>2, <1>3, <1>4, <1>5, <1>6, <1>7, <1>8, <1>9

(* A node without children is created and linked at once.                  *)
LEMMA ChildKeeps ==
    ASSUME XmlInv, frames # <<>>, NEW type \in NodeTypes,
           NEW value \in Names \cup Texts \cup {Blank}, NEW text, NEW p \in Nat,
           type = "TEXT" => value \in Texts,
           file' \in Seq(Lexemes), Child(type, value, text, p)
    PROVE  XmlInv' /\ Grown(type, value)
<1> DEFINE n == Len(nodes) + 1
           tree == Append(nodes, NewNode(type, value, Frame.node))
<1>0. tree = Append(nodes, NewNode(type, value, Frame.node))
  OBVIOUS
<1>1. nodes \in Seq(Nodes) /\ Chained(nodes, Linked) /\ Frame.node \in DOMAIN nodes
      /\ DOMAIN nodes = 1 .. Len(nodes) /\ Len(nodes) \in Nat \ {0}
  BY TopFrame DEF XmlInv, XmlTypeOK
<1>2. /\ tree \in Seq(Nodes) /\ Len(tree) = n
      /\ DOMAIN tree = DOMAIN nodes \cup {n} /\ n \notin DOMAIN nodes
      /\ \A m \in DOMAIN nodes : tree[m] = nodes[m]
      /\ tree[n] = NewNode(type, value, Frame.node)
      /\ Chained(tree, Linked)
  <2> HIDE DEF tree
  <2>1. tree \in Seq(Nodes)
    BY <1>0, <1>1, GrowKeeps
  <2>2. tree[Len(nodes) + 1] = NewNode(type, value, Frame.node)
    BY <1>0, <1>1, GrowKeeps
  <2>3. Chained(tree, Linked)
    BY <1>0, <1>1, GrowKeeps
  <2>4. Len(tree) = Len(nodes) + 1
    BY <1>0, <1>1, GrowKeeps
  <2>5. DOMAIN tree = DOMAIN nodes \cup {Len(nodes) + 1}
    BY <1>0, <1>1, GrowKeeps
  <2>6. \A m \in DOMAIN nodes : tree[m] = nodes[m]
    BY <1>0, <1>1, GrowKeeps
  <2>7. Len(nodes) + 1 \notin DOMAIN nodes
    BY <1>0, <1>1, GrowKeeps
  <2> QED BY <2>1, <2>2, <2>3, <2>4, <2>5, <2>6, <2>7
<1>3. nodes' = LinkEndChild(tree, n) /\ frames' = frames /\ error' = error
      /\ pos' = SkipWhiteSpace(text, p)
  BY DEF Child
<1> HIDE DEF tree
<1>4. tree[n].parent = Frame.node
  BY <1>2 DEF NewNode
<1>41. tree[n].type = type /\ tree[n].value = value
  BY <1>2 DEF NewNode
<1>5. n \notin Linked /\ \A m \in Linked : m < n
  BY <1>1 DEF Linked
<1>6. tree[n].parent \in DOMAIN tree /\ tree[n].parent < n /\ n \in DOMAIN tree
  BY <1>1, <1>2, <1>4
<1>7. /\ nodes' \in Seq(Nodes) /\ Len(nodes') = n
      /\ \A m \in DOMAIN tree : /\ nodes'[m].type = tree[m].type
                               /\ nodes'[m].value = tree[m].value
                               /\ nodes'[m].parent = tree[m].parent
      /\ Chained(nodes', Linked \cup {n})
  BY <1>2, <1>3, <1>5, <1>6, LinkIsSound
<1>8. DOMAIN nodes' = DOMAIN nodes \cup {n}
  <2>1. DOMAIN nodes' = 1 .. n
    BY <1>7, LenProperties
  <2> QED BY <1>1, <2>1
<1>9. Linked' = Linked \cup {n}
  <2>1. n # 1 /\ \A i \in DOMAIN frames : frames[i].node # n
    BY <1>1, <1>2, TopFrame
  <2> QED BY <1>3, <1>8, <2>1 DEF Linked
<1>10. FramesInv'
  <2>1. frames' # <<>> => frames'[1].node = 1 /\ frames'[1].at = "document"
    BY <1>3 DEF XmlInv, FramesInv
  <2>2. \A i \in DOMAIN frames' : frames'[i].node \in DOMAIN nodes'
    BY <1>3, <1>8 DEF XmlInv, FramesInv
  <2>3. ASSUME NEW i \in DOMAIN frames', i # 1
        PROVE  /\ frames'[i].at # "document"
               /\ nodes'[frames'[i].node].parent = frames'[i - 1].node
               /\ \A m \in DOMAIN nodes' : m > frames'[i].node => nodes'[m].parent >= frames'[i].node
    <3>1. /\ frames[i].at # "document" /\ frames[i].node \in DOMAIN nodes
          /\ nodes[frames[i].node].parent = frames[i - 1].node
          /\ \A m \in DOMAIN nodes : m > frames[i].node => nodes[m].parent >= frames[i].node
      BY <1>3, <2>3 DEF XmlInv, FramesInv
    <3>2. nodes'[frames[i].node].parent = frames[i - 1].node
      BY <1>2, <1>7, <3>1
    <3>3. ASSUME NEW m \in DOMAIN nodes', m > frames[i].node
          PROVE  nodes'[m].parent >= frames[i].node
      <4>1. CASE m = n
        <5>1. nodes'[m].parent = Frame.node
          BY <1>2, <1>4, <1>7, <4>1
        <5>2. frames[i].node <= Frame.node /\ frames[i].node \in Nat /\ Frame.node \in Nat
          BY <1>1, <1>3, <3>1, TopFrame
        <5> QED BY <5>1, <5>2
      <4>2. CASE m \in DOMAIN nodes
        <5>1. nodes'[m].parent = nodes[m].parent
          BY <1>2, <1>7, <4>2
        <5> QED BY <3>1, <3>3, <4>2, <5>1
      <4> QED BY <1>8, <4>1, <4>2
    <3> QED BY <1>3, <3>1, <3>2, <3>3
  <2>4. \A i, j \in DOMAIN frames' : i < j => frames'[i].node < frames'[j].node
    BY <1>3 DEF XmlInv, FramesInv
  <2> QED BY <2>1, <2>2, <2>3, <2>4 DEF FramesInv
<1>11. XmlTypeOK'
  <2>1. pos' \in Nat
    BY <1>3, SkipIsPosition
  <2> QED BY <1>3, <1>7, <2>1 DEF XmlInv, XmlTypeOK
<1>12. ValuesInv'
  BY <1>2, <1>41, <1>7, <1>8 DEF XmlInv, ValuesInv
<1>13. Grown(type, value)
  BY <1>2, <1>4, <1>41, <1>6, <1>7, <1>8 DEF Grown, Preserved
<1> QED BY <1>7, <1>9, <1>10, <1>11, <1>12, <1>13 DEF XmlInv

(* An element is linked when its Parse returns.                            *)
LEMMA ReturnKeeps ==
    ASSUME XmlInv, frames # <<>>, Frame.at # "document", NEW p \in Nat,
           Return(p), error' \in BOOLEAN
    PROVE  XmlInv' /\ Preserved(nodes, nodes') /\ DOMAIN nodes' = DOMAIN nodes /\ Popped
<1> DEFINE k == Len(frames)
           n == Frame.node
<1>1. nodes \in Seq(Nodes) /\ frames \in Seq(Frames) /\ Chained(nodes, Linked)
  BY DEF XmlInv, XmlTypeOK
<1>2. /\ k \in Nat /\ k > 1 /\ DOMAIN frames = 1 .. k /\ n = frames[k].node
      /\ n \in DOMAIN nodes /\ DOMAIN nodes = 1 .. Len(nodes) /\ Len(nodes) \in Nat
      /\ k \in DOMAIN frames /\ k - 1 \in DOMAIN frames /\ k - 1 < k /\ k # 1
  BY TopFrame
<1> HIDE DEF n
<1>3. nodes' = LinkEndChild(nodes, n) /\ frames' = Front(frames)
      /\ pos' = SkipWhiteSpace(file, p) /\ file' = file
  BY DEF Return, n
<1>4. frames' \in Seq(Frames) /\ DOMAIN frames' = 1 .. k - 1
      /\ \A i \in 1 .. k - 1 : frames'[i] = frames[i]
  <2>1. Front(frames) = [i \in 1 .. k - 1 |-> frames[i]]
    BY <1>2 DEF Front
  <2>2. \A i \in 1 .. k - 1 : frames[i] \in Frames
    BY <1>1, <1>2, ElementOfSeq
  <2>3. k - 1 \in Nat
    BY <1>2
  <2>4. Front(frames) \in [1 .. k - 1 -> Frames]
    BY <2>1, <2>2
  <2>5. Front(frames) \in Seq(Frames)
    BY <2>3, <2>4, SeqDef
  <2> QED BY <1>3, <2>1, <2>5
<1>5. /\ nodes[n].parent = frames[k - 1].node /\ frames[k - 1].node < n
      /\ frames[k - 1].node \in DOMAIN nodes
      /\ \A m \in DOMAIN nodes : m > n => nodes[m].parent >= n
  BY <1>2 DEF XmlInv, FramesInv
<1>6. n \notin Linked /\ Linked \subseteq DOMAIN nodes
  BY <1>2 DEF Linked
<1>7. \A m \in Linked : nodes[m].parent = nodes[n].parent => m < n
  <2> SUFFICES ASSUME NEW m \in Linked, nodes[m].parent = nodes[n].parent PROVE m < n
    OBVIOUS
  <2>1. m \in DOMAIN nodes /\ m # n
    BY <1>6
  <2>2. m \in Nat /\ n \in Nat /\ frames[k - 1].node \in Nat
    BY <1>2, <1>5, <2>1
  <2>3. m > n => frames[k - 1].node >= n
    BY <1>5, <2>1
  <2> QED BY <1>5, <2>1, <2>2, <2>3
<1>8. /\ nodes' \in Seq(Nodes) /\ Len(nodes') = Len(nodes)
      /\ \A m \in DOMAIN nodes : /\ nodes'[m].type = nodes[m].type
                                /\ nodes'[m].value = nodes[m].value
                                /\ nodes'[m].parent = nodes[m].parent
      /\ Chained(nodes', Linked \cup {n})
  BY <1>1, <1>2, <1>3, <1>5, <1>6, <1>7, LinkIsSound
<1>9. DOMAIN nodes' = DOMAIN nodes
  BY <1>2, <1>8, LenProperties
<1>10. \A i \in 1 .. k - 1 : frames[i].node < n
  <2> SUFFICES ASSUME NEW i \in 1 .. k - 1 PROVE frames[i].node < n
    OBVIOUS
  <2>1. i \in DOMAIN frames /\ i < k
    BY <1>2
  <2> QED BY <1>2, <2>1 DEF XmlInv, FramesInv
<1>11. Linked' = Linked \cup {n}
  <2>1. n # 1
    <3>1. 1 \in 1 .. k - 1 /\ frames[1].node = 1
      BY <1>2 DEF XmlInv, FramesInv
    <3> QED BY <1>10, <3>1
  <2>2. \A i \in 1 .. k - 1 : frames'[i].node # n
    <3>1. n \in Nat /\ \A i \in 1 .. k - 1 : frames[i].node \in Nat
      BY <1>2, TopFrame, SMTT(30)
    <3> QED BY <1>4, <1>10, <3>1
  <2>3. \A i \in DOMAIN frames : i \in 1 .. k - 1 \/ i = k
    BY <1>2
  <2>4. 1 .. k - 1 \subseteq DOMAIN frames
    BY <1>2
  <2>5. ASSUME NEW m PROVE m \in Linked' <=> m \in Linked \cup {n}
    <3>1. m \in Linked' <=> (m \in DOMAIN nodes /\ m # 1 /\ \A i \in 1 .. k - 1 : frames[i].node # m)
      BY <1>4, <1>9 DEF Linked
    <3>2. CASE m = n
      BY <1>2, <1>4, <2>1, <2>2, <3>1, <3>2
    <3>3. CASE m # n
      <4>1. m \in Linked <=> (m \in DOMAIN nodes /\ m # 1 /\ \A i \in DOMAIN frames : frames[i].node # m)
        BY DEF Linked
      <4>2. frames[k].node # m
        BY <1>2, <3>3
      <4>3. (\A i \in 1 .. k - 1 : frames[i].node # m) <=> (\A i \in DOMAIN frames : frames[i].node # m)
        BY <2>3, <2>4, <4>2
      <4> QED BY <3>1, <3>3, <4>1, <4>3
    <3> QED BY <3>2, <3>3
  <2> QED BY <2>5
<1>12. FramesInv'
  <2>1. frames' # <<>> => frames'[1].node = 1 /\ frames'[1].at = "document"
    <3>1. 1 \in 1 .. k - 1
      BY <1>2
    <3> QED BY <1>4, <3>1 DEF XmlInv, FramesInv
  <2>2. ASSUME NEW i \in DOMAIN frames'
        PROVE  /\ frames'[i].node \in DOMAIN nodes'
               /\ i # 1 => /\ frames'[i].at # "document"
                           /\ nodes'[frames'[i].node].parent = frames'[i - 1].node
                           /\ \A m \in DOMAIN nodes' :
                                m > frames'[i].node => nodes'[m].parent >= frames'[i].node
    <3>1. i \in 1 .. k - 1 /\ i \in DOMAIN frames /\ (i # 1 => i - 1 \in 1 .. k - 1)
      BY <1>2, <1>4
    <3>2. frames'[i] = frames[i] /\ (i # 1 => frames'[i - 1] = frames[i - 1])
      BY <1>4, <3>1
    <3>3. frames[i].node \in DOMAIN nodes
      BY <3>1 DEF XmlInv, FramesInv
    <3>4. ASSUME i # 1
          PROVE  /\ frames[i].at # "document"
                 /\ nodes[frames[i].node].parent = frames[i - 1].node
                 /\ \A m \in DOMAIN nodes : m > frames[i].node => nodes[m].parent >= frames[i].node
      BY <3>1, <3>4 DEF XmlInv, FramesInv
    <3> QED BY <1>8, <1>9, <3>2, <3>3, <3>4
  <2>3. \A i, j \in DOMAIN frames' : i < j => frames'[i].node < frames'[j].node
    <3>1. 1 .. k - 1 \subseteq DOMAIN frames
      BY <1>2
    <3> QED BY <1>4, <3>1 DEF XmlInv, FramesInv
  <2> QED BY <2>1, <2>2, <2>3 DEF FramesInv
<1>13. XmlTypeOK'
  <2>1. pos' \in Nat
    BY <1>3, SkipIsPosition
  <2> QED BY <1>3, <1>4, <1>8, <2>1 DEF XmlInv, XmlTypeOK
<1>14. ValuesInv'
  BY <1>8, <1>9 DEF XmlInv, ValuesInv
<1>15. Preserved(nodes, nodes') /\ DOMAIN nodes' = DOMAIN nodes
  BY <1>8, <1>9 DEF Preserved
<1>16. Popped
  <2>1. Len(frames') \in Nat /\ DOMAIN frames' = 1 .. Len(frames') /\ k - 1 \in Nat
    <3>1. frames' \in Seq(Frames)
      BY <1>4
    <3>2. k - 1 \in Nat
      BY <1>2
    <3> QED BY <3>1, <3>2, LenProperties
  <2>2. Len(frames') = k - 1
    BY <1>4, <2>1, SameInterval
  <2> QED BY <1>2, <1>4, <2>2 DEF Popped
<1> QED BY <1>8, <1>11, <1>12, <1>13, <1>14, <1>15, <1>16 DEF XmlInv

(* An element that begins is not linked yet: its call goes on top.         *)
LEMMA ElementKeeps ==
    ASSUME XmlInv, Element
    PROVE  /\ XmlInv' /\ Grown("ELEMENT", file[pos].value)
           /\ Pushed([node |-> Len(nodes) + 1, at |-> "tag", attributes |-> {}])
<1> DEFINE n == Len(nodes) + 1
           k == Len(frames)
           f == [node |-> n, at |-> "tag", attributes |-> {}]
           value == file[pos].value
<1>1. frames # <<>> /\ file \in Seq(Lexemes) /\ pos \in DOMAIN file /\ file[pos].kind \in Named
  BY DEF Element, At, AtEnd, XmlInv, XmlTypeOK, Named
<1>2. value \in Names \cup Texts \cup {Blank} /\ pos \in Nat
  BY <1>1, LexemeValue
<1> HIDE DEF value
<1>3. /\ nodes' = Append(nodes, NewNode("ELEMENT", value, Frame.node))
      /\ frames' = Append(frames, f) /\ file' = file /\ error' = error
      /\ pos' = SkipWhiteSpace(file, pos + 1)
  BY DEF Element, value
<1>4. /\ nodes \in Seq(Nodes) /\ frames \in Seq(Frames) /\ Chained(nodes, Linked)
      /\ Frame.node \in DOMAIN nodes /\ "ELEMENT" \in NodeTypes
      /\ DOMAIN nodes = 1 .. Len(nodes) /\ Len(nodes) \in Nat \ {0}
      /\ k \in Nat \ {0} /\ DOMAIN frames = 1 .. k /\ Frame = frames[k]
  BY <1>1, TopFrame DEF XmlInv, XmlTypeOK, NodeTypes
<1>5. nodes' \in Seq(Nodes) /\ Chained(nodes', Linked)
  BY <1>2, <1>3, <1>4, GrowKeeps
<1>6. DOMAIN nodes' = DOMAIN nodes \cup {n} /\ n \notin DOMAIN nodes
  BY <1>2, <1>3, <1>4, GrowKeeps
<1>7. \A m \in DOMAIN nodes : nodes'[m] = nodes[m]
  BY <1>2, <1>3, <1>4, GrowKeeps
<1>8. nodes'[n].parent = Frame.node /\ nodes'[n].type = "ELEMENT"
  <2>1. nodes'[n] = NewNode("ELEMENT", value, Frame.node)
    BY <1>2, <1>3, <1>4, GrowKeeps
  <2> QED BY <2>1 DEF NewNode
<1>9. f \in Frames
  BY <1>4 DEF Frames
<1>10. /\ frames' \in Seq(Frames) /\ DOMAIN frames' = 1 .. k + 1 /\ frames'[k + 1] = f
       /\ \A i \in 1 .. k : frames'[i] = frames[i]
  <2>1. Appended(frames, frames', f) /\ frames' \in Seq(Frames)
    <3> HIDE DEF f
    <3> QED BY <1>3, <1>4, <1>9, AppendPlaces, AppendProperties
  <2> HIDE DEF f
  <2> QED BY <1>4, <2>1 DEF Appended
<1>11. Linked' = Linked
  <2>1. frames'[k + 1].node = n /\ k + 1 \in DOMAIN frames' /\ DOMAIN frames \subseteq DOMAIN frames'
    BY <1>4, <1>10
  <2>2. \A i \in DOMAIN frames' : i \in DOMAIN frames \/ i = k + 1
    BY <1>4, <1>10
  <2>3. ASSUME NEW m PROVE m \in Linked' <=> m \in Linked
    <3>1. CASE m = n
      BY <1>6, <2>1, <3>1 DEF Linked
    <3>2. CASE m # n
      <4>1. (\A i \in DOMAIN frames' : frames'[i].node # m) <=> (\A i \in DOMAIN frames : frames[i].node # m)
        BY <1>4, <1>10, <2>1, <2>2, <3>2
      <4> QED BY <1>6, <3>2, <4>1 DEF Linked
    <3> QED BY <3>1, <3>2
  <2> QED BY <2>3
<1>12. FramesInv'
  <2>1. frames'[1].node = 1 /\ frames'[1].at = "document"
    <3>1. 1 \in 1 .. k
      BY <1>4
    <3> QED BY <1>1, <1>10, <3>1 DEF XmlInv, FramesInv
  <2>2. ASSUME NEW i \in 1 .. k
        PROVE  /\ frames'[i].node \in DOMAIN nodes'
               /\ i # 1 => /\ frames'[i].at # "document"
                           /\ nodes'[frames'[i].node].parent = frames'[i - 1].node
                           /\ \A m \in DOMAIN nodes' :
                                m > frames'[i].node => nodes'[m].parent >= frames'[i].node
    <3>1. i \in DOMAIN frames /\ (i # 1 => i - 1 \in 1 .. k)
      BY <1>4
    <3>2. frames'[i] = frames[i] /\ (i # 1 => frames'[i - 1] = frames[i - 1])
      BY <1>10, <3>1
    <3>3. frames[i].node \in DOMAIN nodes
      BY <3>1 DEF XmlInv, FramesInv
    <3>4. ASSUME i # 1
          PROVE  /\ frames[i].at # "document"
                 /\ nodes[frames[i].node].parent = frames[i - 1].node
                 /\ \A m \in DOMAIN nodes : m > frames[i].node => nodes[m].parent >= frames[i].node
      BY <3>1, <3>4 DEF XmlInv, FramesInv
    <3>5. Frame.node >= frames[i].node
      <4>1. frames[i].node <= Frame.node /\ frames[i].node \in Nat /\ Frame.node \in Nat
        BY <1>1, <1>4, <3>1, <3>3, TopFrame
      <4> QED BY <4>1
    <3> QED BY <1>6, <1>7, <1>8, <3>2, <3>3, <3>4, <3>5
  <2>3. /\ frames'[k + 1].at # "document" /\ frames'[k + 1].node = n /\ n \in DOMAIN nodes'
        /\ nodes'[n].parent = frames'[k].node
        /\ \A m \in DOMAIN nodes' : ~ (m > n)
    <3>1. k \in 1 .. k
      BY <1>4
    <3> QED BY <1>4, <1>6, <1>8, <1>10, <3>1
  <2>4. \A i \in DOMAIN frames' : i \in 1 .. k \/ i = k + 1
    BY <1>4, <1>10
  <2>5. k + 1 - 1 = k
    BY <1>4
  <2>6. \A i, j \in DOMAIN frames' : i < j => frames'[i].node < frames'[j].node
    <3> SUFFICES ASSUME NEW i \in DOMAIN frames', NEW j \in DOMAIN frames', i < j
                 PROVE  frames'[i].node < frames'[j].node
      OBVIOUS
    <3>1. i \in 1 .. k
      BY <1>4, <1>10
    <3>2. frames'[i] = frames[i] /\ frames[i].node \in DOMAIN nodes
      BY <1>1, <1>4, <1>10, <3>1, TopFrame
    <3>3. CASE j = k + 1
      BY <1>4, <1>10, <3>2, <3>3
    <3>4. CASE j \in 1 .. k
      BY <1>4, <1>10, <3>1, <3>2, <3>4 DEF XmlInv, FramesInv
    <3> QED BY <2>4, <3>3, <3>4
  <2>7. ASSUME NEW i \in DOMAIN frames'
        PROVE  /\ frames'[i].node \in DOMAIN nodes'
               /\ i # 1 => /\ frames'[i].at # "document"
                           /\ nodes'[frames'[i].node].parent = frames'[i - 1].node
                           /\ \A m \in DOMAIN nodes' :
                                m > frames'[i].node => nodes'[m].parent >= frames'[i].node
    <3>1. CASE i \in 1 .. k
      BY <2>2, <3>1
    <3>2. CASE i = k + 1
      BY <2>3, <2>5, <3>2
    <3> QED BY <2>4, <3>1, <3>2
  <2> QED BY <2>1, <2>6, <2>7 DEF FramesInv
<1>13. XmlTypeOK'
  <2>1. pos' \in Nat
    BY <1>2, <1>3, SkipIsPosition
  <2> QED BY <1>3, <1>5, <1>10, <2>1 DEF XmlInv, XmlTypeOK
<1>14. ValuesInv'
  BY <1>6, <1>7, <1>8 DEF XmlInv, ValuesInv
<1>15. Grown("ELEMENT", value)
  <2>1. nodes'[n] = NewNode("ELEMENT", value, Frame.node)
    BY <1>2, <1>3, <1>4, GrowKeeps
  <2> QED BY <1>6, <1>7, <2>1 DEF Grown, Preserved, NewNode
<1>16. Pushed(f)
  BY <1>4, <1>10, LenProperties DEF Pushed
<1> QED BY <1>5, <1>11, <1>12, <1>13, <1>14, <1>15, <1>16 DEF XmlInv, value

(* The call on top goes on, in its tag or in its content.                  *)
LEMMA TopKeeps ==
    ASSUME XmlInv, frames # <<>>, Frame.at # "document", NEW f \in Frames,
           f.node = Frame.node, f.at # "document",
           frames' = [frames EXCEPT ![Len(frames)] = f],
           pos' \in Nat, file' \in Seq(Lexemes), nodes' = nodes, error' = error
    PROVE  XmlInv'
<1> DEFINE k == Len(frames)
<1>1. k \in Nat \ {0} /\ DOMAIN frames = 1 .. k /\ Frame = frames[k] /\ k > 1
  BY TopFrame
<1>2. DOMAIN frames' = DOMAIN frames /\ frames'[k] = f
      /\ \A i \in DOMAIN frames : i # k => frames'[i] = frames[i]
  BY <1>1
<1>3. \A i \in DOMAIN frames : frames'[i].node = frames[i].node
  BY <1>1, <1>2
<1>4. frames' \in Seq(Frames)
  BY <1>1, ExceptSeq DEF XmlInv, XmlTypeOK
<1>5. Linked' = Linked
  BY <1>2, <1>3 DEF Linked
<1>6. \A i \in DOMAIN frames : IF i = 1 THEN frames'[i] = frames[i] ELSE frames'[i].at # "document" /\ i - 1 \in DOMAIN frames
  BY <1>1, <1>2 DEF XmlInv, FramesInv
<1>7. frames'[1].node = 1 /\ frames'[1].at = "document"
  BY <1>1, <1>6 DEF XmlInv, FramesInv
<1>8. FramesInv'
  BY <1>2, <1>3, <1>6, <1>7 DEF XmlInv, FramesInv
<1>9. XmlTypeOK' /\ ValuesInv' /\ Chained(nodes', Linked')
  BY <1>4, <1>5 DEF XmlInv, XmlTypeOK, ValuesInv
<1> QED BY <1>8, <1>9 DEF XmlInv

(* The document's Parse ends: no element is being read.                    *)
LEMMA DocumentEndsKeeps ==
    ASSUME XmlInv, DocumentEnds
    PROVE  XmlInv'
<1>1. frames # <<>> /\ Frame.at = "document"
  BY DEF DocumentEnds
<1>2. Len(frames) = 1 /\ DOMAIN frames = 1 .. Len(frames) /\ Len(nodes) \in Nat \ {0}
      /\ DOMAIN nodes = 1 .. Len(nodes)
  BY <1>1, TopFrame
<1>3. \A i \in DOMAIN frames : frames[i].node = 1
  BY <1>1, <1>2 DEF XmlInv, FramesInv
<1>4. frames' = <<>> /\ nodes' = nodes /\ pos' = pos /\ file' = file
  BY DEF DocumentEnds
<1>5. Linked' = Linked
  <2>1. DOMAIN frames' = {}
    BY <1>4
  <2> QED BY <1>3, <1>4, <2>1 DEF Linked
<1>6. FramesInv'
  BY <1>4 DEF FramesInv
<1>7. XmlTypeOK'
  <2>1. error' \in BOOLEAN
    BY DEF DocumentEnds, XmlInv, XmlTypeOK
  <2>2. frames' \in Seq(Frames)
    BY <1>4, EmptySeq
  <2> QED BY <1>4, <2>1, <2>2 DEF XmlInv, XmlTypeOK
<1>8. Chained(nodes', Linked') /\ ValuesInv'
  BY <1>4, <1>5 DEF XmlInv, ValuesInv
<1> QED BY <1>6, <1>7, <1>8 DEF XmlInv

(* The actions that read one child, or skip a text without one.            *)
LEMMA ChildActionKeeps ==
    ASSUME XmlInv, Text \/ CData \/ Comment \/ BeyondTheEnd \/ Unknown \/ Declaration
    PROVE  XmlInv'
<1> DEFINE value == file[pos].value
<1>1. frames # <<>> /\ pos \in DOMAIN file /\ file \in Seq(Lexemes)
  BY DEF Text, CData, Comment, BeyondTheEnd, Unknown, Declaration, At, AtEnd, XmlInv, XmlTypeOK
<1>2. value \in Names \cup Texts \cup {Blank} /\ pos + 1 \in Nat
  <2>1. value \in Names \cup Texts \cup {Blank} /\ pos \in Nat
    BY <1>1, LexemeValue
  <2> QED BY <2>1
<1>3. {"TEXT", "COMMENT", "UNKNOWN", "DECLARATION"} \subseteq NodeTypes
  BY DEF NodeTypes
<1> HIDE DEF value
<1>4. CASE Text
  <2>1. CASE file[pos].value # Blank /\ Child("TEXT", value, file, pos + 1) /\ UNCHANGED file
    <3>1. value \in Texts
      BY <1>1, <1>4, <2>1, LexemeValue DEF Text, At, value
    <3> QED BY <1>1, <1>2, <1>3, <2>1, <3>1, ChildKeeps
  <2>2. CASE pos' = SkipWhiteSpace(file, pos + 1) /\ UNCHANGED <<frames, nodes, error, file>>
    <3>1. pos' \in Nat
      BY <1>2, <2>2, SkipIsPosition
    <3>2. Linked' = Linked
      BY <2>2 DEF Linked
    <3> QED BY <2>2, <3>1, <3>2 DEF XmlInv, XmlTypeOK, FramesInv, ValuesInv
  <2> QED BY <1>4, <2>1, <2>2 DEF Text, value
<1>5. CASE CData
  <2>1. value \in Texts
    BY <1>1, <1>5, LexemeValue DEF CData, At, Verbatim, value
  <2> QED BY <1>1, <1>2, <1>3, <1>5, <2>1, ChildKeeps DEF CData, value
<1>6. CASE Comment
  BY <1>1, <1>2, <1>3, <1>6, ChildKeeps DEF Comment
<1>7. CASE BeyondTheEnd
  <2>1. PICK rest \in Memory :
          /\ file' = file \o rest
          /\ Child(IF file[pos].kind = "commentcut" THEN "COMMENT" ELSE "TEXT",
                   value, file', pos + 1)
    BY <1>7 DEF BeyondTheEnd, value
  <2>2. rest \in Seq(Lexemes)
    BY MemoryAssumption
  <2>3. file' \in Seq(Lexemes)
    BY <1>1, <2>1, <2>2, ConcatProperties
  <2>4. CASE file[pos].kind = "commentcut"
    BY <1>1, <1>2, <1>3, <2>1, <2>3, <2>4, ChildKeeps
  <2>5. CASE file[pos].kind # "commentcut"
    <3>1. value \in Texts
      BY <1>1, <1>7, <2>5, LexemeValue DEF BeyondTheEnd, At, Verbatim, value
    <3> QED BY <1>1, <1>2, <1>3, <2>1, <2>3, <2>5, <3>1, ChildKeeps
  <2> QED BY <2>4, <2>5
<1>8. CASE Unknown
  BY <1>1, <1>2, <1>3, <1>8, ChildKeeps DEF Unknown
<1>9. CASE Declaration
  <2>1. PICK p \in Nat : Child("DECLARATION", Blank, file, p) /\ UNCHANGED file
    BY <1>2, <1>9 DEF Declaration
  <2> QED BY <1>1, <1>3, <2>1, ChildKeeps
<1> QED BY <1>4, <1>5, <1>6, <1>7, <1>8, <1>9

(* The actions of the call on top that leave or keep it.                   *)
LEMMA CallActionKeeps ==
    ASSUME XmlInv, Attribute \/ AttributeBeyond \/ EmptyTag \/ TagEnds \/ TagFails \/ EndTag \/ ContentEnds
    PROVE  XmlInv'
<1>1. frames # <<>> /\ Frame.at # "document" /\ error \in BOOLEAN /\ file \in Seq(Lexemes)
  BY DEF Attribute, AttributeBeyond, EmptyTag, TagEnds, TagFails, EndTag, ContentEnds, At, XmlInv, XmlTypeOK
<1>2. Frame \in Frames /\ Frame.node \in Nat /\ Frame.attributes \in SUBSET Names
      /\ Frame = frames[Len(frames)]
      /\ Len(frames) \in DOMAIN frames
  BY <1>1, TopFrame DEF Frames
<1>3. pos \in Nat /\ pos + 1 \in Nat
  BY DEF XmlInv, XmlTypeOK
<1>4. ASSUME Fail PROVE XmlInv'
  BY <1>1, <1>4, ReturnKeeps DEF Fail
<1>5. ASSUME NEW p \in Nat, Return(p), UNCHANGED error PROVE XmlInv'
  BY <1>1, <1>5, ReturnKeeps
<1>6. SkipWhiteSpace(file, pos + 1) \in Nat
  BY <1>3, SkipIsPosition
<1>7. CASE Attribute
  <2> DEFINE name == file[pos].value
             f == [Frame EXCEPT !.attributes = Frame.attributes \cup {name}]
  <2>1. CASE Fail
    BY <1>4, <2>1
  <2>2. CASE Return(0) /\ UNCHANGED error
    BY <1>5, <2>2
  <2>3. CASE /\ frames' = [frames EXCEPT ![Len(frames)].attributes = @ \cup {name}]
             /\ pos' = SkipWhiteSpace(file, pos + 1)
             /\ UNCHANGED <<file, nodes, error>>
    <3>1. pos \in DOMAIN file /\ file[pos].kind \in Named /\ Frame.at = "tag"
      BY <1>7 DEF Attribute, At, AtEnd, Named
    <3>2. name \in Names
      BY <1>1, <3>1, LexemeValue
    <3> HIDE DEF name
    <3>3. f \in Frames /\ f.node = Frame.node /\ f.at = "tag"
      BY <1>2, <3>1, <3>2 DEF Frames
    <3>4. frames' = [frames EXCEPT ![Len(frames)] = f]
      BY <1>2, <2>3
    <3> HIDE DEF f
    <3> QED BY <1>1, <1>6, <2>3, <3>3, <3>4, TopKeeps
  <2> QED BY <1>7, <2>1, <2>2, <2>3 DEF Attribute
<1>13. CASE AttributeBeyond
  <2> DEFINE name == file[pos].value
             f == [Frame EXCEPT !.attributes = Frame.attributes \cup {name}]
  <2>1. CASE Fail
    BY <1>4, <2>1
  <2>2. CASE Return(0) /\ UNCHANGED error
    BY <1>5, <2>2
  <2>3. ASSUME NEW rest \in MemoryInTag, file' = file \o rest,
               frames' = [frames EXCEPT ![Len(frames)].attributes = @ \cup {name}],
               pos' = SkipWhiteSpace(file', pos + 1), UNCHANGED <<nodes, error>>
        PROVE  XmlInv'
    <3>1. pos \in DOMAIN file /\ file[pos].kind \in Named /\ Frame.at = "tag"
      BY <1>13 DEF AttributeBeyond, At, AtEnd, Named
    <3>2. name \in Names
      BY <1>1, <3>1, LexemeValue
    <3> HIDE DEF name
    <3>3. f \in Frames /\ f.node = Frame.node /\ f.at = "tag"
      BY <1>2, <3>1, <3>2 DEF Frames
    <3>4. frames' = [frames EXCEPT ![Len(frames)] = f]
      BY <1>2, <2>3
    <3>5. file' \in Seq(Lexemes)
      BY <1>1, <2>3, MemoryAssumption, ConcatProperties
    <3>6. pos' \in Nat
      BY <1>3, <2>3, SkipIsPosition
    <3> HIDE DEF f
    <3> QED BY <1>1, <2>3, <3>3, <3>4, <3>5, <3>6, TopKeeps
  <2> QED BY <1>13, <2>1, <2>2, <2>3 DEF AttributeBeyond
<1>8. CASE EmptyTag
  BY <1>3, <1>5, <1>8 DEF EmptyTag
<1>9. CASE TagEnds
  <2> DEFINE f == [Frame EXCEPT !.at = "content"]
  <2>1. f \in Frames /\ f.node = Frame.node /\ f.at # "document"
    BY <1>2 DEF Frames
  <2>2. frames' = [frames EXCEPT ![Len(frames)] = f]
    BY <1>2, <1>9 DEF TagEnds
  <2> HIDE DEF f
  <2> QED BY <1>1, <1>6, <1>9, <2>1, <2>2, TopKeeps DEF TagEnds
<1>10. CASE TagFails
  BY <1>4, <1>10 DEF TagFails
<1>11. CASE EndTag
  BY <1>3, <1>4, <1>5, <1>11 DEF EndTag
<1>12. CASE ContentEnds
  BY <1>1, <1>12, ReturnKeeps DEF ContentEnds
<1> QED BY <1>7, <1>8, <1>9, <1>10, <1>11, <1>12, <1>13

(* Every step of the parser leaves the tree sound.                         *)
LEMMA ParseKeeps ==
    ASSUME XmlInv, Parse
    PROVE  XmlInv'
BY DocumentEndsKeeps, ElementKeeps, CallActionKeeps, ChildActionKeeps DEF Parse

(* A tree once begun has a node.                                           *)
LEMMA ParseKeepsDocument ==
    ASSUME XmlInv, Parse, 1 \in DOMAIN nodes
    PROVE  1 \in DOMAIN nodes'
<1>1. ASSUME NEW tree, NEW n PROVE DOMAIN LinkEndChild(tree, n) = DOMAIN tree
  BY DEF LinkEndChild
<1>2. ASSUME NEW x PROVE 1 \in DOMAIN Append(nodes, x)
  <2>1. DOMAIN Append(nodes, x) = 1 .. Len(nodes) + 1 /\ Len(nodes) \in Nat
    BY LenProperties DEF XmlInv, XmlTypeOK
  <2> QED BY <2>1
<1>3. nodes' = nodes \/ \E x, n : nodes' \in {LinkEndChild(nodes, n), Append(nodes, x),
                                           LinkEndChild(Append(nodes, x), n)}
  BY DEF Parse, DocumentEnds, Element, Attribute, AttributeBeyond, EmptyTag, TagEnds, TagFails, EndTag,
     ContentEnds, Text, CData, Comment, BeyondTheEnd, Unknown, Declaration, Fail, Return, Child
<1> QED BY <1>1, <1>2, <1>3

-----------------------------------------------------------------------------
(* The parser goes forward                                                 *)

(* Where p is in the text; NULL stands for its end.                        *)
PlaceIn(text, p) == IF p \in DOMAIN text THEN p ELSE Len(text) + 1

(* Skipping white space does not go back.                                  *)
LEMMA SkipAdvances ==
    ASSUME NEW text \in Seq(Lexemes), NEW p \in Nat
    PROVE  /\ PlaceIn(text, p) \in Nat
           /\ PlaceIn(text, SkipWhiteSpace(text, p)) \in Nat
           /\ PlaceIn(text, p) <= PlaceIn(text, SkipWhiteSpace(text, p))
           /\ PlaceIn(text, p) <= Len(text) + 1
           /\ p \in DOMAIN text => PlaceIn(text, p + 1) = p + 1
<1>1. DOMAIN text = 1 .. Len(text) /\ Len(text) \in Nat
  BY LenProperties
<1>2. 0 \notin DOMAIN text
  BY <1>1
<1>3. CASE p \notin DOMAIN text
  BY <1>1, <1>2, <1>3 DEF PlaceIn, SkipWhiteSpace
<1>4. CASE p \in DOMAIN text
  <2>1. p \in 1 .. Len(text) /\ (p + 1 \in DOMAIN text \/ p + 1 = Len(text) + 1)
    <3>1. p \in 1 .. Len(text)
      BY <1>1, <1>4
    <3>2. p + 1 \in 1 .. Len(text) \/ p + 1 = Len(text) + 1
      BY <1>1, <3>1
    <3> QED BY <1>1, <3>1, <3>2
  <2>2. SkipWhiteSpace(text, p) \in {p, p + 1}
    BY <1>4 DEF SkipWhiteSpace
  <2>3. PlaceIn(text, p + 1) = p + 1 /\ PlaceIn(text, p) = p
    BY <1>1, <1>4, <2>1 DEF PlaceIn
  <2> QED BY <1>1, <2>1, <2>2, <2>3
<1> QED BY <1>3, <1>4

(* A call of Parse reads a lexeme and calls at most once, or it returns.   *)
Forward == /\ PlaceIn(file, pos) < PlaceIn(file', pos')
           /\ Len(frames') <= Len(frames) + 1

Back == /\ PlaceIn(file, pos) <= PlaceIn(file', pos')
        /\ Len(frames') < Len(frames)

(* A step to behind the lexeme, and white space after it, is forward.      *)
LEMMA LexemeAdvances ==
    ASSUME XmlInv, pos \in DOMAIN file, file' \in Seq(Lexemes), Len(file) <= Len(file'),
           pos' = SkipWhiteSpace(file', pos + 1) \/ pos' = SkipWhiteSpace(file', 0),
           Len(frames') <= Len(frames) + 1
    PROVE  Forward
<1>1. DOMAIN file = 1 .. Len(file) /\ Len(file) \in Nat /\ DOMAIN file' = 1 .. Len(file')
      /\ Len(file') \in Nat
  BY LenProperties DEF XmlInv, XmlTypeOK
<1>2. pos \in 1 .. Len(file) /\ pos + 1 \in Nat /\ pos \in DOMAIN file'
  BY <1>1
<1>3. PlaceIn(file, pos) = pos
  BY DEF PlaceIn
<1>4. CASE pos' = SkipWhiteSpace(file', pos + 1)
  <2>1. PlaceIn(file', pos + 1) = pos + 1
    BY <1>2, SkipAdvances
  <2>2. PlaceIn(file', pos + 1) <= PlaceIn(file', pos') /\ PlaceIn(file', pos') \in Nat
    BY <1>2, <1>4, SkipAdvances
  <2> QED BY <1>2, <1>3, <2>1, <2>2 DEF Forward
<1>5. CASE pos' = SkipWhiteSpace(file', 0)
  <2>1. 0 \notin DOMAIN file'
    BY <1>1
  <2>2. PlaceIn(file', pos') = Len(file') + 1
    BY <1>5, <2>1 DEF PlaceIn, SkipWhiteSpace
  <2> QED BY <1>1, <1>2, <1>3, <2>2 DEF Forward
<1> QED BY <1>4, <1>5

(* To return goes back to the caller and not back in the text.             *)
LEMMA ReturnAdvances ==
    ASSUME XmlInv, frames # <<>>, Frame.at # "document", NEW p \in {0, pos + 1}, Return(p),
           error' \in BOOLEAN, p = pos + 1 => pos \in DOMAIN file
    PROVE  Back
<1>1. DOMAIN file = 1 .. Len(file) /\ Len(file) \in Nat /\ pos \in Nat /\ file \in Seq(Lexemes)
  BY LenProperties DEF XmlInv, XmlTypeOK
<1>2. /\ p \in Nat /\ PlaceIn(file, p) <= PlaceIn(file, SkipWhiteSpace(file, p))
      /\ PlaceIn(file, SkipWhiteSpace(file, p)) \in Nat /\ PlaceIn(file, p) \in Nat
      /\ PlaceIn(file, pos) \in Nat /\ PlaceIn(file, pos) <= Len(file) + 1
      /\ pos \in DOMAIN file => PlaceIn(file, pos + 1) = pos + 1
  <2>1. p \in Nat
    BY <1>1
  <2> QED BY <1>1, <2>1, SkipAdvances
<1>3. PlaceIn(file, pos) <= PlaceIn(file, p)
  <2>1. CASE p = 0
    <3>1. 0 \notin DOMAIN file
      BY <1>1
    <3> QED BY <1>2, <2>1, <3>1 DEF PlaceIn
  <2>2. CASE p = pos + 1
    <3>1. PlaceIn(file, pos) = pos
      BY <2>2 DEF PlaceIn
    <3> QED BY <1>1, <1>2, <2>2, <3>1
  <2> QED BY <2>1, <2>2
<1>4. Len(frames') < Len(frames)
  <2>1. Popped
    BY <1>2, ReturnKeeps
  <2>2. Len(frames) \in Nat
    BY TopFrame
  <2> QED BY <2>1, <2>2 DEF Popped
<1>5. file' = file /\ pos' = SkipWhiteSpace(file, p)
  BY DEF Return
<1> QED BY <1>2, <1>3, <1>4, <1>5 DEF Back


(* An action that reads a child, or begins one, goes forward.              *)
LEMMA ChildAdvances ==
    ASSUME XmlInv, XmlInv',
           Element \/ Text \/ CData \/ Comment \/ BeyondTheEnd \/ Unknown \/ Declaration
    PROVE  Forward
<1>1. pos \in DOMAIN file /\ file \in Seq(Lexemes) /\ file' \in Seq(Lexemes)
  BY DEF Element, Text, CData, Comment, BeyondTheEnd, Unknown, Declaration, At, AtEnd,
     XmlInv, XmlTypeOK
<1>2. Len(frames') <= Len(frames) + 1
  <2>1. Len(frames) \in Nat
    BY LenProperties DEF XmlInv, XmlTypeOK
  <2>2. CASE frames' = frames
    BY <2>1, <2>2
  <2>3. CASE Element
    <3>1. [node |-> Len(nodes) + 1, at |-> "tag", attributes |-> {}] \in Frames
      <4>1. Len(nodes) \in Nat
        BY LenProperties DEF XmlInv, XmlTypeOK
      <4> QED BY <4>1 DEF Frames
    <3>2. frames' = Append(frames, [node |-> Len(nodes) + 1, at |-> "tag", attributes |-> {}])
      BY <2>3 DEF Element
    <3>3. Len(frames') = Len(frames) + 1
      BY <3>1, <3>2, AppendProperties DEF XmlInv, XmlTypeOK
    <3> QED BY <2>1, <3>3
  <2> QED BY <2>2, <2>3 DEF Text, CData, Comment, BeyondTheEnd, Unknown, Declaration, Child
<1>3. Len(file) <= Len(file')
  <2>1. Len(file) \in Nat
    BY <1>1, LenProperties
  <2>2. CASE file' = file
    BY <2>1, <2>2
  <2>3. CASE BeyondTheEnd
    <3>1. PICK rest \in Memory : file' = file \o rest
      BY <2>3 DEF BeyondTheEnd
    <3>2. Len(file') = Len(file) + Len(rest) /\ Len(rest) \in Nat
      BY <1>1, <3>1, MemoryAssumption, ConcatProperties, LenProperties
    <3> QED BY <2>1, <3>2
  <2> QED BY <2>2, <2>3 DEF Element, Text, CData, Comment, Unknown, Declaration
<1>4. pos' = SkipWhiteSpace(file', pos + 1) \/ pos' = SkipWhiteSpace(file', 0)
  BY DEF Element, Text, CData, Comment, BeyondTheEnd, Unknown, Declaration, Child
<1> QED BY <1>1, <1>2, <1>3, <1>4, LexemeAdvances

(* An action of the call on top goes forward in its tag, or returns.       *)
LEMMA CallAdvances ==
    ASSUME XmlInv, XmlInv',
           Attribute \/ AttributeBeyond \/ EmptyTag \/ TagEnds \/ TagFails \/ EndTag \/ ContentEnds
    PROVE  Forward \/ Back
<1>1. frames # <<>> /\ Frame.at # "document" /\ error' \in BOOLEAN /\ file \in Seq(Lexemes)
      /\ pos \in Nat
  BY DEF Attribute, AttributeBeyond, EmptyTag, TagEnds, TagFails, EndTag, ContentEnds, At, XmlInv, XmlTypeOK
<1>2. ASSUME Return(0) PROVE Back
  BY <1>1, <1>2, ReturnAdvances
<1>3. ASSUME Return(pos + 1), pos \in DOMAIN file PROVE Back
  BY <1>1, <1>3, ReturnAdvances
<1>4. ASSUME pos' = SkipWhiteSpace(file', pos + 1), pos \in DOMAIN file,
             file' \in Seq(Lexemes), Len(file) <= Len(file'),
             NEW f, frames' = [frames EXCEPT ![Len(frames)] = f]
      PROVE  Forward
  <2>1. DOMAIN frames' = DOMAIN frames /\ frames' \in Seq(Frames) /\ frames \in Seq(Frames)
    BY <1>4 DEF XmlInv, XmlTypeOK
  <2>2. /\ DOMAIN frames = 1 .. Len(frames) /\ Len(frames) \in Nat
        /\ DOMAIN frames' = 1 .. Len(frames') /\ Len(frames') \in Nat
    BY <2>1, LenProperties
  <2>3. Len(frames') = Len(frames)
    BY <2>1, <2>2, SameInterval
  <2>4. Len(file) \in Nat
    BY <1>1, LenProperties
  <2> QED BY <1>1, <1>4, <2>2, <2>3, <2>4, LexemeAdvances
<1>11. Len(file) \in Nat /\ Len(file) <= Len(file)
  BY <1>1, LenProperties
<1>5. CASE Attribute
  <2>1. pos \in DOMAIN file
    BY <1>5 DEF Attribute, At, AtEnd
  <2>2. CASE Return(0)
    BY <1>2, <2>2
  <2>3. CASE /\ frames' = [frames EXCEPT ![Len(frames)].attributes = @ \cup {file[pos].value}]
             /\ pos' = SkipWhiteSpace(file, pos + 1)
             /\ file' = file
    BY <1>1, <1>4, <1>11, <2>1, <2>3
  <2> QED BY <1>5, <2>2, <2>3 DEF Attribute, Fail
<1>12. CASE AttributeBeyond
  <2>1. pos \in DOMAIN file
    BY <1>12 DEF AttributeBeyond, At, AtEnd
  <2>2. CASE Return(0)
    BY <1>2, <2>2
  <2>3. ASSUME NEW rest \in MemoryInTag, file' = file \o rest,
               frames' = [frames EXCEPT ![Len(frames)].attributes = @ \cup {file[pos].value}],
               pos' = SkipWhiteSpace(file', pos + 1)
        PROVE  Forward
    <3>1. file' \in Seq(Lexemes) /\ Len(file') = Len(file) + Len(rest) /\ Len(rest) \in Nat
      BY <1>1, <2>3, MemoryAssumption, ConcatProperties, LenProperties
    <3>2. Len(file) <= Len(file')
      BY <1>11, <3>1
    <3> QED BY <1>4, <2>1, <2>3, <3>1, <3>2
  <2> QED BY <1>12, <2>2, <2>3 DEF AttributeBeyond, Fail
<1>6. CASE EmptyTag
  BY <1>3, <1>6 DEF EmptyTag, At, AtEnd
<1>7. CASE TagEnds
  <2>1. pos \in DOMAIN file /\ pos' = SkipWhiteSpace(file, pos + 1) /\ file' = file
    BY <1>7 DEF TagEnds, At, AtEnd
  <2>2. frames' = [frames EXCEPT ![Len(frames)].at = "content"]
    BY <1>7 DEF TagEnds
  <2> QED BY <1>1, <1>4, <1>11, <2>1, <2>2
<1>8. CASE TagFails
  BY <1>2, <1>8 DEF TagFails, Fail
<1>9. CASE EndTag
  BY <1>2, <1>3, <1>9 DEF EndTag, Fail, At, AtEnd
<1>10. CASE ContentEnds
  BY <1>2, <1>10 DEF ContentEnds
<1> QED BY <1>5, <1>6, <1>7, <1>8, <1>9, <1>10, <1>12

(* Forward counts two and a call takes back one; to return counts one.     *)
LEMMA ParseAdvances ==
    ASSUME XmlInv, Parse
    PROVE  Progress < Progress'
<1>1. XmlInv'
  BY ParseKeeps
<1>2. /\ file \in Seq(Lexemes) /\ file' \in Seq(Lexemes) /\ pos \in Nat /\ pos' \in Nat
      /\ frames \in Seq(Frames) /\ frames' \in Seq(Frames)
  BY <1>1 DEF XmlInv, XmlTypeOK
<1>3. Len(frames) \in Nat /\ Len(frames') \in Nat
  BY <1>2, LenProperties
<1>4. PlaceIn(file, pos) \in Nat /\ PlaceIn(file', pos') \in Nat
  BY <1>2, SkipAdvances
<1>5. Forward \/ Back
  <2>1. CASE DocumentEnds
    <3>1. frames' = <<>> /\ frames # <<>> /\ file' = file /\ pos' = pos
      BY <2>1 DEF DocumentEnds
    <3>2. Len(frames) # 0 /\ Len(frames') = 0
      BY <1>2, <3>1, EmptySeq
    <3> QED BY <1>3, <1>4, <3>1, <3>2 DEF Back
  <2> QED BY <1>1, <2>1, ChildAdvances, CallAdvances DEF Parse
<1>6. Progress = 2 * PlaceIn(file, pos) - Len(frames)
      /\ Progress' = 2 * PlaceIn(file', pos') - Len(frames')
  BY DEF Progress, PlaceIn, AtEnd
<1>7. ASSUME NEW a \in Nat, NEW b \in Nat, NEW i \in Nat, NEW j \in Nat,
             (a < b /\ j <= i + 1) \/ (a <= b /\ j < i)
      PROVE  2 * a - i < 2 * b - j
  BY <1>7
<1> HIDE DEF Progress
<1> QED BY <1>3, <1>4, <1>5, <1>6, <1>7 DEF Forward, Back

-----------------------------------------------------------------------------
(* The tree, as its readers walk it                                        *)

ChildrenOf(p) == {m \in Linked : nodes[m].parent = p}

(* Zero, or the least number of a set.                                     *)
LEMMA FirstOfSet ==
    ASSUME NEW S, S \subseteq Nat
    PROVE  /\ S = {} => FirstOf(S) = 0
           /\ S # {} => FirstOf(S) \in S /\ \A x \in S : FirstOf(S) <= x
           /\ \A x \in S : (\A y \in S : x <= y) => FirstOf(S) = x
<1>1. S # {} => FirstOf(S) \in S /\ \A x \in S : FirstOf(S) <= x
  BY MinIsLeast DEF FirstOf
<1>2. ASSUME NEW x \in S, \A y \in S : x <= y PROVE FirstOf(S) = x
  <2>1. FirstOf(S) \in Nat /\ FirstOf(S) <= x /\ x <= FirstOf(S) /\ x \in Nat
    BY <1>1, <1>2
  <2> QED BY <2>1
<1> QED BY <1>1, <1>2 DEF FirstOf

(* What the pointers of the nodes are.                                     *)
LEMMA TreePointers ==
    ASSUME XmlInv
    PROVE  /\ DOMAIN nodes = 1 .. Len(nodes) /\ Len(nodes) \in Nat
           /\ Linked \subseteq DOMAIN nodes
           /\ \A m \in DOMAIN nodes :
                /\ nodes[m] \in Nodes
                /\ nodes[m].next \in 0 .. Len(nodes) /\ nodes[m].first \in 0 .. Len(nodes)
                /\ nodes[m].next = 0 \/ nodes[m].next > m
<1>1. DOMAIN nodes = 1 .. Len(nodes) /\ Len(nodes) \in Nat
  BY LenProperties DEF XmlInv, XmlTypeOK
<1>2. Linked \subseteq DOMAIN nodes
  BY DEF Linked
<1>3. ASSUME NEW m \in DOMAIN nodes
      PROVE  /\ nodes[m] \in Nodes
             /\ nodes[m].next \in 0 .. Len(nodes) /\ nodes[m].first \in 0 .. Len(nodes)
             /\ nodes[m].next = 0 \/ nodes[m].next > m
  <2>1. nodes \in Seq(Nodes)
    BY DEF XmlInv, XmlTypeOK
  <2>2. nodes[m] \in Nodes
    BY <1>1, <2>1, ElementOfSeq
  <2>3. nodes[m].next \in Nat /\ nodes[m].first \in Nat
    BY <2>2 DEF Nodes
  <2>4. nodes[m].first = 0 \/ nodes[m].first \in DOMAIN nodes
    BY <1>2 DEF XmlInv, Chained
  <2>5. nodes[m].next = 0 \/ (m < nodes[m].next /\ nodes[m].next \in DOMAIN nodes)
    BY <1>2 DEF XmlInv, Chained
  <2> QED BY <1>1, <2>2, <2>3, <2>4, <2>5
<1> QED BY <1>1, <1>2, <1>3

(* The children of a node are linked in the order of their creation.       *)
LEMMA ChildrenInOrder ==
    ASSUME XmlInv, NEW p \in DOMAIN nodes
    PROVE  /\ nodes[p].first = FirstOf(ChildrenOf(p))
           /\ \A m \in ChildrenOf(p) :
                nodes[m].next = FirstOf({k \in ChildrenOf(p) : k > m})
<1> DEFINE C == ChildrenOf(p)
<1>1. C \subseteq Nat /\ 0 \notin C /\ C \subseteq DOMAIN nodes /\ DOMAIN nodes \subseteq Nat
  BY TreePointers DEF ChildrenOf
<1>2. ASSUME NEW m \in C
      PROVE  /\ nodes[m].prev = 0 => nodes[p].first = m
             /\ nodes[m].prev # 0 => /\ nodes[m].prev \in C /\ nodes[m].prev < m
                                     /\ nodes[nodes[m].prev].next = m
             /\ nodes[m].next = 0 => nodes[p].last = m
             /\ nodes[m].next # 0 => nodes[m].next \in C /\ m < nodes[m].next
             /\ m <= nodes[p].last /\ nodes[p].last \in C /\ nodes[p].first \in C \cup {0}
  <2>1. m \in Linked /\ nodes[m].parent = p /\ m # 0 /\ m \in Nat /\ m <= nodes[p].last
    BY <1>1 DEF ChildrenOf, XmlInv, Chained
  <2>2. nodes[p].last # 0
    BY <2>1
  <2>3. nodes[p].last \in C /\ nodes[p].first \in C \cup {0}
    BY <2>2 DEF ChildrenOf, XmlInv, Chained
  <2> QED BY <2>1, <2>3 DEF ChildrenOf, XmlInv, Chained
<1>3. nodes[p].first # 0 => nodes[p].first \in C
  BY DEF ChildrenOf, XmlInv, Chained
<1> HIDE DEF C
(* The child without a previous one is the first of all.                   *)
<1>4. ASSUME NEW c \in C, nodes[c].prev = 0 PROVE \A b \in C : c <= b
  <2>1. PICK a \in C : \A b \in C : a <= b
    <3>1. C # {}
      OBVIOUS
    <3> QED BY <1>1, <3>1, MinIsLeast
  <2>2. nodes[a].prev = 0
    <3>1. SUFFICES ASSUME nodes[a].prev # 0 PROVE FALSE
      OBVIOUS
    <3>2. nodes[a].prev \in C /\ nodes[a].prev < a /\ a <= nodes[a].prev
      BY <1>2, <2>1, <3>1
    <3>3. nodes[a].prev \in Nat /\ a \in Nat
      BY <1>1, <3>2
    <3> QED BY <3>2, <3>3
  <2>3. c = a
    BY <1>2, <1>4, <2>2
  <2> QED BY <2>1, <2>3
(* Nothing is skipped. The least child that is would be linked to one      *)
(* before it, and one of the two would have been skipped earlier.          *)
<1>5. ASSUME NEW b \in C, NEW c \in C, b < c
      PROVE  nodes[b].next # 0 /\ nodes[b].next <= c
  <2> DEFINE Skipped(d) == \E e \in C : e < d /\ (nodes[e].next = 0 \/ nodes[e].next > d)
             K == {d \in C : Skipped(d)}
  <2>1. SUFFICES ASSUME K # {} PROVE FALSE
    <3>1. c \notin K
      BY <2>1
    <3>2. nodes[b].next \in Nat /\ c \in Nat
      <4>1. b \in DOMAIN nodes
        BY <1>1
      <4>2. nodes[b].next \in 0 .. Len(nodes) /\ Len(nodes) \in Nat
        BY <4>1, TreePointers
      <4> QED BY <1>1, <4>2
    <3> QED BY <1>5, <3>1, <3>2
  <2>2. PICK d \in K : \A x \in K : d <= x
    <3>1. K \subseteq Nat
      BY <1>1
    <3> HIDE DEF K
    <3> QED BY <2>1, <3>1, MinIsLeast
  <2>3. PICK e \in C : e < d /\ (nodes[e].next = 0 \/ nodes[e].next > d)
    BY <2>2
  <2>4. d \in C /\ d \in Nat /\ e \in Nat
    BY <1>1, <2>2
  <2>5. nodes[e].next # 0
    <3>1. nodes[p].last \in Nat /\ d <= nodes[p].last
      BY <1>1, <1>2, <2>4
    <3>2. nodes[e].next = 0 => nodes[p].last = e
      BY <1>2
    <3> QED BY <2>3, <2>4, <3>1, <3>2
  <2>6. nodes[d].prev # 0
    BY <1>4, <2>3, <2>4
  <2>7. PICK f \in C : f < d /\ nodes[f].next = d
    BY <1>2, <2>4, <2>6
  <2>8. f \in Nat /\ f # e
    BY <1>1, <2>3, <2>4, <2>7
  <2>9. CASE f < e
    <3>1. e \in K
      BY <2>3, <2>7, <2>9
    <3> QED BY <2>2, <2>3, <2>4, <3>1
  <2>10. CASE e < f
    <3>1. nodes[e].next > f
      <4>1. nodes[e].next \in Nat
        BY <1>1, <1>2, <2>5
      <4> QED BY <2>3, <2>4, <2>5, <2>7, <2>8, <4>1
    <3>2. f \in K
      BY <2>10, <3>1
    <3> QED BY <2>2, <2>4, <2>7, <2>8, <3>2
  <2> QED BY <2>4, <2>8, <2>9, <2>10
<1>6. nodes[p].first = FirstOf(C)
  <2>1. CASE C = {}
    BY <1>1, <1>3, <2>1, FirstOfSet
  <2>2. CASE C # {}
    <3>1. PICK a \in C : \A b \in C : a <= b
      BY <1>1, <2>2, MinIsLeast
    <3>2. nodes[a].prev = 0
      BY <1>1, <1>2, <3>1
    <3>3. nodes[p].first = a
      BY <1>2, <3>2
    <3> QED BY <1>1, <3>1, <3>3, FirstOfSet
  <2> QED BY <2>1, <2>2
<1>7. ASSUME NEW m \in C PROVE nodes[m].next = FirstOf({k \in C : k > m})
  <2> DEFINE S == {k \in C : k > m}
  <2>1. S \subseteq Nat /\ m \in Nat
    BY <1>1
  <2> SUFFICES nodes[m].next = FirstOf(S)
    OBVIOUS
  <2>2. CASE nodes[m].next = 0
    <3>1. S = {}
      BY <1>5, <2>1, <2>2, <1>1
    <3> HIDE DEF S
    <3> QED BY <2>1, <2>2, <3>1, FirstOfSet
  <2>3. CASE nodes[m].next # 0
    <3>1. nodes[m].next \in S
      BY <1>1, <1>2, <2>3
    <3>2. \A k \in S : nodes[m].next <= k
      BY <1>1, <1>5, <2>1
    <3> HIDE DEF S
    <3> QED BY <2>1, <3>1, <3>2, FirstOfSet
  <2> QED BY <2>2, <2>3
<1> QED BY <1>6, <1>7 DEF C

(* A walk along the next pointers that stops in a set S, for instance at   *)
(* the elements of a name: t[m] is where it stops if it begins with m.     *)
Walk(t, S) ==
    /\ DOMAIN t = 0 .. Len(nodes)
    /\ t[0] = 0
    /\ \A m \in DOMAIN nodes : t[m] = IF m \in S THEN m ELSE t[nodes[m].next]

(* There is such a walk: the next pointers lead forward.                   *)
LEMMA WalkExists ==
    ASSUME XmlInv, NEW S
    PROVE  \E t : t = [m \in 0 .. Len(nodes) |-> IF m = 0 \/ m \in S THEN m ELSE t[nodes[m].next]]
<1> DEFINE N == Len(nodes)
           next == [m \in 1 .. N |-> nodes[m].next]
           step == [x \in (1 .. N) \X (0 .. N) |-> IF x[1] \in S THEN x[1] ELSE x[2]]
           depth == [m \in 1 .. N |-> N - m]
<1>1. /\ N \in Nat /\ DOMAIN nodes = 1 .. N
      /\ \A m \in 1 .. N : nodes[m].next \in 0 .. N /\ (nodes[m].next = 0 \/ nodes[m].next > m)
  BY TreePointers
<1> HIDE DEF N
<1>2. next \in [1 .. N -> 0 .. N]
  BY <1>1
<1>3. step \in [(1 .. N) \X (0 .. N) -> 0 .. N]
  BY <1>1
<1>4. depth \in [1 .. N -> 0 .. N] /\ 0 \in 0 .. N
  BY <1>1
<1>5. \A m \in 1 .. N : next[m] = 0 \/ depth[next[m]] < depth[m]
  BY <1>1
<1>6. PICK f \in [0 .. N -> 0 .. N] : f[0] = 0 /\ \A m \in 1 .. N : f[m] = step[<<m, f[next[m]]>>]
  <2> DEFINE V == 0 .. N
  <2>1. N \in Nat /\ 0 \in V /\ step \in [(1 .. N) \X V -> V]
    BY <1>1, <1>3, <1>4
  <2> HIDE DEF next, step, depth, V
  <2>2. \E f \in [0 .. N -> V] : f[0] = 0 /\ \A m \in 1 .. N : f[m] = step[<<m, f[next[m]]>>]
    <3>1. IsRecursion(N, V, 0, next, step, depth)
      BY <1>2, <1>4, <1>5, <2>1 DEF IsRecursion
    <3> QED BY <3>1, Recursion
  <2> QED BY <2>2 DEF V
<1>7. ASSUME NEW m \in 0 .. N PROVE f[m] = IF m = 0 \/ m \in S THEN m ELSE f[nodes[m].next]
  <2>1. CASE m = 0
    BY <1>6, <2>1
  <2>2. CASE m # 0
    <3>1. m \in 1 .. N /\ next[m] = nodes[m].next /\ f[next[m]] \in 0 .. N
      BY <1>1, <1>6, <2>2
    <3>2. step[<<m, f[next[m]]>>] = IF m \in S THEN m ELSE f[next[m]]
      <4>1. <<m, f[next[m]]>> \in (1 .. N) \X (0 .. N)
        BY <3>1
      <4> HIDE DEF next
      <4> QED BY <4>1
    <3> HIDE DEF next, step
    <3> QED BY <1>6, <2>2, <3>1, <3>2
  <2> QED BY <2>1, <2>2
<1>8. f = [m \in 0 .. N |-> IF m = 0 \/ m \in S THEN m ELSE f[nodes[m].next]]
  BY <1>6, <1>7
<1> QED BY <1>8 DEF N

(* It stops in the set, further on, or at the end of the list.             *)
LEMMA WalkEnds ==
    ASSUME XmlInv, NEW S, NEW t, Walk(t, S)
    PROVE  \A m \in 0 .. Len(nodes) :
             t[m] = 0 \/ (t[m] \in DOMAIN nodes /\ t[m] \in S /\ t[m] >= m)
<1> DEFINE N == Len(nodes)
           Ends(m) == t[m] = 0 \/ (t[m] \in DOMAIN nodes /\ t[m] \in S /\ t[m] >= m)
           T == {k \in Nat : \A m \in 1 .. N : N - m < k => Ends(m)}
<1>1. /\ N \in Nat /\ DOMAIN nodes = 1 .. N
      /\ \A m \in 1 .. N : nodes[m].next \in 0 .. N /\ (nodes[m].next = 0 \/ nodes[m].next > m)
  BY TreePointers
<1> HIDE DEF N
<1>2. 0 \in T
  BY <1>1
<1>3. ASSUME NEW k \in Nat, k \in T PROVE k + 1 \in T
  <2> SUFFICES ASSUME NEW m \in 1 .. N, N - m < k + 1 PROVE Ends(m)
    OBVIOUS
  <2>1. CASE m \in S
    BY <1>1, <2>1 DEF Walk
  <2>2. CASE m \notin S
    <3>1. t[m] = t[nodes[m].next]
      BY <1>1, <2>2 DEF Walk
    <3>2. CASE nodes[m].next = 0
      BY <3>1, <3>2 DEF Walk
    <3>3. CASE nodes[m].next # 0
      <4>1. nodes[m].next \in 1 .. N /\ N - nodes[m].next < k /\ nodes[m].next > m
        BY <1>1, <3>3
      <4>2. Ends(nodes[m].next)
        BY <1>3, <4>1
      <4>3. t[m] \in DOMAIN nodes => t[m] \in Nat
        BY <1>1
      <4> QED BY <3>1, <4>1, <4>2, <4>3
    <3> QED BY <3>2, <3>3
  <2> QED BY <2>1, <2>2
<1>4. N + 1 \in T
  <2> HIDE DEF T
  <2>1. Nat \subseteq T
    BY <1>2, <1>3, SetInduction
  <2> QED BY <1>1, <2>1
<1>5. \A m \in 1 .. N : N - m < N + 1
  BY <1>1
<1>6. \A m \in 1 .. N : Ends(m)
  BY <1>4, <1>5
<1>7. Ends(0)
  BY DEF Walk
<1> QED BY <1>1, <1>6, <1>7 DEF N

(* It stops at the first of the children that are in the set.              *)
LEMMA WalkFinds ==
    ASSUME XmlInv, NEW S, NEW t, Walk(t, S), NEW p \in DOMAIN nodes
    PROVE  /\ t[nodes[p].first] = FirstOf(ChildrenOf(p) \cap S)
           /\ \A m \in ChildrenOf(p) :
                t[nodes[m].next] = FirstOf({k \in ChildrenOf(p) \cap S : k > m})
<1> DEFINE N == Len(nodes)
           C == ChildrenOf(p)
           From(m) == {k \in C \cap S : k >= m}
           Finds(m) == t[m] = FirstOf(From(m))
           T == {j \in Nat : \A m \in C : N - m < j => Finds(m)}
<1>1. /\ N \in Nat /\ DOMAIN nodes = 1 .. N /\ C \subseteq 1 .. N
      /\ \A m \in C : nodes[m].next = FirstOf({k \in C : k > m})
      /\ nodes[p].first = FirstOf(C)
  BY TreePointers, ChildrenInOrder DEF ChildrenOf
<1> HIDE DEF C
<1>0. N \in Nat /\ C \subseteq 1 .. N /\ C \subseteq Nat /\ 0 \notin C
  BY <1>1
<1> HIDE DEF N
<1>2. \A m \in C : t[m] = IF m \in S THEN m ELSE t[nodes[m].next]
  BY <1>1 DEF Walk
<1>3. t[0] = 0
  BY DEF Walk
(* Beginning with the first child of a kind that every one of a kind in S  *)
(* belongs to.                                                             *)
<1>4. ASSUME NEW R \in SUBSET C, \A x \in R, y \in C : x <= y => y \in R,
             R # {} => Finds(FirstOf(R))
      PROVE  t[FirstOf(R)] = FirstOf(R \cap S)
  <2>1. R \subseteq Nat /\ R \cap S \subseteq Nat
    BY <1>0
  <2>2. CASE R = {}
    BY <1>3, <2>1, <2>2, FirstOfSet
  <2>3. CASE R # {}
    <3>1. FirstOf(R) \in R /\ \A x \in R : FirstOf(R) <= x
      BY <2>1, <2>3, FirstOfSet
    <3>2. From(FirstOf(R)) = R \cap S
      BY <1>0, <1>4, <2>1, <3>1
    <3> QED BY <1>4, <2>3, <3>2
  <2> QED BY <2>2, <2>3
<1>5. ASSUME NEW m \in C, {k \in C : k > m} # {} => Finds(FirstOf({k \in C : k > m}))
      PROVE  t[nodes[m].next] = FirstOf({k \in C \cap S : k > m})
  <2> DEFINE R == {k \in C : k > m}
  <2>1. R \in SUBSET C /\ \A x \in R, y \in C : x <= y => y \in R
    BY <1>0
  <2>2. t[FirstOf(R)] = FirstOf(R \cap S)
    <3> HIDE DEF R
    <3> QED BY <1>4, <1>5, <2>1 DEF R
  <2>3. R \cap S = {k \in C \cap S : k > m}
    OBVIOUS
  <2> QED BY <1>1, <2>2, <2>3
<1>6. 0 \in T
  BY <1>0
<1>7. ASSUME NEW j \in Nat, j \in T PROVE j + 1 \in T
  <2> SUFFICES ASSUME NEW m \in C, N - m < j + 1 PROVE Finds(m)
    OBVIOUS
  <2>1. From(m) \subseteq Nat /\ m \in Nat
    BY <1>0
  <2>2. CASE m \in S
    <3>1. m \in From(m) /\ \A x \in From(m) : m <= x
      BY <1>1, <2>2
    <3>2. FirstOf(From(m)) = m
      <4> HIDE DEF From
      <4> QED BY <2>1, <3>1, FirstOfSet
    <3> QED BY <1>2, <2>2, <3>2
  <2>3. CASE m \notin S
    <3>1. From(m) = {k \in C \cap S : k > m}
      <4>1. \A k \in C \cap S : k >= m <=> k > m
        BY <1>0, <2>1, <2>3
      <4> QED BY <4>1
    <3>2. ASSUME {k \in C : k > m} # {} PROVE Finds(FirstOf({k \in C : k > m}))
      <4> DEFINE R == {k \in C : k > m}
      <4>1. R \subseteq Nat /\ R # {}
        BY <1>0, <3>2
      <4>2. FirstOf(R) \in R
        <5> HIDE DEF R
        <5> QED BY <4>1, FirstOfSet
      <4>3. FirstOf(R) \in C /\ FirstOf(R) > m
        BY <4>2
      <4>4. N - FirstOf(R) < j
        <5> HIDE DEF R
        <5>1. FirstOf(R) \in 1 .. N
          BY <1>0, <4>3
        <5> QED BY <1>0, <2>1, <4>3, <5>1
      <4>5. Finds(FirstOf(R))
        <5> HIDE DEF R, Finds
        <5> QED BY <1>7, <4>3, <4>4
      <4> QED BY <4>5
    <3> QED BY <1>2, <1>5, <2>3, <3>1, <3>2
  <2> QED BY <2>2, <2>3
<1>8. N + 1 \in T
  <2> HIDE DEF T
  <2>1. Nat \subseteq T
    BY <1>6, <1>7, SetInduction
  <2> QED BY <1>1, <2>1
<1>9. \A m \in C : Finds(m)
  <2>1. \A m \in C : N - m < N + 1
    BY <1>1
  <2> QED BY <1>8, <2>1
<1>10. t[nodes[p].first] = FirstOf(C \cap S)
  <2>1. C # {} => FirstOf(C) \in C
    BY <1>0, FirstOfSet
  <2> QED BY <1>1, <1>4, <1>9, <2>1
<1>11. ASSUME NEW m \in C PROVE t[nodes[m].next] = FirstOf({k \in C \cap S : k > m})
  <2> DEFINE R == {k \in C : k > m}
  <2>1. R \subseteq Nat /\ R \subseteq C
    BY <1>0
  <2>2. R # {} => FirstOf(R) \in C
    <3> HIDE DEF R
    <3> QED BY <2>1, FirstOfSet
  <2>3. R # {} => Finds(FirstOf(R))
    <3> HIDE DEF R, Finds
    <3> QED BY <1>9, <2>2
  <2> QED BY <1>5, <2>3
<1> QED BY <1>10, <1>11 DEF C

-----------------------------------------------------------------------------
(* The parser on a well-formed text                                        *)

(* The type of the node that is made from a lexeme.                        *)
TypeOf(lexeme) ==
    CASE lexeme.kind = "open" -> "ELEMENT"
      [] lexeme.kind \in {"text", "cdata"} -> "TEXT"
      [] lexeme.kind = "comment" -> "COMMENT"
      [] lexeme.kind = "declaration" -> "DECLARATION"
      [] OTHER -> "UNKNOWN"

MadeFrom(node, lexeme) ==
    /\ node.type = TypeOf(lexeme)
    /\ node.type \in {"ELEMENT", "TEXT"} => node.value = lexeme.value

(* Up to place q the nodes, in their order, are what the text makes there; *)
(* at is where each of them is in it.                                      *)
TreeTracks(tree, text, inside, at, q) ==
    /\ at \in [DOMAIN tree -> 0 .. q - 1]
    /\ at[1] = 0
    /\ \A m, n \in DOMAIN tree : m < n => at[m] < at[n]
    /\ \A n \in DOMAIN tree \ {1} :
         /\ Makes(text[at[n]])
         /\ MadeFrom(tree[n], text[at[n]])
         /\ tree[n].parent \in DOMAIN tree
         /\ at[tree[n].parent] = inside[at[n]]
    /\ \A i \in 1 .. q - 1 : Makes(text[i]) => \E n \in DOMAIN tree : at[n] = i

(* The names of the attributes of the tag at place q, as far as it is read.*)
AttributesTo(text, inside, q) ==
    {text[j].value : j \in {i \in inside[q] + 1 .. q - 1 : text[i].kind = "attribute"}}

(* The call on top is where q is inside, in its tag or in its content; the *)
(* calls below it are in their contents. All but the first read an element.*)
CallTracks(calls, text, inside, at, q) ==
    /\ calls # <<>>
    /\ at[Last(calls).node] = inside[q]
    /\ Last(calls).at = "tag" <=> InTag(text, inside, q)
    /\ Last(calls).at = "tag" => Last(calls).attributes = AttributesTo(text, inside, q)
    /\ \A i \in DOMAIN calls : i # 1 /\ i # Len(calls) => calls[i].at = "content"
    /\ \A i \in DOMAIN calls : i # 1 => text[at[calls[i].node]].kind = "open"

(* What is after a lexeme of a well-formed text.                           *)
LEMMA AfterLexeme ==
    ASSUME NEW text \in Seq(Lexemes), NEW inside, WellFormed(text, inside), NEW q \in DOMAIN text
    PROVE  /\ q \in Nat /\ inside[q] \in 0 .. q - 1 /\ inside[q + 1] \in 0 .. q
           /\ text[q].kind \in {"space", "attribute"} =>
                inside[q + 1] = inside[q] /\ (InTag(text, inside, q + 1) <=> InTag(text, inside, q))
           /\ text[q].kind = "open" => inside[q + 1] = q /\ InTag(text, inside, q + 1)
           /\ text[q].kind \in {"close", "empty"} => inside[q + 1] = inside[inside[q]]
           /\ text[q].kind \notin {"open", "close", "empty"} => inside[q + 1] = inside[q]
           /\ text[q].kind \notin {"open", "space", "attribute"} => ~InTag(text, inside, q + 1)
<1>1. DOMAIN text = 1 .. Len(text) /\ Len(text) \in Nat
  BY LenProperties
<1>2. /\ inside \in [1 .. Len(text) + 1 -> 0 .. Len(text)]
      /\ inside[q] < q /\ inside[q + 1] = After(text, inside, q)
      /\ q # Len(text) => q + 1 \in DOMAIN text /\ inside[q + 1] < q + 1
      /\ inside[Len(text) + 1] = 0
  BY <1>1 DEF WellFormed
<1>3. q \in Nat /\ inside[q] \in 0 .. q - 1 /\ inside[q + 1] \in 0 .. q
  BY <1>1, <1>2
<1>4. /\ text[q].kind = "open" => inside[q + 1] = q
      /\ text[q].kind \in {"close", "empty"} => inside[q + 1] = inside[inside[q]]
      /\ text[q].kind \notin {"open", "close", "empty"} => inside[q + 1] = inside[q]
  BY <1>2 DEF After
<1>5. ASSUME text[q].kind \in {"space", "attribute"}
      PROVE  inside[q + 1] = inside[q] /\ (InTag(text, inside, q + 1) <=> InTag(text, inside, q))
  <2>1. inside[q + 1] = inside[q]
    BY <1>4, <1>5
  <2>2. \A j \in inside[q] + 1 .. (q + 1) - 1 : j \in inside[q] + 1 .. q - 1 \/ j = q
    BY <1>3
  <2>3. \A j \in inside[q] + 1 .. q - 1 : j \in inside[q] + 1 .. (q + 1) - 1
    BY <1>3
  <2> QED BY <1>5, <2>1, <2>2, <2>3 DEF InTag
<1>6. ASSUME text[q].kind = "open" PROVE InTag(text, inside, q + 1)
  <2>1. inside[q + 1] = q /\ q # 0 /\ q + 1 .. (q + 1) - 1 = {}
    BY <1>1, <1>3, <1>4, <1>6
  <2> QED BY <2>1 DEF InTag
<1>7. ASSUME text[q].kind \notin {"open", "space", "attribute"} PROVE ~InTag(text, inside, q + 1)
  <2>1. inside[q + 1] # q
    <3>1. CASE text[q].kind \in {"close", "empty"}
      <4>1. inside[q] = 0 \/ inside[inside[q]] < inside[q]
        BY <1>1, <1>3 DEF WellFormed
      <4>2. inside[q] = 0 => inside[inside[q]] # q
        <5>1. InTheTag(text, inside, q) \/ InTheContent(text, inside, q) \/ InTheDocument(text, inside, q)
          BY DEF WellFormed
        <5> QED BY <3>1, <5>1 DEF InTheTag, InTag, InTheContent, InTheDocument
      <4> QED BY <1>3, <1>4, <3>1, <4>1, <4>2
    <3>2. CASE text[q].kind \notin {"close", "empty"}
      BY <1>3, <1>4, <1>7, <3>2
    <3> QED BY <3>1, <3>2
  <2>2. q \in inside[q + 1] + 1 .. (q + 1) - 1
    BY <1>3, <2>1
  <2> QED BY <1>7, <2>2 DEF InTag
<1> QED BY <1>3, <1>4, <1>5, <1>6, <1>7

(* White space changes nothing.                                            *)
LEMMA SpaceTracks ==
    ASSUME NEW text \in Seq(Lexemes), NEW inside, WellFormed(text, inside), NEW q \in DOMAIN text,
           NEW tree, NEW calls, NEW at, text[q].kind = "space",
           TreeTracks(tree, text, inside, at, q), CallTracks(calls, text, inside, at, q)
    PROVE  TreeTracks(tree, text, inside, at, q + 1) /\ CallTracks(calls, text, inside, at, q + 1)
<1>1. q \in Nat /\ inside[q] \in 0 .. q - 1 /\ inside[q + 1] = inside[q]
      /\ (InTag(text, inside, q + 1) <=> InTag(text, inside, q))
  BY AfterLexeme
<1>2. ~Makes(text[q])
  BY DEF Makes
<1>3. AttributesTo(text, inside, q + 1) = AttributesTo(text, inside, q)
  <2>1. {i \in inside[q] + 1 .. (q + 1) - 1 : text[i].kind = "attribute"}
          = {i \in inside[q] + 1 .. q - 1 : text[i].kind = "attribute"}
    BY <1>1
  <2> QED BY <1>1, <2>1 DEF AttributesTo
<1>4. CallTracks(calls, text, inside, at, q + 1)
  BY <1>1, <1>3 DEF CallTracks
<1>5. TreeTracks(tree, text, inside, at, q + 1)
  <2>1. at \in [DOMAIN tree -> 0 .. (q + 1) - 1]
    BY <1>1 DEF TreeTracks
  <2>2. \A i \in 1 .. (q + 1) - 1 : Makes(text[i]) => i \in 1 .. q - 1
    BY <1>1, <1>2
  <2> QED BY <2>1, <2>2 DEF TreeTracks
<1> QED BY <1>4, <1>5

(* The nodes below the document have parents among the nodes.              *)
LEMMA ParentsAreNodes ==
    ASSUME XmlInv, NEW n \in DOMAIN nodes \ {1}
    PROVE  nodes[n].parent \in DOMAIN nodes /\ nodes[n].parent < n
<1>1. CASE n \in Linked
  BY <1>1 DEF XmlInv, Chained
<1>2. CASE n \notin Linked
  <2>1. PICK i \in DOMAIN frames : frames[i].node = n
    BY <1>2 DEF Linked
  <2>2. frames # <<>>
    BY <2>1
  <2>3. i # 1 /\ i - 1 \in DOMAIN frames /\ i - 1 < i
    <3>1. DOMAIN frames = 1 .. Len(frames) /\ Len(frames) \in Nat /\ frames[1].node = 1
      BY <2>2, TopFrame DEF XmlInv, FramesInv
    <3> QED BY <2>1, <3>1
  <2> QED BY <2>1, <2>3 DEF XmlInv, FramesInv
<1> QED BY <1>1, <1>2

(* A lexeme that makes no node leaves the tree as it is.                   *)
LEMMA TreeGoesOn ==
    ASSUME NEW text, NEW inside, NEW q \in Nat, NEW tree, NEW after, NEW at,
           TreeTracks(tree, text, inside, at, q), ~Makes(text[q]),
           Preserved(tree, after), DOMAIN after = DOMAIN tree
    PROVE  TreeTracks(after, text, inside, at, q + 1)
<1>1. at \in [DOMAIN after -> 0 .. (q + 1) - 1]
  BY DEF TreeTracks
<1>2. \A i \in 1 .. (q + 1) - 1 : Makes(text[i]) => i \in 1 .. q - 1
  OBVIOUS
<1>3. \A n \in DOMAIN tree \ {1} : MadeFrom(tree[n], text[at[n]]) => MadeFrom(after[n], text[at[n]])
  BY DEF Preserved, MadeFrom
<1> QED BY <1>1, <1>2, <1>3 DEF TreeTracks, Preserved

(* after is tree with one more node n, where at goes on with q.            *)
GrowsBy(tree, after, n) ==
    /\ n \in Nat
    /\ n > 1
    /\ DOMAIN tree = 1 .. n - 1
    /\ DOMAIN after = DOMAIN tree \cup {n}
    /\ Preserved(tree, after)

Longer(at, after, n, q) == [m \in DOMAIN after |-> IF m = n THEN q ELSE at[m]]

(* Another one makes the node that is added to the tree.                   *)
LEMMA TreeGrows ==
    ASSUME NEW text, NEW inside, NEW q \in Nat, NEW tree, NEW after, NEW at, NEW n,
           TreeTracks(tree, text, inside, at, q), GrowsBy(tree, after, n),
           Makes(text[q]), MadeFrom(after[n], text[q]),
           after[n].parent \in DOMAIN tree, at[after[n].parent] = inside[q]
    PROVE  TreeTracks(after, text, inside, Longer(at, after, n, q), q + 1)
<1> DEFINE longer == Longer(at, after, n, q)
<1> USE DEF GrowsBy
<1>1. n \notin DOMAIN tree /\ \A m \in DOMAIN tree : m < n /\ m \in Nat
  OBVIOUS
<1>2. /\ at \in [DOMAIN tree -> 0 .. q - 1]
      /\ \A m \in DOMAIN tree : at[m] \in Nat /\ at[m] < q
  BY DEF TreeTracks
<1>3. /\ DOMAIN longer = DOMAIN after /\ longer[n] = q
      /\ \A m \in DOMAIN tree : longer[m] = at[m]
  BY <1>1 DEF Longer
<1>4. longer \in [DOMAIN after -> 0 .. (q + 1) - 1]
  BY <1>2 DEF Longer
<1> HIDE DEF longer
<1>5. longer[1] = 0
  BY <1>3 DEF TreeTracks
<1>6. \A l, m \in DOMAIN after : l < m => longer[l] < longer[m]
  <2> SUFFICES ASSUME NEW l \in DOMAIN after, NEW m \in DOMAIN after, l < m
               PROVE  longer[l] < longer[m]
    OBVIOUS
  <2>1. l \in DOMAIN tree
    BY <1>1
  <2>2. CASE m = n
    BY <1>2, <1>3, <2>1, <2>2
  <2>3. CASE m \in DOMAIN tree
    BY <1>3, <2>1, <2>3 DEF TreeTracks
  <2> QED BY <2>2, <2>3
<1>7. ASSUME NEW m \in DOMAIN after \ {1}
      PROVE  /\ Makes(text[longer[m]])
             /\ MadeFrom(after[m], text[longer[m]])
             /\ after[m].parent \in DOMAIN after
             /\ longer[after[m].parent] = inside[longer[m]]
  <2>1. CASE m = n
    BY <1>3, <2>1
  <2>2. CASE m \in DOMAIN tree
    <3>1. /\ Makes(text[at[m]]) /\ MadeFrom(tree[m], text[at[m]])
          /\ tree[m].parent \in DOMAIN tree /\ at[tree[m].parent] = inside[at[m]]
      BY <2>2 DEF TreeTracks
    <3>2. MadeFrom(after[m], text[at[m]]) /\ after[m].parent = tree[m].parent
      BY <2>2, <3>1 DEF Preserved, MadeFrom
    <3> QED BY <1>3, <2>2, <3>1, <3>2
  <2> QED BY <2>1, <2>2
<1>8. ASSUME NEW i \in 1 .. (q + 1) - 1, Makes(text[i]) PROVE \E m \in DOMAIN after : longer[m] = i
  <2>1. CASE i = q
    BY <1>3, <2>1
  <2>2. CASE i # q
    <3>1. i \in 1 .. q - 1
      BY <2>2
    <3> QED BY <1>3, <1>8, <3>1 DEF TreeTracks
  <2> QED BY <2>1, <2>2
<1> QED BY <1>4, <1>5, <1>6, <1>7, <1>8 DEF TreeTracks, longer

-----------------------------------------------------------------------------
(* The steps of the parser at place q of a well-formed text, where the     *)
(* file has the same lexeme                                                *)

(* The parser has read text up to place q, and is there.                   *)
IsAt(text, inside, at, q) ==
    /\ q \in DOMAIN text
    /\ q \in DOMAIN file
    /\ pos = q
    /\ file[q] = text[q]
    /\ text[q].kind # "space"
    /\ TreeTracks(nodes, text, inside, at, q)
    /\ CallTracks(frames, text, inside, at, q)

(* It goes on to the next place.                                           *)
GoesOn(text, inside, q) ==
    /\ \E at : /\ TreeTracks(nodes', text, inside, at, q + 1)
               /\ CallTracks(frames', text, inside, at, q + 1)
    /\ error' = error
    /\ file' = file
    /\ pos' = SkipWhiteSpace(file, q + 1)

(* Where it is, and what may be there.                                     *)
LEMMA WhatIsThere ==
    ASSUME XmlInv, NEW text \in Seq(Lexemes), NEW inside, WellFormed(text, inside),
           NEW at, NEW q, IsAt(text, inside, at, q)
    PROVE  /\ Frame.at = "tag" => /\ text[q].kind \in {"gt", "empty", "attribute"}
                                  /\ text[q].kind = "attribute" => text[q].value \notin Frame.attributes
           /\ Frame.at = "content" =>
                /\ text[q].kind \in {"text", "cdata", "comment", "declaration", "unknown", "open", "close"}
                /\ text[q].kind = "close" => text[q].value = nodes[Frame.node].value
                /\ inside[q] # 0
           /\ Frame.at = "document" =>
                /\ text[q].kind \in {"comment", "declaration", "unknown", "open"}
                /\ inside[q] = 0
           /\ inside[q] # 0 => Frame.node # 1 /\ Frame.at # "document"
<1>1. /\ frames # <<>> /\ Frame = Last(frames) /\ at[Frame.node] = inside[q]
      /\ Frame.at = "tag" <=> InTag(text, inside, q)
      /\ Frame.at = "tag" => Frame.attributes = AttributesTo(text, inside, q)
  BY DEF IsAt, CallTracks, Frame
<1>2. /\ Frame = frames[Len(frames)] /\ Frame.node \in DOMAIN nodes /\ DOMAIN nodes = 1 .. Len(nodes)
      /\ Len(nodes) \in Nat \ {0} /\ Frame.at \in {"document", "tag", "content"}
      /\ Frame.at = "document" => Len(frames) = 1
      /\ Frame.at # "document" => Len(frames) > 1
      /\ DOMAIN frames = 1 .. Len(frames) /\ Len(frames) \in Nat
  BY <1>1, TopFrame DEF Frames
<1>3. at[1] = 0 /\ \A n \in DOMAIN nodes : n # 1 => at[n] # 0
  <2>1. at[1] = 0 /\ 1 \in DOMAIN nodes
    BY <1>2 DEF IsAt, TreeTracks
  <2>2. ASSUME NEW n \in DOMAIN nodes, n # 1 PROVE at[n] # 0
    <3>1. 1 < n
      BY <1>2, <2>2
    <3>2. at[1] < at[n]
      BY <2>1, <3>1 DEF IsAt, TreeTracks
    <3> QED BY <2>1, <3>2
  <2> QED BY <2>1, <2>2
<1>4. frames[1].node = 1 /\ frames[1].at = "document" /\ (Frame.at # "document" => frames[1].node < Frame.node)
  BY <1>1, <1>2 DEF XmlInv, FramesInv
<1>5. (Frame.at = "document" <=> inside[q] = 0) /\ (Frame.at = "document" <=> Frame.node = 1)
  <2>1. Frame.at = "document" => Frame.node = 1
    BY <1>2, <1>4
  <2>2. Frame.at # "document" => Frame.node # 1
    BY <1>2, <1>4
  <2> QED BY <1>1, <1>2, <1>3, <2>1, <2>2
<1>6. q \in DOMAIN text /\ text[q].kind # "space"
  BY DEF IsAt
<1>7. InTheTag(text, inside, q) \/ InTheContent(text, inside, q) \/ InTheDocument(text, inside, q)
  BY <1>6 DEF WellFormed
<1>8. CASE Frame.at = "tag"
  <2>1. InTheTag(text, inside, q)
    BY <1>1, <1>5, <1>7, <1>8 DEF InTheContent, InTheDocument
  <2>2. ASSUME text[q].kind = "attribute", text[q].value \in Frame.attributes PROVE FALSE
    <3>1. PICK j \in inside[q] + 1 .. q - 1 : text[j].kind = "attribute" /\ text[j].value = text[q].value
      BY <1>1, <1>8, <2>2 DEF AttributesTo
    <3>2. text[j] # text[q]
      BY <2>1, <2>2, <3>1 DEF InTheTag
    <3>3. j \in DOMAIN text
      BY <1>6, <3>1, AfterLexeme, LenProperties
    <3>4. text[j] \in Lexemes /\ text[q] \in Lexemes
      BY <1>6, <3>3, LenProperties, ElementOfSeq
    <3>5. \A l \in Lexemes : l.kind = "attribute" => l = [kind |-> "attribute", value |-> l.value]
      BY DEF Lexemes, Named, Verbatim, Others
    <3> QED BY <2>2, <3>1, <3>2, <3>4, <3>5
  <2> QED BY <1>5, <1>6, <1>8, <2>1, <2>2 DEF InTheTag
<1>9. CASE Frame.at = "content"
  <2>1. InTheContent(text, inside, q) /\ inside[q] # 0
    BY <1>1, <1>5, <1>7, <1>9 DEF InTheTag, InTheDocument
  <2>2. ASSUME text[q].kind = "close" PROVE text[q].value = nodes[Frame.node].value
    <3>1. text[q].value = text[inside[q]].value
      BY <2>1, <2>2 DEF InTheContent
    <3>2. MadeFrom(nodes[Frame.node], text[inside[q]])
      BY <1>1, <1>2, <1>5, <2>1 DEF IsAt, TreeTracks
    <3>3. text[inside[q]].kind = "open"
      BY <1>1, <1>2, <1>9 DEF IsAt, CallTracks
    <3> QED BY <3>1, <3>2, <3>3 DEF MadeFrom, TypeOf
  <2> QED BY <1>5, <1>6, <1>9, <2>1, <2>2 DEF InTheContent
<1>10. CASE Frame.at = "document"
  <2>1. InTheDocument(text, inside, q)
    BY <1>5, <1>7, <1>10 DEF InTheTag, InTag, InTheContent
  <2> QED BY <1>5, <1>6, <1>10, <2>1 DEF InTheDocument
<1> QED BY <1>2, <1>5, <1>8, <1>9, <1>10

(* The call on top goes on in its content.                                 *)
LEMMA CallsGoOn ==
    ASSUME NEW text, NEW inside, NEW q, NEW calls, NEW at, NEW longer,
           CallTracks(calls, text, inside, at, q),
           Len(calls) \in DOMAIN calls,
           \A i \in DOMAIN calls : longer[calls[i].node] = at[calls[i].node],
           Last(calls).at # "tag", inside[q + 1] = inside[q], ~InTag(text, inside, q + 1)
    PROVE  CallTracks(calls, text, inside, longer, q + 1)
<1>1. Last(calls) = calls[Len(calls)]
  BY DEF Last
<1>2. longer[Last(calls).node] = inside[q + 1]
  BY <1>1 DEF CallTracks
<1> QED BY <1>2 DEF CallTracks

(* Nodes without children, and blank texts.                                *)
LEMMA ChildTracks ==
    ASSUME XmlInv, NEW text \in Seq(Lexemes), NEW inside, WellFormed(text, inside),
           NEW at, NEW q, IsAt(text, inside, at, q), Frame.at # "tag",
           Text \/ CData \/ Comment \/ BeyondTheEnd \/ Unknown \/ Declaration
    PROVE  GoesOn(text, inside, q)
<1>1. /\ frames # <<>> /\ Frame = Last(frames)
      /\ q \in DOMAIN text /\ q \in DOMAIN file /\ pos = q /\ file[q] = text[q]
      /\ TreeTracks(nodes, text, inside, at, q) /\ CallTracks(frames, text, inside, at, q)
  BY DEF IsAt, CallTracks, Frame
<1>2. /\ Frame.node \in DOMAIN nodes /\ Frame.at \in {"document", "tag", "content"}
      /\ DOMAIN nodes = 1 .. Len(nodes) /\ Len(nodes) \in Nat \ {0}
      /\ Len(frames) \in DOMAIN frames
      /\ \A i \in DOMAIN frames : frames[i].node \in DOMAIN nodes
  BY <1>1, TopFrame DEF Frames
<1>3. /\ q \in Nat /\ q + 1 \in Nat
      /\ text[q].kind \notin {"open", "close", "empty"} => inside[q + 1] = inside[q]
      /\ text[q].kind \notin {"open", "space", "attribute"} => ~InTag(text, inside, q + 1)
  BY <1>1, AfterLexeme
<1>4. text[q].kind \in {"text", "cdata", "comment", "declaration", "unknown"} /\ ~BeyondTheEnd
  BY <1>1, <1>2, WhatIsThere DEF Text, CData, Comment, BeyondTheEnd, Unknown, Declaration, At
<1>5. inside[q + 1] = inside[q] /\ ~InTag(text, inside, q + 1)
  BY <1>3, <1>4
<1>6. text[q].value \in Names \cup Texts \cup {Blank} /\ (text[q].kind = "cdata" => text[q].value \in Texts)
      /\ (text[q].kind = "text" /\ text[q].value # Blank => text[q].value \in Texts)
  BY <1>1, LexemeValue DEF Verbatim
<1>7. ASSUME NEW value \in Names \cup Texts \cup {Blank}, Makes(text[q]),
             text[q].kind \in {"text", "cdata"} => value = text[q].value /\ value \in Texts,
             Child(TypeOf(text[q]), value, file, q + 1), file' = file
      PROVE  GoesOn(text, inside, q)
  <2> DEFINE n == Len(nodes) + 1
             longer == Longer(at, nodes', n, q)
  <2>1. TypeOf(text[q]) \in NodeTypes /\ TypeOf(text[q]) # "ELEMENT"
        /\ (TypeOf(text[q]) = "TEXT" => text[q].kind \in {"text", "cdata"})
    BY <1>4 DEF TypeOf, NodeTypes
  <2>2. file \in Seq(Lexemes)
    BY DEF XmlInv, XmlTypeOK
  <2>3. Grown(TypeOf(text[q]), value)
    BY <1>1, <1>3, <1>7, <2>1, <2>2, ChildKeeps
  <2>4. MadeFrom(nodes'[n], text[q]) /\ nodes'[n].parent = Frame.node
    BY <1>7, <2>1, <2>3 DEF Grown, MadeFrom
  <2>5. GrowsBy(nodes, nodes', n)
    BY <1>2, <2>3 DEF Grown, GrowsBy
  <2>6. at[Frame.node] = inside[q]
    BY <1>1 DEF CallTracks
  <2> HIDE DEF n
  <2>7. TreeTracks(nodes', text, inside, longer, q + 1)
    BY <1>1, <1>2, <1>3, <1>7, <2>4, <2>5, <2>6, TreeGrows
  <2>8. \A i \in DOMAIN frames : longer[frames[i].node] = at[frames[i].node]
    BY <1>2, <2>5 DEF GrowsBy, Longer
  <2> HIDE DEF longer
  <2>9. CallTracks(frames, text, inside, longer, q + 1)
    BY <1>1, <1>2, <1>5, <2>8, CallsGoOn
  <2> QED BY <1>7, <2>7, <2>9 DEF GoesOn, Child
<1>8. CASE Text
  <2>1. CASE text[q].value # Blank
    <3>1. Makes(text[q]) /\ TypeOf(text[q]) = "TEXT"
      BY <1>1, <1>8, <2>1 DEF Text, At, Makes, TypeOf
    <3>2. text[q].value \in Texts /\ Child("TEXT", text[q].value, file, q + 1) /\ file' = file
      BY <1>1, <1>6, <1>8, <2>1 DEF Text, At
    <3> QED BY <1>6, <1>7, <3>1, <3>2
  <2>2. CASE text[q].value = Blank
    <3>1. ~Makes(text[q])
      BY <1>1, <1>8, <2>2 DEF Text, At, Makes
    <3>2. pos' = SkipWhiteSpace(file, q + 1) /\ UNCHANGED <<frames, nodes, error, file>>
      BY <1>1, <1>8, <2>2 DEF Text
    <3>3. Preserved(nodes, nodes)
      BY DEF Preserved
    <3>4. TreeTracks(nodes, text, inside, at, q + 1)
      BY <1>1, <1>3, <3>1, <3>3, TreeGoesOn
    <3>5. CallTracks(frames, text, inside, at, q + 1)
      BY <1>1, <1>2, <1>5, CallsGoOn
    <3> QED BY <3>2, <3>4, <3>5 DEF GoesOn
  <2> QED BY <2>1, <2>2
<1>9. CASE CData
  <2>1. Makes(text[q]) /\ TypeOf(text[q]) = "TEXT" /\ text[q].kind = "cdata"
    BY <1>1, <1>9 DEF CData, At, Makes, TypeOf
  <2>2. Child("TEXT", text[q].value, file, q + 1) /\ file' = file
    BY <1>1, <1>9 DEF CData
  <2> QED BY <1>6, <1>7, <2>1, <2>2
<1>10. CASE Comment
  <2>1. Makes(text[q]) /\ TypeOf(text[q]) = "COMMENT" /\ text[q].kind = "comment"
    BY <1>1, <1>10 DEF Comment, At, Makes, TypeOf
  <2>2. Child("COMMENT", Blank, file, q + 1) /\ file' = file
    BY <1>1, <1>10 DEF Comment
  <2> QED BY <1>7, <2>1, <2>2
<1>11. CASE Unknown
  <2>1. Makes(text[q]) /\ TypeOf(text[q]) = "UNKNOWN" /\ text[q].kind = "unknown"
    BY <1>1, <1>4, <1>11 DEF Unknown, At, Makes, TypeOf
  <2>2. Child("UNKNOWN", Blank, file, q + 1) /\ file' = file
    BY <1>1, <1>11 DEF Unknown
  <2> QED BY <1>7, <2>1, <2>2
<1>12. CASE Declaration
  <2>1. Makes(text[q]) /\ TypeOf(text[q]) = "DECLARATION" /\ text[q].kind = "declaration"
    BY <1>1, <1>4, <1>12 DEF Declaration, At, Makes, TypeOf
  <2>2. Child("DECLARATION", Blank, file, q + 1) /\ file' = file
    BY <1>1, <1>12, <2>1 DEF Declaration
  <2> QED BY <1>7, <2>1, <2>2
<1> QED BY <1>4, <1>8, <1>9, <1>10, <1>11, <1>12

(* An element begins: its call comes on top, in the tag.                   *)
LEMMA ElementTracks ==
    ASSUME XmlInv, NEW text \in Seq(Lexemes), NEW inside, WellFormed(text, inside),
           NEW at, NEW q, IsAt(text, inside, at, q), Element
    PROVE  GoesOn(text, inside, q)
<1> DEFINE n == Len(nodes) + 1
           k == Len(frames)
           f == [node |-> n, at |-> "tag", attributes |-> {}]
           longer == Longer(at, nodes', n, q)
<1>1. /\ frames # <<>> /\ Frame = Last(frames) /\ Frame = frames[k] /\ at[Frame.node] = inside[q]
      /\ q \in DOMAIN text /\ q \in DOMAIN file /\ pos = q /\ file[q] = text[q]
      /\ TreeTracks(nodes, text, inside, at, q) /\ CallTracks(frames, text, inside, at, q)
  BY DEF IsAt, CallTracks, Frame, Last
<1>2. /\ Frame.node \in DOMAIN nodes
      /\ DOMAIN nodes = 1 .. Len(nodes) /\ Len(nodes) \in Nat \ {0}
      /\ k \in Nat \ {0} /\ DOMAIN frames = 1 .. k
      /\ \A i \in DOMAIN frames : frames[i].node \in DOMAIN nodes
      /\ Frame.at = "document" => k = 1
  BY <1>1, TopFrame
<1>3. text[q].kind = "open" /\ Frame.at \in {"document", "content"}
  BY <1>1 DEF Element, At, InContent
<1>4. q \in Nat /\ q + 1 \in Nat /\ inside[q + 1] = q /\ InTag(text, inside, q + 1)
  BY <1>1, <1>3, AfterLexeme
<1>5. Grown("ELEMENT", text[q].value) /\ Pushed(f)
  BY <1>1, ElementKeeps
<1>6. MadeFrom(nodes'[n], text[q]) /\ nodes'[n].parent = Frame.node /\ Makes(text[q])
  BY <1>3, <1>5 DEF Grown, MadeFrom, TypeOf, Makes
<1>7. GrowsBy(nodes, nodes', n)
  BY <1>2, <1>5 DEF Grown, GrowsBy
<1>8. f.node = n /\ f.at = "tag" /\ f.attributes = {}
  OBVIOUS
<1>9. n \notin DOMAIN nodes
  BY <1>2
<1> HIDE DEF n, k, f
<1>10. TreeTracks(nodes', text, inside, longer, q + 1)
  BY <1>1, <1>2, <1>4, <1>6, <1>7, TreeGrows
<1>11. longer[n] = q /\ \A i \in DOMAIN frames : longer[frames[i].node] = at[frames[i].node]
  BY <1>2, <1>7, <1>9 DEF GrowsBy, Longer
<1> HIDE DEF longer
<1>12. /\ Len(frames') = k + 1 /\ DOMAIN frames' = 1 .. k + 1 /\ frames'[k + 1] = f
       /\ \A i \in DOMAIN frames : frames'[i] = frames[i]
  BY <1>5 DEF Pushed, k
<1>13. frames' # <<>> /\ Last(frames') = f
  <2>1. k + 1 \in DOMAIN frames'
    BY <1>2, <1>12
  <2> QED BY <1>12, <2>1 DEF Last
<1>14. AttributesTo(text, inside, q + 1) = {}
  BY <1>4 DEF AttributesTo
<1>15. ASSUME NEW i \in DOMAIN frames', i # 1
       PROVE  /\ i # Len(frames') => frames'[i].at = "content"
              /\ text[longer[frames'[i].node]].kind = "open"
  <2>1. CASE i = k + 1
    BY <1>3, <1>8, <1>11, <1>12, <2>1
  <2>2. CASE i # k + 1
    <3>1. i \in DOMAIN frames /\ frames'[i] = frames[i]
      BY <1>2, <1>12, <2>2
    <3>2. i # k => frames[i].at = "content"
      BY <1>1, <1>15, <3>1 DEF CallTracks, k
    <3>3. i = k => frames[i].at = "content"
      BY <1>1, <1>2, <1>3, <1>15
    <3>4. text[at[frames[i].node]].kind = "open"
      BY <1>1, <1>15, <3>1 DEF CallTracks
    <3> QED BY <1>11, <3>1, <3>2, <3>3, <3>4
  <2> QED BY <2>1, <2>2
<1>16. CallTracks(frames', text, inside, longer, q + 1)
  BY <1>4, <1>8, <1>11, <1>13, <1>14, <1>15 DEF CallTracks
<1>17. error' = error /\ file' = file /\ pos' = SkipWhiteSpace(file, q + 1)
  BY <1>1 DEF Element
<1> QED BY <1>10, <1>16, <1>17 DEF GoesOn

(* The tag of the call on top goes on or ends.                             *)
LEMMA TagTracks ==
    ASSUME XmlInv, NEW text \in Seq(Lexemes), NEW inside, WellFormed(text, inside),
           NEW at, NEW q, IsAt(text, inside, at, q), Frame.at = "tag",
           NEW f, f.node = Frame.node, frames' = [frames EXCEPT ![Len(frames)] = f],
           \/ /\ text[q].kind = "attribute" /\ f.at = "tag"
              /\ f.attributes = Frame.attributes \cup {text[q].value}
           \/ text[q].kind = "gt" /\ f.at = "content",
           pos' = SkipWhiteSpace(file, pos + 1), UNCHANGED <<file, nodes, error>>
    PROVE  GoesOn(text, inside, q)
<1> DEFINE k == Len(frames)
<1>1. /\ frames # <<>> /\ Frame = Last(frames) /\ Frame = frames[k] /\ at[Frame.node] = inside[q]
      /\ q \in DOMAIN text /\ pos = q
      /\ TreeTracks(nodes, text, inside, at, q) /\ CallTracks(frames, text, inside, at, q)
      /\ InTag(text, inside, q) /\ Frame.attributes = AttributesTo(text, inside, q)
  BY DEF IsAt, CallTracks, Frame, Last
<1>2. k \in Nat \ {0} /\ DOMAIN frames = 1 .. k
  BY <1>1, TopFrame
<1>3. /\ q \in Nat /\ inside[q] \in 0 .. q - 1 /\ inside[q + 1] = inside[q]
      /\ text[q].kind = "attribute" => InTag(text, inside, q + 1)
      /\ text[q].kind = "gt" => ~InTag(text, inside, q + 1)
  <2>1. q \in DOMAIN text /\ InTag(text, inside, q) /\ text[q].kind \in {"attribute", "gt"}
    BY <1>1
  <2> QED BY ONLY <2>1, AfterLexeme, text \in Seq(Lexemes), WellFormed(text, inside)
<1>4. /\ frames' # <<>> /\ DOMAIN frames' = DOMAIN frames /\ Len(frames') = k /\ frames'[k] = f
      /\ \A i \in DOMAIN frames : i # k => frames'[i] = frames[i]
  <2>1. frames \in Seq(Frames)
    BY DEF XmlInv, XmlTypeOK
  <2> QED BY <1>2, <2>1
<1>5. Last(frames') = f
  BY <1>4 DEF Last
<1>6. text[q].kind = "attribute" =>
        AttributesTo(text, inside, q + 1) = AttributesTo(text, inside, q) \cup {text[q].value}
  <2>1. \A i \in inside[q] + 1 .. (q + 1) - 1 : i \in inside[q] + 1 .. q - 1 \/ i = q
    BY <1>3
  <2>2. q \in inside[q] + 1 .. (q + 1) - 1 /\ inside[q] + 1 .. q - 1 \subseteq inside[q] + 1 .. (q + 1) - 1
    BY <1>3
  <2> QED BY <1>3, <2>1, <2>2 DEF AttributesTo
<1>7. \A i \in DOMAIN frames : frames'[i].node = frames[i].node
  BY <1>1, <1>4
<1> HIDE DEF k
<1>8. ~Makes(text[q]) /\ Preserved(nodes, nodes)
  BY DEF Makes, Preserved
<1>9. TreeTracks(nodes, text, inside, at, q + 1)
  BY <1>1, <1>3, <1>8, TreeGoesOn
<1>10. CallTracks(frames', text, inside, at, q + 1)
  <2>1. \A i \in DOMAIN frames' : i # 1 /\ i # Len(frames') => frames'[i].at = "content"
    BY <1>1, <1>4 DEF CallTracks, k
  <2>2. \A i \in DOMAIN frames' : i # 1 => text[at[frames'[i].node]].kind = "open"
    BY <1>1, <1>4, <1>7 DEF CallTracks
  <2> QED BY <1>1, <1>3, <1>4, <1>5, <1>6, <2>1, <2>2 DEF CallTracks
<1> QED BY <1>1, <1>9, <1>10 DEF GoesOn

(* The element that is read ends, and the call below goes on.              *)
LEMMA ReturnTracks ==
    ASSUME XmlInv, NEW text \in Seq(Lexemes), NEW inside, WellFormed(text, inside),
           NEW at, NEW q, IsAt(text, inside, at, q), Frame.at # "document",
           text[q].kind \in {"close", "empty"}, Return(pos + 1), UNCHANGED error
    PROVE  GoesOn(text, inside, q)
<1> DEFINE k == Len(frames)
           n == Frame.node
<1>1. /\ frames # <<>> /\ Frame = Last(frames) /\ Frame = frames[k] /\ at[n] = inside[q]
      /\ q \in DOMAIN text /\ pos = q
      /\ TreeTracks(nodes, text, inside, at, q) /\ CallTracks(frames, text, inside, at, q)
  BY DEF IsAt, CallTracks, Frame, Last
<1>2. k \in Nat /\ k > 1 /\ DOMAIN frames = 1 .. k /\ n \in DOMAIN nodes /\ DOMAIN nodes \subseteq Nat
  BY <1>1, TopFrame
<1>3. /\ q \in Nat /\ q + 1 \in Nat /\ inside[q + 1] = inside[inside[q]]
      /\ ~InTag(text, inside, q + 1)
  <2>1. q \in DOMAIN text
    BY <1>1
  <2> QED BY ONLY <2>1, AfterLexeme, text \in Seq(Lexemes), WellFormed(text, inside),
                  text[q].kind \in {"close", "empty"}
<1>4. /\ frames[1].node = 1 /\ frames[1].at = "document"
      /\ nodes[n].parent = frames[k - 1].node /\ n # 1
  <2>1. frames[1].node = 1 /\ frames[1].at = "document" /\ frames[1].node < n
    BY <1>1, <1>2 DEF XmlInv, FramesInv
  <2>2. nodes[n].parent = frames[k - 1].node
    BY <1>1, <1>2 DEF XmlInv, FramesInv
  <2> QED BY <1>2, <2>1, <2>2
<1>5. Preserved(nodes, nodes') /\ DOMAIN nodes' = DOMAIN nodes /\ Popped
  <2>1. error' \in BOOLEAN
    BY DEF XmlInv, XmlTypeOK
  <2> QED BY <1>1, <1>3, <2>1, ReturnKeeps
<1>6. /\ Len(frames') = k - 1 /\ DOMAIN frames' = 1 .. k - 1 /\ k - 1 \in 1 .. k - 1
      /\ \A i \in DOMAIN frames' : frames'[i] = frames[i]
  BY <1>2, <1>5 DEF Popped
<1>7. frames' # <<>> /\ Last(frames') = frames[k - 1]
  BY <1>6 DEF Last
<1>8. at[nodes[n].parent] = inside[inside[q]]
  BY <1>1, <1>2, <1>4 DEF TreeTracks
<1>9. ~Makes(text[q])
  BY DEF Makes
<1>10. TreeTracks(nodes', text, inside, at, q + 1)
  BY <1>1, <1>3, <1>5, <1>9, TreeGoesOn
<1>11. \A i \in DOMAIN frames' : i # 1 => frames'[i].at = "content" /\ text[at[frames'[i].node]].kind = "open"
  BY <1>1, <1>2, <1>6 DEF CallTracks
<1>12. frames[k - 1].at # "tag"
  BY <1>2, <1>4, <1>6, <1>11
<1> HIDE DEF k, n
<1>13. CallTracks(frames', text, inside, at, q + 1)
  BY <1>3, <1>4, <1>7, <1>8, <1>11, <1>12 DEF CallTracks
<1> QED BY <1>1, <1>10, <1>13 DEF GoesOn, Return

(* Whatever the parser does there, it goes on to the next place, unless an *)
(* attribute ends the file.                                                *)
LEMMA ParseTracks ==
    ASSUME XmlInv, NEW text \in Seq(Lexemes), NEW inside, WellFormed(text, inside),
           NEW at, NEW q, IsAt(text, inside, at, q), Parse,
           q = Len(file) => text[q].kind # "attribute"
    PROVE  GoesOn(text, inside, q)
<1>1. /\ frames # <<>> /\ q \in DOMAIN text /\ q \in DOMAIN file /\ pos = q /\ file[q] = text[q] /\ ~AtEnd
  BY DEF IsAt, CallTracks, AtEnd
<1>2. Frame \in Frames /\ Frame.at \in {"document", "tag", "content"} /\ Frame = frames[Len(frames)]
      /\ Len(frames) \in DOMAIN frames
  BY <1>1, TopFrame DEF Frames
<1>3. /\ Frame.at = "tag" => /\ text[q].kind \in {"gt", "empty", "attribute"}
                             /\ text[q].kind = "attribute" => text[q].value \notin Frame.attributes
      /\ Frame.at = "content" =>
           /\ text[q].kind \in {"text", "cdata", "comment", "declaration", "unknown", "open", "close"}
           /\ text[q].kind = "close" => text[q].value = nodes[Frame.node].value
      /\ Frame.at = "document" => text[q].kind \in {"comment", "declaration", "unknown", "open"}
  BY WhatIsThere
<1>4. CASE Text \/ CData \/ Comment \/ BeyondTheEnd \/ Unknown \/ Declaration
  <2>1. Frame.at # "tag"
    BY <1>4 DEF Text, CData, Comment, BeyondTheEnd, Unknown, Declaration, At, InContent
  <2> QED BY <1>4, <2>1, ChildTracks
<1>5. CASE Element
  BY <1>5, ElementTracks
<1>6. CASE Attribute
  <2> DEFINE f == [Frame EXCEPT !.attributes = Frame.attributes \cup {text[q].value}]
  <2>1. Frame.at = "tag" /\ text[q].kind = "attribute" /\ q # Len(file)
    BY <1>1, <1>6 DEF Attribute, At
  <2>2. /\ frames' = [frames EXCEPT ![Len(frames)].attributes = @ \cup {text[q].value}]
        /\ pos' = SkipWhiteSpace(file, pos + 1) /\ UNCHANGED <<file, nodes, error>>
    BY <1>1, <1>3, <1>6, <2>1 DEF Attribute
  <2>3. frames' = [frames EXCEPT ![Len(frames)] = f]
    BY <1>2, <2>2
  <2>4. f.node = Frame.node /\ f.at = "tag" /\ f.attributes = Frame.attributes \cup {text[q].value}
    BY <1>2, <2>1 DEF Frames
  <2> HIDE DEF f
  <2> QED BY <2>1, <2>2, <2>3, <2>4, TagTracks
<1>13. CASE AttributeBeyond
  BY <1>1, <1>3, <1>13 DEF AttributeBeyond, At
<1>7. CASE TagEnds
  <2> DEFINE f == [Frame EXCEPT !.at = "content"]
  <2>1. Frame.at = "tag" /\ text[q].kind = "gt"
    BY <1>1, <1>7 DEF TagEnds, At
  <2>2. pos' = SkipWhiteSpace(file, pos + 1) /\ UNCHANGED <<file, nodes, error>>
    BY <1>7 DEF TagEnds
  <2>3. frames' = [frames EXCEPT ![Len(frames)] = f]
    BY <1>2, <1>7 DEF TagEnds
  <2>4. f.node = Frame.node /\ f.at = "content"
    BY <1>2 DEF Frames
  <2> HIDE DEF f
  <2> QED BY <2>1, <2>2, <2>3, <2>4, TagTracks
<1>8. CASE EmptyTag
  BY <1>1, <1>8, ReturnTracks DEF EmptyTag, At
<1>9. CASE EndTag
  BY <1>1, <1>3, <1>9, ReturnTracks DEF EndTag, At
<1>10. CASE TagFails
  BY <1>1, <1>3, <1>10 DEF TagFails
<1>11. CASE ContentEnds
  BY <1>1, <1>11 DEF ContentEnds
<1>12. CASE DocumentEnds
  BY <1>1, <1>3, <1>12 DEF DocumentEnds
<1> QED BY <1>4, <1>5, <1>6, <1>7, <1>8, <1>9, <1>10, <1>11, <1>12, <1>13 DEF Parse

-----------------------------------------------------------------------------
(* The parser reads a whole well-formed text                               *)

(* The parser has read tree and is at p, behind the white space.           *)
Settled(tree, calls, text, inside, p) ==
    LET q == IF p \in DOMAIN text THEN p ELSE Len(text) + 1
    IN  /\ p \in DOMAIN text => text[p].kind # "space"
        /\ \E at : TreeTracks(tree, text, inside, at, q) /\ CallTracks(calls, text, inside, at, q)

(* While the parser runs, and when it has returned. There is no error then *)
(* but that the document is empty.                                         *)
Tracking(text, inside) ==
    /\ file = text
    /\ frames # <<>> => ~error /\ Settled(nodes, frames, text, inside, pos)
    /\ frames = <<>> => /\ error => nodes[1].first = 0
                        /\ \E at : TreeTracks(nodes, text, inside, at, Len(text) + 1)

(* SkipWhiteSpace goes on to where the parser takes its next step.         *)
LEMMA SkipSettles ==
    ASSUME NEW text \in Seq(Lexemes), NEW inside, WellFormed(text, inside),
           NEW q \in 1 .. Len(text) + 1, NEW tree, NEW calls, NEW at,
           TreeTracks(tree, text, inside, at, q), CallTracks(calls, text, inside, at, q)
    PROVE  Settled(tree, calls, text, inside, SkipWhiteSpace(text, q))
<1>1. DOMAIN text = 1 .. Len(text) /\ Len(text) \in Nat
  BY LenProperties
<1>2. CASE q \notin DOMAIN text
  <2>1. q = Len(text) + 1 /\ SkipWhiteSpace(text, q) = 0 /\ 0 \notin DOMAIN text
    BY <1>1, <1>2 DEF SkipWhiteSpace
  <2> QED BY <2>1 DEF Settled
<1>3. CASE q \in DOMAIN text /\ text[q].kind # "space"
  <2>1. SkipWhiteSpace(text, q) = q
    BY <1>3 DEF SkipWhiteSpace
  <2> QED BY <1>3, <2>1 DEF Settled
<1>4. CASE q \in DOMAIN text /\ text[q].kind = "space"
  <2>1. SkipWhiteSpace(text, q) = q + 1
    BY <1>4 DEF SkipWhiteSpace
  <2>2. TreeTracks(tree, text, inside, at, q + 1) /\ CallTracks(calls, text, inside, at, q + 1)
    BY <1>4, SpaceTracks
  <2>3. q + 1 \in DOMAIN text => text[q + 1].kind # "space"
    <3>1. q \in Nat /\ Len(text) \in Nat
      BY <1>1
    <3>2. q = Len(text) => q + 1 \notin 1 .. Len(text)
      BY ONLY <3>1
    <3> QED BY <1>1, <1>4, <3>2 DEF WellFormed
  <2>4. q + 1 \notin DOMAIN text => q + 1 = Len(text) + 1
    BY <1>1, <1>4
  <2> QED BY <2>1, <2>2, <2>3, <2>4 DEF Settled
<1> QED BY <1>2, <1>3, <1>4

(* Outside of all elements it is the document that is read.                *)
LEMMA OnlyDocument ==
    ASSUME XmlInv, NEW text, NEW inside, NEW at, NEW q, inside[q] = 0,
           TreeTracks(nodes, text, inside, at, q), CallTracks(frames, text, inside, at, q)
    PROVE  Frame.at = "document"
<1>1. frames # <<>> /\ Frame = Last(frames) /\ at[Frame.node] = 0
  BY DEF CallTracks, Frame
<1>2. /\ Frame = frames[Len(frames)] /\ Frame.node \in DOMAIN nodes
      /\ DOMAIN nodes = 1 .. Len(nodes) /\ Len(nodes) \in Nat \ {0}
      /\ Frame.at # "document" => Len(frames) > 1
      /\ DOMAIN frames = 1 .. Len(frames) /\ Len(frames) \in Nat
  BY <1>1, TopFrame
<1>3. frames[1].node = 1 /\ (Frame.at # "document" => frames[1].node < Frame.node)
  BY <1>1, <1>2 DEF XmlInv, FramesInv
<1>4. at[1] = 0 /\ (Frame.node > 1 => at[1] < at[Frame.node])
  BY <1>2 DEF TreeTracks
<1> QED BY <1>1, <1>3, <1>4

(* LoadFile begins with the document, outside of all elements.             *)
LEMMA LoadBegins ==
    ASSUME NEW text, NEW inside, WellFormed(text, inside), NEW whole, LoadFile(whole)
    PROVE  \E at : /\ TreeTracks(nodes', text, inside, at, 1)
                   /\ whole # <<>> => CallTracks(frames', text, inside, at, 1)
<1> DEFINE document == NewNode("DOCUMENT", Blank, 0)
           f == [node |-> 1, at |-> "document", attributes |-> {}]
           at == [n \in {1} |-> 0]
<1>1. nodes' = <<document>> /\ (whole # <<>> => frames' = <<f>>)
  BY DEF LoadFile
<1>2. DOMAIN nodes' = {1}
  BY <1>1
<1>3. TreeTracks(nodes', text, inside, at, 1)
  <2>1. at \in [DOMAIN nodes' -> 0 .. 1 - 1] /\ at[1] = 0
    BY <1>2
  <2>2. 1 .. 1 - 1 = {} /\ \A m, n \in DOMAIN nodes' : ~ (m < n)
    BY <1>2
  <2>3. DOMAIN nodes' \ {1} = {}
    BY <1>2
  <2> HIDE DEF at
  <2> QED BY <2>1, <2>2, <2>3 DEF TreeTracks
<1>4. ASSUME whole # <<>> PROVE CallTracks(frames', text, inside, at, 1)
  <2>1. frames' # <<>> /\ Last(frames') = f /\ DOMAIN frames' = {1} /\ at[f.node] = 0 /\ f.at = "document"
    <3>1. at[f.node] = 0 /\ f.at = "document"
      OBVIOUS
    <3> HIDE DEF f, at
    <3>2. frames' = <<f>>
      BY <1>1, <1>4
    <3>3. frames' # <<>> /\ DOMAIN frames' = {1} /\ Len(frames') = 1 /\ frames'[1] = f
      BY ONLY <3>2
    <3> QED BY <3>1, <3>3 DEF Last
  <2>2. inside[1] = 0 /\ ~InTag(text, inside, 1)
    BY DEF WellFormed, InTag
  <2> HIDE DEF f, at
  <2> QED BY <2>1, <2>2 DEF CallTracks
<1> HIDE DEF at
<1> QED BY <1>3, <1>4

(* On the text itself it goes on behind the white space.                   *)
LEMMA LoadTracks ==
    ASSUME NEW text \in Seq(Lexemes), NEW inside, WellFormed(text, inside), LoadFile(text)
    PROVE  Tracking(text, inside)'
<1>1. PICK at : /\ TreeTracks(nodes', text, inside, at, 1)
                /\ text # <<>> => CallTracks(frames', text, inside, at, 1)
  BY LoadBegins
<1>2. Len(text) \in Nat /\ (text = <<>> => Len(text) = 0)
  BY LenProperties
<1>3. CASE text = <<>>
  <2>1. file' = text /\ frames' = <<>> /\ nodes'[1].first = 0
    BY <1>3 DEF LoadFile, NewNode
  <2> QED BY <1>1, <1>2, <1>3, <2>1 DEF Tracking
<1>4. CASE text # <<>>
  <2>1. file' = text /\ ~error' /\ pos' = SkipWhiteSpace(text, 1) /\ frames' # <<>>
    BY <1>1, <1>4 DEF LoadFile, CallTracks
  <2>2. Settled(nodes', frames', text, inside, SkipWhiteSpace(text, 1))
    BY <1>1, <1>2, <1>4, SkipSettles
  <2> QED BY <2>1, <2>2 DEF Tracking
<1> QED BY <1>3, <1>4

(* Every step of the parser goes on in the text, or ends with it.          *)
LEMMA ParseReads ==
    ASSUME XmlInv, NEW text \in Seq(Lexemes), NEW inside, WellFormed(text, inside),
           Tracking(text, inside), Parse
    PROVE  Tracking(text, inside)'
<1>1. DOMAIN text = 1 .. Len(text) /\ Len(text) \in Nat /\ file = text
  BY LenProperties DEF Tracking
<1>2. frames # <<>>
  BY DEF Parse, DocumentEnds, Element, Attribute, AttributeBeyond, EmptyTag, TagEnds, TagFails, EndTag, ContentEnds,
         Text, CData, Comment, BeyondTheEnd, Unknown, Declaration, At
<1>3. ~error /\ Settled(nodes, frames, text, inside, pos)
  BY <1>2 DEF Tracking
<1>4. CASE ~AtEnd
  <2>1. pos \in DOMAIN text /\ text[pos].kind # "space"
    BY <1>1, <1>3, <1>4 DEF AtEnd, Settled
  <2>2. PICK at : TreeTracks(nodes, text, inside, at, pos) /\ CallTracks(frames, text, inside, at, pos)
    BY <1>3, <2>1 DEF Settled
  <2>3. IsAt(text, inside, at, pos)
    BY <1>1, <2>1, <2>2 DEF IsAt
  <2>4. pos = Len(file) => text[pos].kind # "attribute"
    <3>1. SUFFICES ASSUME pos = Len(text), text[pos].kind = "attribute" PROVE FALSE
      BY <1>1
    <3>2. inside[pos + 1] = inside[pos]
      BY <2>1, <3>1, AfterLexeme
    <3>3. inside[pos] # 0
      <4>1. InTheTag(text, inside, pos) \/ InTheContent(text, inside, pos) \/ InTheDocument(text, inside, pos)
        BY <2>1 DEF WellFormed
      <4> QED BY <3>1, <4>1 DEF InTheTag, InTag, InTheContent, InTheDocument
    <3> QED BY <3>1, <3>2, <3>3 DEF WellFormed
  <2>5. GoesOn(text, inside, pos)
    BY <2>3, <2>4, ParseTracks
  <2>6. PICK after : TreeTracks(nodes', text, inside, after, pos + 1)
                       /\ CallTracks(frames', text, inside, after, pos + 1)
    BY <2>5 DEF GoesOn
  <2>7. pos + 1 \in 1 .. Len(text) + 1
    BY <1>1, <2>1
  <2>8. Settled(nodes', frames', text, inside, SkipWhiteSpace(text, pos + 1))
    BY <2>6, <2>7, SkipSettles
  <2>9. file' = text /\ error' = error /\ pos' = SkipWhiteSpace(text, pos + 1) /\ frames' # <<>>
    BY <1>1, <2>5, <2>6 DEF GoesOn, CallTracks
  <2> QED BY <1>3, <2>8, <2>9 DEF Tracking
<1>5. CASE AtEnd
  <2>1. PICK at : /\ TreeTracks(nodes, text, inside, at, Len(text) + 1)
                  /\ CallTracks(frames, text, inside, at, Len(text) + 1)
    BY <1>1, <1>3, <1>5 DEF AtEnd, Settled
  <2>2. Frame.at = "document"
    <3>1. inside[Len(text) + 1] = 0
      BY DEF WellFormed
    <3> QED BY <2>1, <3>1, OnlyDocument
  <2>3. DocumentEnds
    BY <1>5, <2>2 DEF Parse, Element, Attribute, AttributeBeyond, EmptyTag, TagEnds, TagFails, EndTag, ContentEnds,
                      Text, CData, Comment, BeyondTheEnd, Unknown, Declaration, At
  <2>4. file' = text /\ frames' = <<>> /\ nodes' = nodes /\ error' = (nodes[1].first = 0)
    BY <1>1, <1>3, <2>3 DEF DocumentEnds
  <2> QED BY <2>1, <2>4 DEF Tracking
<1> QED BY <1>4, <1>5

-----------------------------------------------------------------------------
(* The parser on a file that departs from a well-formed text at place c.   *)
(* Up to there it reads the text. Then no element is added any more, and   *)
(* every call that returns without an error but the last two finds NULL    *)
(* and reports it: there is no error at the end only if the text was, at   *)
(* place c, in the content of the root element or outside of all elements. *)

(* Where the places from c on are.                                         *)
Until(inside, c) == [i \in Nat |-> IF i < c THEN inside[i] ELSE inside[c]]

(* v is text up to place c, and goes on without an element.                *)
Continues(v, text, c) ==
    /\ v \in Seq(Lexemes)
    /\ Len(v) + 1 >= c
    /\ \A i \in 1 .. c - 1 : v[i] = text[i]
    /\ \A i \in c .. Len(v) : v[i].kind # "open"

(* The nodes are what such a text makes.                                   *)
HasRead(tree, text, inside, c, at) ==
    \E v : Continues(v, text, c) /\ TreeTracks(tree, v, Until(inside, c), at, Len(v) + 1)

(* The call on top reads the element, or the document, that place c is in. *)
(* An attribute that is cut may have been added to those before place c.   *)
TopTracks(tree, calls, text, inside, c, at) ==
    /\ calls # <<>>
    /\ at[Last(calls).node] = inside[c]
    /\ Last(calls).at = "tag" <=> InTag(text, inside, c)
    /\ Last(calls).at = "tag" => AttributesTo(text, inside, c) \subseteq Last(calls).attributes
    /\ inside[c] # 0 => tree[Last(calls).node].value = text[inside[c]].value
    /\ \A i \in DOMAIN calls : i # Len(calls) => calls[i].at # "tag"

Stands(tree, calls, text, inside, c) ==
    \E at : HasRead(tree, text, inside, c, at) /\ TopTracks(tree, calls, text, inside, c, at)

(* Nothing depends on what is in the text further on.                      *)
LEMMA SameTree ==
    ASSUME NEW tree, DOMAIN tree \subseteq Nat \ {0}, 1 \in DOMAIN tree,
           NEW text, NEW inside, NEW at, NEW q \in Nat, TreeTracks(tree, text, inside, at, q),
           NEW v, NEW within, \A i \in 1 .. q - 1 : v[i] = text[i] /\ within[i] = inside[i]
    PROVE  TreeTracks(tree, v, within, at, q)
<1>1. at \in [DOMAIN tree -> 0 .. q - 1] /\ at[1] = 0
      /\ \A m, n \in DOMAIN tree : m < n => at[m] < at[n]
  BY DEF TreeTracks
<1>2. ASSUME NEW n \in DOMAIN tree \ {1} PROVE v[at[n]] = text[at[n]] /\ within[at[n]] = inside[at[n]]
  <2>1. 1 < n
    OBVIOUS
  <2>2. at[1] < at[n] /\ at[n] \in 0 .. q - 1
    BY <1>1, <2>1
  <2>3. at[n] \in 1 .. q - 1
    BY <1>1, <2>2
  <2> QED BY <2>3
<1>3. ASSUME NEW n \in DOMAIN tree \ {1}
      PROVE  /\ Makes(v[at[n]]) /\ MadeFrom(tree[n], v[at[n]])
             /\ tree[n].parent \in DOMAIN tree /\ at[tree[n].parent] = within[at[n]]
  BY <1>2 DEF TreeTracks
<1>4. \A i \in 1 .. q - 1 : Makes(v[i]) => \E n \in DOMAIN tree : at[n] = i
  BY DEF TreeTracks
<1> QED BY <1>1, <1>3, <1>4 DEF TreeTracks

(* Where the parser is in its calls when it comes to place c.              *)
LEMMA Arrives ==
    ASSUME NEW text \in Seq(Lexemes), NEW inside, NEW c \in 1 .. Len(text) + 1,
           NEW tree, DOMAIN tree \subseteq Nat \ {0}, 1 \in DOMAIN tree,
           NEW calls, DOMAIN calls = 1 .. Len(calls), Len(calls) \in Nat \ {0},
           calls[1].node = 1, calls[1].at = "document",
           \A i \in DOMAIN calls : calls[i].node \in DOMAIN tree,
           NEW at, TreeTracks(tree, text, inside, at, c), CallTracks(calls, text, inside, at, c)
    PROVE  Stands(tree, calls, text, inside, c)
<1> DEFINE v == SubSeq(text, 1, c - 1)
<1>1. Len(text) \in Nat /\ \A i \in 1 .. c - 1 : text[i] \in Lexemes
  <2>1. Len(text) \in Nat
    BY LenProperties
  <2>2. \A i \in 1 .. c - 1 : i \in 1 .. Len(text)
    BY <2>1
  <2> QED BY <2>1, <2>2, ElementOfSeq
<1>2. /\ v \in Seq(Lexemes) /\ Len(v) = c - 1
      /\ \A i \in 1 .. c - 1 : v[i] = text[i]
  <2>1. 1 \in Int /\ c - 1 \in Int /\ c \in Int
    BY <1>1
  <2>2. /\ SubSeq(text, 1, c - 1) \in Seq(Lexemes)
        /\ Len(SubSeq(text, 1, c - 1)) = IF 1 <= c - 1 THEN (c - 1) - 1 + 1 ELSE 0
        /\ \A i \in 1 .. (c - 1) - 1 + 1 : SubSeq(text, 1, c - 1)[i] = text[1 + i - 1]
    BY <1>1, <2>1, SubSeqProperties
  <2>3. (IF 1 <= c - 1 THEN (c - 1) - 1 + 1 ELSE 0) = c - 1 /\ (c - 1) - 1 + 1 = c - 1
    BY <1>1
  <2>4. \A i \in 1 .. c - 1 : 1 + i - 1 = i
    BY <1>1
  <2> QED BY <2>2, <2>3, <2>4
<1> HIDE DEF v
<1>3. Continues(v, text, c)
  <2>1. c .. Len(v) = {} /\ Len(v) + 1 >= c
    BY <1>1, <1>2
  <2> QED BY <1>2, <2>1 DEF Continues
<1>4. TreeTracks(tree, v, Until(inside, c), at, c)
  <2>1. c \in Nat /\ \A i \in 1 .. c - 1 : v[i] = text[i] /\ Until(inside, c)[i] = inside[i]
    BY <1>1, <1>2 DEF Until
  <2> QED BY <2>1, SameTree
<1>5. HasRead(tree, text, inside, c, at)
  <2>1. Len(v) + 1 = c
    BY <1>1, <1>2
  <2> QED BY <1>3, <1>4, <2>1 DEF HasRead
<1>6. Last(calls) = calls[Len(calls)] /\ calls # <<>> /\ Last(calls).node \in DOMAIN tree
  BY DEF Last, CallTracks
<1>7. ASSUME inside[c] # 0 PROVE tree[Last(calls).node].value = text[inside[c]].value
  <2>1. at[Last(calls).node] = inside[c] /\ at[1] = 0
    BY DEF CallTracks, TreeTracks
  <2>2. Last(calls).node # 1 /\ Len(calls) # 1
    BY <1>6, <1>7, <2>1
  <2>3. text[inside[c]].kind = "open"
    <3>1. Len(calls) \in DOMAIN calls
      OBVIOUS
    <3>2. text[at[calls[Len(calls)].node]].kind = "open"
      BY <2>2, <3>1 DEF CallTracks
    <3> QED BY <1>6, <2>1, <3>2
  <2>4. MadeFrom(tree[Last(calls).node], text[inside[c]])
    BY <1>6, <2>1, <2>2 DEF TreeTracks
  <2> QED BY <2>3, <2>4 DEF MadeFrom, TypeOf
<1>8. ASSUME NEW i \in DOMAIN calls, i # Len(calls) PROVE calls[i].at # "tag"
  BY <1>8 DEF CallTracks
<1>9. TopTracks(tree, calls, text, inside, c, at)
  BY <1>6, <1>7, <1>8 DEF TopTracks, CallTracks
<1> QED BY <1>5, <1>9 DEF Stands

(* The file is the text up to place c, and departs from it there. It does  *)
(* not lead the parser beyond its end, or no part of a tag is there.       *)
Departing(text, inside, c) ==
    /\ Overruns(file) => IdleMemory
    /\ \A i \in 1 .. c - 1 : i \in DOMAIN file /\ file[i] = text[i]
    /\ \/ \A i \in DOMAIN file :
            i >= c => Idle(file[i]) \/ (inside[c] = 0 /\ file[i].kind = "close")
       \/ Len(file) = c /\ file[c].kind = "open"
       \/ c \in DOMAIN file /\ Mistake(file, inside, c)

(* The parser has not come to place c.                                     *)
Reading(text, inside, c) == pos < c /\ \E at : IsAt(text, inside, at, pos)

(* It has, or is further on.                                               *)
Arrived(text, inside, c) ==
    /\ Stands(nodes, frames, text, inside, c)
    /\ pos \notin 1 .. c - 1
    /\ c \in DOMAIN file /\ Mistake(file, inside, c) => pos = c

(* The file has ended in a tag.                                            *)
InLastTag == frames # <<>> /\ Frame.at = "tag" /\ AtEnd

(* The Parse of the element that place c is in has returned NULL.          *)
Returned(text, inside, c) ==
    /\ frames # <<>>
    /\ Frame.at # "tag"
    /\ pos = 0
    /\ \E at : HasRead(nodes, text, inside, c, at) /\ at[Frame.node] = inside[inside[c]]

(* All has returned.                                                       *)
Over(text, inside, c) ==
    /\ inside[c] = 0 \/ inside[inside[c]] = 0
    /\ \E at : HasRead(nodes, text, inside, c, at)

(* No element is added any more.                                           *)
Departed(text, inside, c) ==
    \/ frames # <<>> /\ (Arrived(text, inside, c) \/ InLastTag \/ Returned(text, inside, c))
    \/ frames = <<>> /\ Over(text, inside, c)

(* Where the parser is in a file that departs there.                       *)
Leaving(text, inside, c) ==
    ~error => /\ Departing(text, inside, c)
              /\ \/ frames # <<>> /\ Reading(text, inside, c)
                 \/ Departed(text, inside, c)

(* SkipWhiteSpace stays before place c, or arrives there.                  *)
LEMMA SkipLeaves ==
    ASSUME NEW text \in Seq(Lexemes), NEW inside, WellFormed(text, inside),
           NEW c \in 1 .. Len(text) + 1, NEW q \in 1 .. c, NEW at,
           XmlInv', 1 \in DOMAIN nodes', Departing(text, inside, c)',
           TreeTracks(nodes', text, inside, at, q), CallTracks(frames', text, inside, at, q),
           pos' = SkipWhiteSpace(file', q)
    PROVE  Reading(text, inside, c)' \/ Arrived(text, inside, c)'
<1>1. DOMAIN text = 1 .. Len(text) /\ Len(text) \in Nat /\ c \in Nat /\ q \in Nat
      /\ c <= Len(text) + 1 /\ 1 <= q /\ q <= c
  BY LenProperties
<1>2. /\ DOMAIN nodes' \subseteq Nat \ {0}
      /\ Len(frames') \in Nat \ {0} /\ DOMAIN frames' = 1 .. Len(frames')
      /\ frames'[1].node = 1 /\ frames'[1].at = "document"
      /\ \A i \in DOMAIN frames' : frames'[i].node \in DOMAIN nodes'
  <2>1. frames' \in Seq(Frames) /\ nodes' \in Seq(Nodes) /\ frames' # <<>>
    BY DEF XmlInv, XmlTypeOK, CallTracks
  <2>2. DOMAIN nodes' = 1 .. Len(nodes') /\ Len(nodes') \in Nat
        /\ Len(frames') \in Nat \ {0} /\ DOMAIN frames' = 1 .. Len(frames')
    BY <2>1, LenProperties, EmptySeq
  <2> QED BY <2>1, <2>2 DEF XmlInv, FramesInv
<1>3. \A i \in 1 .. c - 1 : i \in DOMAIN file' /\ file'[i] = text[i]
  BY DEF Departing
<1>4. ASSUME Mistake(file', inside, c) PROVE file'[c].kind # "space"
  BY <1>4 DEF Mistake
<1>5. ASSUME TreeTracks(nodes', text, inside, at, c), CallTracks(frames', text, inside, at, c),
             pos' \in {0, c, c + 1}, c \in DOMAIN file' /\ file'[c].kind # "space" => pos' = c
      PROVE  Arrived(text, inside, c)'
  <2>1. Stands(nodes', frames', text, inside, c)
    BY <1>2, <1>5, Arrives
  <2>2. pos' \notin 1 .. c - 1
    BY <1>1, <1>5
  <2> QED BY <1>4, <1>5, <2>1, <2>2 DEF Arrived
<1>6. ASSUME NEW p \in 1 .. c - 1, TreeTracks(nodes', text, inside, at, p),
             CallTracks(frames', text, inside, at, p), pos' = p, text[p].kind # "space"
      PROVE  Reading(text, inside, c)'
  <2>1. p \in DOMAIN text /\ p < c
    BY <1>1
  <2>2. IsAt(text, inside, at, pos)'
    BY <1>3, <1>6, <2>1 DEF IsAt
  <2> QED BY <1>6, <2>1, <2>2 DEF Reading
<1>7. CASE q = c
  <2>1. pos' = IF c \notin DOMAIN file' THEN 0 ELSE IF file'[c].kind = "space" THEN c + 1 ELSE c
    BY <1>7 DEF SkipWhiteSpace
  <2> QED BY <1>5, <1>7, <2>1
<1>8. CASE q < c
  <2>1. q \in 1 .. c - 1 /\ q \in DOMAIN text /\ q \in DOMAIN file' /\ file'[q] = text[q]
    BY <1>1, <1>3, <1>8
  <2>2. CASE text[q].kind # "space"
    <3>1. pos' = q
      BY <2>1, <2>2 DEF SkipWhiteSpace
    <3> QED BY <1>6, <2>1, <2>2, <3>1
  <2>3. CASE text[q].kind = "space"
    <3>1. pos' = q + 1
      BY <2>1, <2>3 DEF SkipWhiteSpace
    <3>2. TreeTracks(nodes', text, inside, at, q + 1) /\ CallTracks(frames', text, inside, at, q + 1)
      BY <2>1, <2>3, SpaceTracks
    <3>3. CASE q + 1 = c
      BY <1>5, <3>1, <3>2, <3>3
    <3>4. CASE q + 1 # c
      <4>1. q + 1 \in 1 .. c - 1 /\ q # Len(text)
        <5>1. /\ Len(text) \in Nat /\ c \in Nat /\ q \in Nat
              /\ c <= Len(text) + 1 /\ 1 <= q /\ q < c /\ q + 1 # c
          BY <1>1, <1>8, <3>4
        <5>2. q + 1 <= c - 1 /\ q # Len(text)
          BY ONLY <5>1
        <5> QED BY <5>1, <5>2
      <4>2. text[q + 1].kind # "space"
        BY <2>1, <2>3, <4>1 DEF WellFormed
      <4> QED BY <1>6, <3>1, <3>2, <4>1, <4>2
    <3> QED BY <3>3, <3>4
  <2> QED BY <2>2, <2>3
<1> QED BY <1>1, <1>7, <1>8

(* What is there depends on what is before it.                             *)
LEMMA SameMistake ==
    ASSUME NEW c \in Nat, NEW inside, inside[c] \in 0 .. c - 1,
           NEW v, NEW w, \A i \in 1 .. c - 1 : v[i] = w[i]
    PROVE  /\ InTag(v, inside, c) <=> InTag(w, inside, c)
           /\ v[c] = w[c] => (Mistake(v, inside, c) <=> Mistake(w, inside, c))
<1>1. \A j \in inside[c] + 1 .. c - 1 : v[j] = w[j]
  OBVIOUS
<1>2. InTag(v, inside, c) <=> InTag(w, inside, c)
  BY <1>1 DEF InTag
<1>3. inside[c] # 0 => v[inside[c]] = w[inside[c]]
  OBVIOUS
<1> QED BY <1>1, <1>2, <1>3 DEF Mistake

(* The text is in an element that begins before.                           *)
LEMMA InsideBefore ==
    ASSUME NEW text \in Seq(Lexemes), NEW inside, WellFormed(text, inside),
           NEW c \in 1 .. Len(text) + 1
    PROVE  c \in Nat /\ inside[c] \in 0 .. c - 1
<1>1. DOMAIN text = 1 .. Len(text) /\ Len(text) \in Nat
  BY LenProperties
<1>2. CASE c \in DOMAIN text
  BY <1>2, AfterLexeme
<1>3. CASE c \notin DOMAIN text
  <2>1. c = Len(text) + 1
    BY <1>1, <1>3
  <2> QED BY <1>1, <2>1 DEF WellFormed
<1> QED BY <1>2, <1>3

(* What the memory behind the file adds to it changes nothing.             *)
LEMMA DepartingStays ==
    ASSUME XmlInv, Parse,
           NEW text \in Seq(Lexemes), NEW inside, WellFormed(text, inside),
           NEW c \in 1 .. Len(text) + 1, Departing(text, inside, c)
    PROVE  Departing(text, inside, c)'
<1>1. CASE file' = file
  BY <1>1 DEF Departing, Overruns
<1>2. CASE BeyondTheEnd \/ (AttributeBeyond /\ file' # file)
  <2>1. PICK rest \in Memory \cup MemoryInTag : file' = file \o rest
    BY <1>2 DEF BeyondTheEnd, AttributeBeyond, Return, Fail
  <2>2. /\ file \in Seq(Lexemes) /\ rest \in Seq(Lexemes)
        /\ DOMAIN file = 1 .. Len(file) /\ Len(file) \in Nat
        /\ DOMAIN rest = 1 .. Len(rest) /\ Len(rest) \in Nat
        /\ pos \in DOMAIN file /\ file[pos].kind \in {"commentcut", "cdatacut", "attributecut"}
    BY <1>2, MemoryAssumption, LenProperties
       DEF XmlInv, XmlTypeOK, BeyondTheEnd, AttributeBeyond, At, AtEnd
  <2>11. IdleMemory
    BY <2>2 DEF Departing, Overruns
  <2>3. /\ file' \in Seq(Lexemes) /\ Len(file') = Len(file) + Len(rest)
        /\ \A i \in 1 .. Len(file) + Len(rest) :
             file'[i] = IF i <= Len(file) THEN file[i] ELSE rest[i - Len(file)]
    BY <2>1, <2>2, ConcatProperties
  <2>4. DOMAIN file' = 1 .. Len(file) + Len(rest)
    BY <2>3, LenProperties
  <2>5. \A i \in DOMAIN file : i \in DOMAIN file' /\ file'[i] = file[i]
    BY <2>2, <2>3, <2>4
  <2>6. \A i \in DOMAIN file' : i \in DOMAIN file \/ Idle(file'[i])
    <3>1. ASSUME NEW i \in DOMAIN file', i \notin DOMAIN file PROVE Idle(file'[i])
      <4>1. i - Len(file) \in DOMAIN rest /\ file'[i] = rest[i - Len(file)]
        BY <2>2, <2>3, <2>4, <3>1
      <4> QED BY <2>11, <4>1 DEF IdleMemory
    <3> QED BY <3>1
  <2>7. \A i \in 1 .. c - 1 : i \in DOMAIN file /\ file[i] = text[i]
    BY DEF Departing
  <2>8. CASE \A i \in DOMAIN file :
               i >= c => Idle(file[i]) \/ (inside[c] = 0 /\ file[i].kind = "close")
    BY <2>5, <2>6, <2>7, <2>8, <2>11 DEF Departing
  <2>9. CASE Len(file) = c /\ file[c].kind = "open"
    <3>1. pos # c /\ pos \in 1 .. c - 1
      BY <2>2, <2>9
    <3>2. text[pos].kind \in {"commentcut", "cdatacut", "attributecut"} /\ pos \in DOMAIN text
      <4>1. pos \in 1 .. Len(text)
        <5>1. Len(text) \in Nat
          BY LenProperties
        <5> QED BY <3>1, <5>1
      <4> QED BY <2>2, <2>7, <3>1, <4>1, LenProperties
    <3>3. InTheTag(text, inside, pos) \/ InTheContent(text, inside, pos) \/ InTheDocument(text, inside, pos)
      BY <3>2 DEF WellFormed
    <3> QED BY <3>2, <3>3 DEF InTheTag, InTheContent, InTheDocument
  <2>10. CASE c \in DOMAIN file /\ Mistake(file, inside, c)
    <3>1. c \in Nat /\ inside[c] \in 0 .. c - 1
      BY InsideBefore
    <3>2. file'[c] = file[c] /\ c \in DOMAIN file' /\ \A i \in 1 .. c - 1 : file'[i] = file[i]
      BY <2>5, <2>7, <2>10
    <3>3. Mistake(file', inside, c)
      BY <2>10, <3>1, <3>2, SameMistake
    <3> QED BY <2>5, <2>7, <2>11, <3>2, <3>3 DEF Departing
  <2> QED BY <2>8, <2>9, <2>10 DEF Departing
<1> QED BY <1>1, <1>2 DEF Parse, DocumentEnds, Element, Attribute, AttributeBeyond, EmptyTag, TagEnds, TagFails, EndTag,
      ContentEnds, Text, CData, Comment, Unknown, Declaration, Return, Fail

(* An error remains one.                                                   *)
LEMMA ErrorStays ==
    ASSUME Parse, error, error \in BOOLEAN
    PROVE  error'
BY DEF Parse, DocumentEnds, Element, Attribute, AttributeBeyond, EmptyTag, TagEnds, TagFails, EndTag, ContentEnds,
       Text, CData, Comment, BeyondTheEnd, Unknown, Declaration, Child, Return, Fail

(* The steps before place c.                                               *)
LEMMA ReadingLeaves ==
    ASSUME XmlInv, XmlInv', 1 \in DOMAIN nodes',
           NEW text \in Seq(Lexemes), NEW inside, WellFormed(text, inside),
           NEW c \in 1 .. Len(text) + 1, Departing(text, inside, c)',
           Reading(text, inside, c), Parse
    PROVE  error' \/ Reading(text, inside, c)' \/ Arrived(text, inside, c)'
<1>1. PICK at : IsAt(text, inside, at, pos) /\ pos < c
  BY DEF Reading
<1>2. /\ frames # <<>> /\ pos \in DOMAIN text /\ ~AtEnd /\ file[pos] = text[pos]
      /\ pos \in Nat /\ pos + 1 \in 1 .. c
  <2>1. frames # <<>> /\ pos \in DOMAIN text /\ ~AtEnd /\ file[pos] = text[pos] /\ pos \in Nat
    BY <1>1 DEF IsAt, CallTracks, AtEnd, XmlInv, XmlTypeOK
  <2>2. c \in Nat
    BY InsideBefore
  <2> QED BY <1>1, <2>1, <2>2
<1>3. CASE pos = Len(file) /\ text[pos].kind = "attribute"
  <2>1. Frame.at \in {"document", "tag", "content"}
    BY <1>2, TopFrame DEF Frames
  <2>2. Frame.at = "tag"
    <3>1. /\ Frame.at = "content" => text[pos].kind # "attribute"
          /\ Frame.at = "document" => text[pos].kind # "attribute"
      BY <1>1, WhatIsThere
    <3> QED BY <1>3, <2>1, <3>1
  <2>3. Fail
    BY <1>2, <1>3, <2>2 DEF Parse, DocumentEnds, Element, Attribute, AttributeBeyond, EmptyTag, TagEnds, TagFails,
       EndTag, ContentEnds, Text, CData, Comment, BeyondTheEnd, Unknown, Declaration, At, InContent
  <2> QED BY <2>3 DEF Fail
<1>4. CASE pos = Len(file) => text[pos].kind # "attribute"
  <2>1. PICK q : q = pos
    OBVIOUS
  <2>2. GoesOn(text, inside, q)
    BY <1>1, <1>4, <2>1, ParseTracks
  <2>3. PICK after : /\ TreeTracks(nodes', text, inside, after, q + 1)
                     /\ CallTracks(frames', text, inside, after, q + 1)
    BY <2>2 DEF GoesOn
  <2>4. pos' = SkipWhiteSpace(file', q + 1) /\ q + 1 \in 1 .. c
    BY <1>2, <2>1, <2>2 DEF GoesOn
  <2> QED BY <2>3, <2>4, SkipLeaves
<1> QED BY <1>3, <1>4

(* A tag in which the file ends is an error.                               *)
LEMMA LastTagLeaves ==
    ASSUME InLastTag, Parse
    PROVE  error'
BY DEF InLastTag, Parse, DocumentEnds, Element, Attribute, AttributeBeyond, EmptyTag, TagEnds, TagFails, EndTag,
       ContentEnds, Text, CData, Comment, BeyondTheEnd, Unknown, Declaration, At, InContent, Fail

(* So is NULL in the content.                                              *)
LEMMA ReturnedLeaves ==
    ASSUME XmlInv, NEW text, NEW inside, NEW c, Returned(text, inside, c), Parse
    PROVE  error' \/ (frames' = <<>> /\ Over(text, inside, c)')
<1>1. PICK at : HasRead(nodes, text, inside, c, at) /\ at[Frame.node] = inside[inside[c]]
  BY DEF Returned
<1>2. /\ frames # <<>> /\ Frame.at # "tag" /\ pos = 0 /\ AtEnd
      /\ Len(frames) \in Nat \ {0} /\ DOMAIN frames = 1 .. Len(frames) /\ Frame = frames[Len(frames)]
  <2>1. frames # <<>> /\ Frame.at # "tag" /\ pos = 0
    BY DEF Returned
  <2>2. 0 \notin DOMAIN file
    BY LenProperties DEF XmlInv, XmlTypeOK
  <2> QED BY <2>1, <2>2, TopFrame DEF AtEnd
<1>3. CASE Frame.at = "content"
  BY <1>2, <1>3 DEF Parse, DocumentEnds, Element, Attribute, AttributeBeyond, EmptyTag, TagEnds, TagFails, EndTag,
       ContentEnds, Text, CData, Comment, BeyondTheEnd, Unknown, Declaration, At
<1>4. CASE Frame.at = "document"
  <2>1. DocumentEnds
    BY <1>2, <1>4 DEF Parse, Element, Attribute, AttributeBeyond, EmptyTag, TagEnds, TagFails, EndTag,
       ContentEnds, Text, CData, Comment, BeyondTheEnd, Unknown, Declaration, At
  <2>2. Frame.node = 1
    <3>1. Len(frames) = 1
      BY <1>2, <1>4, TopFrame
    <3> QED BY <1>2, <3>1 DEF XmlInv, FramesInv
  <2>3. at[1] = 0
    BY <1>1 DEF HasRead, TreeTracks
  <2>4. nodes' = nodes /\ frames' = <<>>
    BY <2>1 DEF DocumentEnds
  <2>5. inside[inside[c]] = 0
    BY <1>1, <2>2, <2>3
  <2> QED BY <1>1, <2>4, <2>5 DEF Over
<1>5. Frame.at \in {"document", "tag", "content"}
  BY <1>2, TopFrame DEF Frames
<1> QED BY <1>2, <1>3, <1>4, <1>5

(* What may be there when the parser has come to place c.                  *)
Ahead(text, inside, c) ==
    /\ Frame.at = "document" <=> inside[c] = 0
    /\ ~AtEnd =>
         /\ pos >= c
         /\ Frame.at # "tag" /\ file[pos].kind = "open" => pos = Len(file)
         /\ Frame.at = "tag" =>
              /\ file[pos].kind \notin {"gt", "empty"}
              /\ file[pos].kind = "attribute" => file[pos].value \in Frame.attributes
         /\ Frame.at = "content" /\ file[pos].kind = "close" =>
              file[pos].value # nodes[Frame.node].value
         /\ Mistake(file, inside, c) => file[pos].kind # "attributecut"
         /\ Frame.at # "tag" /\ Mistake(file, inside, c) =>
              \/ Frame.at = "content" /\ file[pos].kind \in {"close", "closeother"}
              \/ Frame.at = "document" /\ file[pos].kind = "text"

(* And this is all that may be there.                                      *)
LEMMA ComesAhead ==
    ASSUME XmlInv, frames # <<>>, NEW text \in Seq(Lexemes), NEW inside, WellFormed(text, inside),
           NEW c \in 1 .. Len(text) + 1, Departing(text, inside, c), Arrived(text, inside, c)
    PROVE  Ahead(text, inside, c)
<1>1. PICK at : HasRead(nodes, text, inside, c, at) /\ TopTracks(nodes, frames, text, inside, c, at)
  BY DEF Arrived, Stands
<1>2. /\ Frame = Last(frames) /\ Frame = frames[Len(frames)] /\ at[Frame.node] = inside[c]
      /\ Frame.at = "tag" <=> InTag(text, inside, c)
      /\ Frame.at = "tag" => AttributesTo(text, inside, c) \subseteq Frame.attributes
      /\ inside[c] # 0 => nodes[Frame.node].value = text[inside[c]].value
  BY <1>1, TopFrame DEF TopTracks, Frame
<1>3. Frame.at = "document" <=> inside[c] = 0
  <2>1. /\ Frame.node \in DOMAIN nodes /\ DOMAIN nodes = 1 .. Len(nodes) /\ Len(nodes) \in Nat \ {0}
        /\ Frame.at = "document" => Len(frames) = 1
        /\ Frame.at # "document" => Len(frames) > 1
        /\ DOMAIN frames = 1 .. Len(frames) /\ Len(frames) \in Nat
    BY TopFrame
  <2>2. frames[1].node = 1 /\ (Frame.at # "document" => frames[1].node < Frame.node)
    BY <1>2, <2>1 DEF XmlInv, FramesInv
  <2>3. PICK v : TreeTracks(nodes, v, Until(inside, c), at, Len(v) + 1)
    BY <1>1 DEF HasRead
  <2>4. at[1] = 0 /\ \A m, n \in DOMAIN nodes : m < n => at[m] < at[n]
    BY <2>3 DEF TreeTracks
  <2>5. ASSUME Frame.at # "document" PROVE at[Frame.node] # 0
    <3>1. 1 \in DOMAIN nodes /\ 1 < Frame.node
      BY <2>1, <2>2, <2>5
    <3>2. at[1] < at[Frame.node]
      BY <2>1, <2>4, <3>1
    <3> QED BY <2>4, <3>2
  <2>6. ASSUME Frame.at = "document" PROVE at[Frame.node] = 0
    BY <1>2, <2>1, <2>2, <2>4, <2>6
  <2> QED BY <1>2, <2>5, <2>6
<1>4. c \in Nat /\ c # 0 /\ inside[c] \in 0 .. c - 1 /\ DOMAIN file = 1 .. Len(file) /\ Len(file) \in Nat
  BY InsideBefore, LenProperties DEF XmlInv, XmlTypeOK
<1>5. \A i \in 1 .. c - 1 : file[i] = text[i]
  BY DEF Departing
<1>6. ASSUME ~AtEnd PROVE pos \in DOMAIN file /\ pos >= c /\ pos \in Nat
  BY <1>4, <1>6 DEF AtEnd, Arrived
<1>10. ASSUME ~AtEnd, Mistake(file, inside, c) PROVE file[pos].kind # "attributecut"
  <2>1. c \in DOMAIN file
    BY <1>4, <1>6, <1>10
  <2>2. pos = c
    BY <1>10, <2>1 DEF Arrived
  <2> QED BY <1>10, <2>2 DEF Mistake
<1>7. CASE \A i \in DOMAIN file :
             i >= c => Idle(file[i]) \/ (inside[c] = 0 /\ file[i].kind = "close")
  <2>1. ASSUME ~AtEnd PROVE /\ file[pos].kind \notin {"open", "attribute", "gt", "empty"}
                            /\ file[pos].kind = "close" => inside[c] = 0
    BY <1>6, <1>7, <2>1 DEF Idle
  <2>2. ASSUME ~AtEnd, Mistake(file, inside, c), Frame.at # "tag"
        PROVE  \/ Frame.at = "content" /\ file[pos].kind = "closeother"
               \/ Frame.at = "document" /\ file[pos].kind = "text"
    <3>1. c \in DOMAIN file
      BY <1>4, <1>6, <2>2
    <3>2. pos = c
      BY <2>2, <3>1 DEF Arrived
    <3>3. ~InTag(file, inside, c)
      BY <1>2, <1>4, <1>5, <2>2, SameMistake
    <3>4. Frame.at \in {"document", "tag", "content"}
      BY TopFrame DEF Frames
    <3> QED BY <1>3, <2>1, <2>2, <3>2, <3>3, <3>4 DEF Mistake
  <2>3. InTag(text, inside, c) => inside[c] # 0
    BY DEF InTag
  <2> QED BY <1>2, <1>3, <1>6, <1>10, <2>1, <2>2, <2>3 DEF Ahead
<1>8. CASE Len(file) = c /\ file[c].kind = "open"
  <2>1. ASSUME ~AtEnd PROVE pos = c
    BY <1>4, <1>6, <1>8, <2>1
  <2>2. ASSUME ~AtEnd, Mistake(file, inside, c) PROVE Frame.at = "tag"
    <3>1. InTag(file, inside, c)
      BY <1>8, <2>2 DEF Mistake
    <3> QED BY <1>2, <1>4, <1>5, <3>1, SameMistake
  <2> QED BY <1>3, <1>6, <1>8, <1>10, <2>1, <2>2 DEF Ahead
<1>9. CASE c \in DOMAIN file /\ Mistake(file, inside, c)
  <2>1. pos = c
    BY <1>9 DEF Arrived
  <2>2. InTag(file, inside, c) <=> InTag(text, inside, c)
    BY <1>4, <1>5, SameMistake
  <2>3. CASE Frame.at = "tag"
    <3>1. InTag(file, inside, c)
      BY <1>2, <2>2, <2>3
    <3>2. \/ file[c].kind \notin {"space", "attribute", "attributecut", "gt", "empty"}
          \/ /\ file[c].kind = "attribute"
             /\ \E j \in inside[c] + 1 .. c - 1 : file[j] = file[c]
      BY <1>9, <3>1 DEF Mistake, InTag
    <3>3. ASSUME file[c].kind = "attribute" PROVE file[c].value \in Frame.attributes
      <4>1. PICK j \in inside[c] + 1 .. c - 1 : file[j] = file[c]
        BY <3>2, <3>3
      <4>2. j \in 1 .. c - 1
        BY <1>4
      <4>3. text[j] = file[c]
        BY <1>5, <4>1, <4>2
      <4>4. file[c].value \in AttributesTo(text, inside, c)
        BY <3>3, <4>3 DEF AttributesTo
      <4> QED BY <1>2, <2>3, <4>4
    <3> QED BY <1>3, <1>6, <1>10, <2>1, <2>3, <3>2, <3>3 DEF Ahead
  <2>4. CASE Frame.at # "tag"
    <3>1. ~InTag(file, inside, c)
      BY <1>2, <2>2, <2>4
    <3>2. \/ /\ inside[c] # 0
             /\ \/ file[c].kind = "close" /\ file[c].value # file[inside[c]].value
                \/ file[c].kind = "closeother"
          \/ inside[c] = 0 /\ file[c].kind = "text"
      BY <1>9, <3>1 DEF Mistake
    <3>3. inside[c] # 0 => file[inside[c]] = text[inside[c]]
      BY <1>4, <1>5
    <3>4. Frame.at \in {"document", "tag", "content"}
      BY TopFrame DEF Frames
    <3> QED BY <1>2, <1>3, <1>6, <1>10, <2>1, <2>4, <3>2, <3>3, <3>4 DEF Ahead
  <2> QED BY <2>3, <2>4
<1> QED BY <1>7, <1>8, <1>9 DEF Departing

(* A node without children is what some lexeme would have made.            *)
LEMMA StandsGrows ==
    ASSUME NEW text, NEW inside, NEW c \in Nat \ {0}, NEW tree, NEW after, NEW calls, NEW n,
           DOMAIN calls = 1 .. Len(calls), Len(calls) \in Nat \ {0},
           \A i \in DOMAIN calls : calls[i].node \in DOMAIN tree,
           Stands(tree, calls, text, inside, c), GrowsBy(tree, after, n),
           NEW lexeme \in Lexemes, lexeme.kind # "open", Makes(lexeme), MadeFrom(after[n], lexeme),
           after[n].parent = Last(calls).node
    PROVE  Stands(after, calls, text, inside, c)
<1>1. PICK at, v : /\ Continues(v, text, c)
                   /\ TreeTracks(tree, v, Until(inside, c), at, Len(v) + 1)
                   /\ TopTracks(tree, calls, text, inside, c, at)
  BY DEF Stands, HasRead
<1> DEFINE q == Len(v) + 1
           w == Append(v, lexeme)
           longer == Longer(at, after, n, q)
<1>2. v \in Seq(Lexemes) /\ Len(v) \in Nat /\ q \in Nat /\ q >= c
  <2>1. v \in Seq(Lexemes) /\ Len(v) + 1 >= c
    BY <1>1 DEF Continues
  <2> QED BY <2>1, LenProperties
<1>3. w \in Seq(Lexemes) /\ Len(w) = q /\ w[q] = lexeme /\ \A i \in 1 .. q - 1 : w[i] = v[i]
  <2>1. \A i \in 1 .. q - 1 : i \in 1 .. Len(v)
    BY <1>2
  <2> QED BY <1>2, <2>1, AppendProperties
<1>4. Continues(w, text, c)
  <2>1. Len(w) + 1 >= c
    BY <1>2, <1>3
  <2>2. \A i \in 1 .. c - 1 : w[i] = text[i]
    <3>1. \A i \in 1 .. c - 1 : i \in 1 .. q - 1
      BY <1>2
    <3> QED BY <1>1, <1>3, <3>1 DEF Continues
  <2>3. \A i \in c .. Len(w) : w[i].kind # "open"
    <3>1. \A i \in c .. Len(w) : i = q \/ (i \in 1 .. q - 1 /\ i \in c .. Len(v))
      BY <1>2, <1>3
    <3>2. \A i \in c .. Len(v) : v[i].kind # "open"
      BY <1>1 DEF Continues
    <3> QED BY <1>3, <3>1, <3>2
  <2> QED BY <1>3, <2>1, <2>2, <2>3 DEF Continues
<1>5. Len(calls) \in DOMAIN calls /\ Last(calls) = calls[Len(calls)] /\ Last(calls).node \in DOMAIN tree
      /\ DOMAIN tree \subseteq Nat \ {0} /\ 1 \in DOMAIN tree /\ n \notin DOMAIN tree
  BY DEF Last, GrowsBy
<1> HIDE DEF q, w
<1>6. TreeTracks(tree, w, Until(inside, c), at, q)
  <2>1. \A i \in 1 .. q - 1 : w[i] = v[i] /\ Until(inside, c)[i] = Until(inside, c)[i]
    BY <1>3
  <2>2. TreeTracks(tree, v, Until(inside, c), at, q)
    BY <1>1 DEF q
  <2> QED BY <1>2, <1>5, <2>1, <2>2, SameTree
<1>7. at[Last(calls).node] = Until(inside, c)[q]
  BY <1>1, <1>2 DEF TopTracks, Until
<1>8. TreeTracks(after, w, Until(inside, c), longer, q + 1)
  BY <1>2, <1>3, <1>5, <1>6, <1>7, TreeGrows
<1>9. HasRead(after, text, inside, c, longer)
  <2>1. Len(w) + 1 = q + 1
    BY <1>3
  <2> QED BY <1>4, <1>8, <2>1 DEF HasRead
<1>10. longer[Last(calls).node] = at[Last(calls).node]
  BY <1>5 DEF GrowsBy, Longer
<1>11. after[Last(calls).node].value = tree[Last(calls).node].value
  BY <1>5 DEF GrowsBy, Preserved
<1> HIDE DEF longer
<1>12. TopTracks(after, calls, text, inside, c, longer)
  BY <1>1, <1>10, <1>11 DEF TopTracks
<1> QED BY <1>9, <1>12 DEF Stands

(* It is linked, and the parser goes on behind it or with NULL.            *)
LEMMA ChildArrives ==
    ASSUME XmlInv, frames # <<>>, NEW text \in Seq(Lexemes), NEW inside, NEW c \in Nat \ {0},
           Stands(nodes, frames, text, inside, c),
           NEW type \in {"TEXT", "COMMENT", "UNKNOWN", "DECLARATION"},
           NEW value \in Names \cup Texts \cup {Blank}, type = "TEXT" => value \in Texts,
           NEW behind \in Seq(Lexemes), NEW p \in Nat, p = 0 \/ p > c,
           file' \in Seq(Lexemes), Child(type, value, behind, p),
           ~(c \in DOMAIN file' /\ Mistake(file', inside, c))
    PROVE  Arrived(text, inside, c)'
<1> DEFINE n == Len(nodes) + 1
           lexeme == IF type = "TEXT" THEN [kind |-> "cdata", value |-> value]
                     ELSE [kind |-> IF type = "COMMENT" THEN "comment"
                                    ELSE IF type = "UNKNOWN" THEN "unknown" ELSE "declaration",
                           value |-> Blank]
<1>1. Grown(type, value)
  BY ChildKeeps DEF NodeTypes
<1>2. /\ Len(nodes) \in Nat \ {0} /\ DOMAIN nodes = 1 .. Len(nodes)
      /\ Len(frames) \in Nat \ {0} /\ DOMAIN frames = 1 .. Len(frames)
      /\ \A i \in DOMAIN frames : frames[i].node \in DOMAIN nodes
  BY TopFrame
<1>3. GrowsBy(nodes, nodes', n) /\ nodes'[n].parent = Last(frames).node
  BY <1>1, <1>2 DEF Grown, GrowsBy, Frame
<1>4. /\ lexeme \in Lexemes /\ lexeme.kind # "open" /\ Makes(lexeme)
      /\ MadeFrom(nodes'[n], lexeme)
  <2>1. CASE type = "TEXT"
    <3>1. lexeme = [kind |-> "cdata", value |-> value]
      BY <2>1
    <3>2. lexeme.kind = "cdata" /\ lexeme.value = value /\ lexeme \in Lexemes
      BY <2>1, <3>1 DEF Lexemes, Verbatim
    <3> HIDE DEF lexeme
    <3> QED BY <1>1, <2>1, <3>2 DEF Makes, MadeFrom, TypeOf, Grown
  <2>2. CASE type # "TEXT"
    <3>1. /\ lexeme.kind \in {"comment", "unknown", "declaration"} /\ lexeme.value = Blank
          /\ lexeme \in Lexemes
      BY <2>2 DEF Lexemes, Others
    <3>2. TypeOf(lexeme) = type
      <4>1. CASE type = "COMMENT"
        BY <4>1 DEF TypeOf
      <4>2. CASE type = "UNKNOWN"
        BY <4>2 DEF TypeOf
      <4>3. CASE type = "DECLARATION"
        BY <4>3 DEF TypeOf
      <4> QED BY <2>2, <4>1, <4>2, <4>3
    <3> HIDE DEF lexeme
    <3> QED BY <1>1, <2>2, <3>1, <3>2 DEF Makes, MadeFrom, Grown
  <2> QED BY <2>1, <2>2
<1> HIDE DEF n, lexeme
<1>5. Stands(nodes', frames, text, inside, c)
  BY <1>2, <1>3, <1>4, StandsGrows
<1>6. pos' \notin 1 .. c - 1 /\ frames' = frames
  <2>1. DOMAIN behind = 1 .. Len(behind) /\ Len(behind) \in Nat
    BY LenProperties
  <2>2. pos' = SkipWhiteSpace(behind, p) /\ frames' = frames
    BY DEF Child
  <2>3. p = 0 => pos' = 0
    BY <2>1, <2>2 DEF SkipWhiteSpace
  <2>4. pos' \in {0, p, p + 1}
    BY <2>2 DEF SkipWhiteSpace
  <2> QED BY <2>2, <2>3, <2>4
<1> QED BY <1>5, <1>6 DEF Arrived

(* The call on top returns NULL.                                           *)
LEMMA ReturnsNull ==
    ASSUME XmlInv, frames # <<>>, NEW text, NEW inside, NEW c \in Nat, inside[c] \in 0 .. c - 1,
           Stands(nodes, frames, text, inside, c), Frame.at # "document", Return(0), error' \in BOOLEAN
    PROVE  frames' # <<>> /\ Returned(text, inside, c)'
<1> DEFINE k == Len(frames)
           n == Frame.node
<1>1. PICK at, v : /\ Continues(v, text, c)
                   /\ TreeTracks(nodes, v, Until(inside, c), at, Len(v) + 1)
                   /\ TopTracks(nodes, frames, text, inside, c, at)
  BY DEF Stands, HasRead
<1>2. /\ k \in Nat /\ k > 1 /\ DOMAIN frames = 1 .. k /\ Frame = frames[k]
      /\ n \in DOMAIN nodes /\ DOMAIN nodes = 1 .. Len(nodes) /\ Len(nodes) \in Nat
  BY TopFrame
<1>3. nodes[n].parent = frames[k - 1].node /\ n # 1
  <2>1. frames[1].node = 1 /\ frames[1].node < n
    BY <1>2 DEF XmlInv, FramesInv
  <2>2. nodes[n].parent = frames[k - 1].node
    BY <1>2 DEF XmlInv, FramesInv
  <2> QED BY <2>1, <2>2
<1>4. Preserved(nodes, nodes') /\ DOMAIN nodes' = DOMAIN nodes /\ Popped
  BY ReturnKeeps
<1>5. /\ Len(frames') = k - 1 /\ DOMAIN frames' = 1 .. k - 1 /\ k - 1 \in DOMAIN frames'
      /\ k - 1 \in DOMAIN frames /\ k - 1 # k /\ frames'[k - 1] = frames[k - 1]
  <2>1. k - 1 \in 1 .. k - 1 /\ k - 1 \in 1 .. k /\ k - 1 # k
    <3>1. k \in Nat /\ k > 1
      BY <1>2
    <3> HIDE DEF k
    <3> QED BY ONLY <3>1
  <2>2. /\ Len(frames') = k - 1 /\ DOMAIN frames' = 1 .. k - 1
        /\ \A i \in DOMAIN frames' : frames'[i] = frames[i]
    BY <1>4 DEF Popped
  <2> HIDE DEF k
  <2> QED BY <1>2, <2>1, <2>2
<1>6. frames' # <<>> /\ Frame' = frames[k - 1]
  BY <1>5 DEF Last, Frame
<1>7. frames[k - 1].at # "tag"
  BY <1>1, <1>5 DEF TopTracks
<1>8. at[frames[k - 1].node] = inside[inside[c]]
  <2>1. at[n] = inside[c]
    BY <1>1 DEF TopTracks, Frame
  <2>2. at[nodes[n].parent] = Until(inside, c)[at[n]]
    BY <1>1, <1>2, <1>3 DEF TreeTracks
  <2>3. inside[c] \in Nat /\ inside[c] < c
    OBVIOUS
  <2> QED BY <1>3, <2>1, <2>2, <2>3 DEF Until
<1>9. HasRead(nodes', text, inside, c, at)
  <2>1. \A m \in DOMAIN nodes \ {1} :
          MadeFrom(nodes[m], v[at[m]]) => MadeFrom(nodes'[m], v[at[m]])
    BY <1>4 DEF Preserved, MadeFrom
  <2>2. TreeTracks(nodes', v, Until(inside, c), at, Len(v) + 1)
    BY <1>1, <1>4, <2>1 DEF TreeTracks, Preserved
  <2> QED BY <1>1, <2>2 DEF HasRead
<1>10. pos' = 0
  <2>1. 0 \notin DOMAIN file
    BY LenProperties DEF XmlInv, XmlTypeOK
  <2> QED BY <2>1 DEF Return, SkipWhiteSpace
<1> QED BY <1>6, <1>7, <1>8, <1>9, <1>10 DEF Returned

(* What is behind the file in memory changes nothing of what is in it.     *)
LEMMA StillNoMistake ==
    ASSUME NEW inside, NEW c \in Nat \ {0}, inside[c] \in 0 .. c - 1,
           file \in Seq(Lexemes), NEW rest \in Seq(Lexemes), file' = file \o rest,
           c \in DOMAIN file, ~Mistake(file, inside, c)
    PROVE  ~Mistake(file', inside, c)
<1>1. DOMAIN file = 1 .. Len(file) /\ Len(file) \in Nat /\ Len(rest) \in Nat
  BY LenProperties
<1>2. \A i \in 1 .. Len(file) + Len(rest) : file'[i] = IF i <= Len(file) THEN file[i] ELSE rest[i - Len(file)]
  BY ConcatProperties
<1>3. \A i \in 1 .. c : i \in 1 .. Len(file) + Len(rest) /\ i <= Len(file)
  BY <1>1
<1>4. /\ \A i \in 1 .. c - 1 : file'[i] = file[i]
      /\ file'[c] = file[c]
  BY <1>2, <1>3
<1> QED BY <1>4, SameMistake

(* An attribute that is cut belongs to the same tag.                       *)
LEMMA AttributeLeaves ==
    ASSUME XmlInv, frames # <<>>, NEW text \in Seq(Lexemes), NEW inside,
           NEW c \in Nat \ {0}, inside[c] \in 0 .. c - 1,
           Arrived(text, inside, c), Ahead(text, inside, c), AttributeBeyond
    PROVE  \/ Fail
           \/ Return(0)
           \/ frames' # <<>> /\ Arrived(text, inside, c)'
<1> DEFINE k == Len(frames)
           f == [Frame EXCEPT !.attributes = Frame.attributes \cup {file[pos].value}]
<1>1. /\ ~AtEnd /\ Frame.at = "tag" /\ pos \in DOMAIN file /\ pos \in Nat /\ pos >= c
      /\ file \in Seq(Lexemes) /\ DOMAIN file = 1 .. Len(file) /\ Len(file) \in Nat
      /\ c \in DOMAIN file /\ ~Mistake(file, inside, c)
  <2>1. ~AtEnd /\ Frame.at = "tag" /\ file[pos].kind = "attributecut"
    BY DEF AttributeBeyond, At
  <2>2. file \in Seq(Lexemes)
    BY DEF XmlInv, XmlTypeOK
  <2>3. pos >= c /\ ~Mistake(file, inside, c)
    BY <2>1 DEF Ahead
  <2>4. pos \in DOMAIN file /\ DOMAIN file = 1 .. Len(file) /\ Len(file) \in Nat
    BY <2>1, <2>2, LenProperties DEF AtEnd
  <2> QED BY <2>1, <2>2, <2>3, <2>4
<1>2. /\ k \in Nat \ {0} /\ DOMAIN frames = 1 .. k /\ Frame = frames[k] /\ Frame \in Frames
  BY TopFrame
<1>3. ASSUME NEW rest \in MemoryInTag, file' = file \o rest,
             frames' = [frames EXCEPT ![k].attributes = @ \cup {file[pos].value}],
             pos' = SkipWhiteSpace(file', pos + 1), nodes' = nodes
      PROVE  frames' # <<>> /\ Arrived(text, inside, c)'
  <2>1. /\ f.node = Frame.node /\ f.at = Frame.at /\ Frame.attributes \subseteq f.attributes
    BY <1>2 DEF Frames
  <2>2. frames' = [frames EXCEPT ![k] = f]
    BY <1>2, <1>3
  <2> HIDE DEF f, k
  <2>3. DOMAIN frames' = DOMAIN frames /\ frames'[k] = f /\ \A i \in DOMAIN frames : i # k => frames'[i] = frames[i]
    BY <1>2, <2>2
  <2>4. frames \in Seq(Frames) /\ Len(frames') = k
    <3>1. frames \in Seq(Frames)
      BY DEF XmlInv, XmlTypeOK
    <3> QED BY <2>2, <3>1, ExceptSeq DEF k
  <2>5. Last(frames') = f /\ Last(frames) = Frame /\ frames' # <<>>
    <3>1. frames' # <<>>
      BY <1>2, <2>3
    <3> QED BY <2>3, <2>4, <3>1 DEF Last, Frame
  <2>6. PICK at : HasRead(nodes, text, inside, c, at) /\ TopTracks(nodes, frames, text, inside, c, at)
    BY DEF Arrived, Stands
  <2>7. TopTracks(nodes', frames', text, inside, c, at)
    BY <1>3, <2>1, <2>3, <2>4, <2>5, <2>6 DEF TopTracks, k
  <2>8. Stands(nodes', frames', text, inside, c)
    BY <1>3, <2>6, <2>7 DEF Stands
  <2>9. pos' \notin 1 .. c - 1
    <3>1. pos' \in {0, pos + 1, pos + 2}
      BY <1>1, <1>3 DEF SkipWhiteSpace
    <3> QED BY <1>1, <3>1
  <2>10. ~Mistake(file', inside, c)
    BY <1>1, <1>3, MemoryAssumption, StillNoMistake
  <2> QED BY <2>5, <2>8, <2>9, <2>10 DEF Arrived
<1> QED BY <1>3 DEF AttributeBeyond

(* The steps of the nodes without children.                                *)
LEMMA ChildLeaves ==
    ASSUME XmlInv, frames # <<>>, NEW text \in Seq(Lexemes), NEW inside,
           NEW c \in Nat \ {0}, inside[c] \in 0 .. c - 1,
           Arrived(text, inside, c), Ahead(text, inside, c), file' \in Seq(Lexemes),
           Text \/ CData \/ Comment \/ BeyondTheEnd \/ Unknown \/ Declaration
    PROVE  frames' # <<>> /\ Arrived(text, inside, c)'
<1>1. /\ ~AtEnd /\ Frame.at # "tag" /\ pos \in DOMAIN file /\ pos \in Nat /\ pos >= c
      /\ file \in Seq(Lexemes) /\ DOMAIN file = 1 .. Len(file) /\ Len(file) \in Nat
      /\ frames' = frames
  <2>1. ~AtEnd /\ Frame.at # "tag" /\ frames' = frames
    BY DEF Text, CData, Comment, BeyondTheEnd, Unknown, Declaration, At, InContent, Child
  <2>2. file \in Seq(Lexemes)
    BY DEF XmlInv, XmlTypeOK
  <2>3. pos >= c
    BY <2>1 DEF Ahead
  <2> QED BY <2>1, <2>2, <2>3, LenProperties DEF AtEnd
<1>2. /\ file[pos].value \in Names \cup Texts \cup {Blank}
      /\ file[pos].kind \in Verbatim => file[pos].value \in Texts
      /\ file[pos].kind = "text" => file[pos].value \in Texts \cup {Blank}
  BY <1>1, LexemeValue
<1>3. ~Mistake(file, inside, c)
  <2>1. ASSUME Mistake(file, inside, c) PROVE FALSE
    <3>1. \/ Frame.at = "content" /\ file[pos].kind \in {"close", "closeother"}
          \/ Frame.at = "document" /\ file[pos].kind = "text"
      BY <1>1, <2>1 DEF Ahead
    <3> QED BY <3>1 DEF Text, CData, Comment, BeyondTheEnd, Unknown, Declaration, At
  <2> QED BY <2>1
<1>4. ~Mistake(file', inside, c)
  <2>1. CASE file' = file
    BY <1>3, <2>1
  <2>2. CASE BeyondTheEnd
    <3>1. PICK rest \in Memory : file' = file \o rest
      BY <2>2 DEF BeyondTheEnd
    <3>2. c \in DOMAIN file /\ rest \in Seq(Lexemes)
      BY <1>1, MemoryAssumption
    <3> QED BY <1>1, <1>3, <3>1, <3>2, StillNoMistake
  <2> QED BY <2>1, <2>2 DEF Text, CData, Comment, Unknown, Declaration
<1>5. ASSUME NEW type \in {"TEXT", "COMMENT", "UNKNOWN", "DECLARATION"},
             NEW value \in Names \cup Texts \cup {Blank}, type = "TEXT" => value \in Texts,
             NEW behind \in Seq(Lexemes), NEW p \in {0, pos + 1}, Child(type, value, behind, p)
      PROVE  frames' # <<>> /\ Arrived(text, inside, c)'
  <2>1. p \in Nat /\ (p = 0 \/ p > c)
    BY <1>1, <1>5
  <2>2. Stands(nodes, frames, text, inside, c)
    BY DEF Arrived
  <2> QED BY <1>1, <1>4, <1>5, <2>1, <2>2, ChildArrives
<1>6. CASE Text
  <2>1. CASE file[pos].value # Blank
    <3>1. Child("TEXT", file[pos].value, file, pos + 1) /\ file[pos].value \in Texts
      BY <1>2, <1>6, <2>1 DEF Text, At
    <3> QED BY <1>1, <1>2, <1>5, <3>1
  <2>2. CASE file[pos].value = Blank
    <3>1. pos' = SkipWhiteSpace(file, pos + 1) /\ frames' = frames /\ nodes' = nodes
      BY <1>6, <2>2 DEF Text
    <3>2. pos' \in {0, pos + 1, pos + 2}
      BY <1>1, <3>1 DEF SkipWhiteSpace
    <3>3. pos' \notin 1 .. c - 1
      BY <1>1, <3>2
    <3> QED BY <1>1, <1>4, <3>1, <3>3 DEF Arrived
  <2> QED BY <2>1, <2>2
<1>7. CASE CData
  <2>1. Child("TEXT", file[pos].value, file, pos + 1) /\ file[pos].value \in Texts
    BY <1>2, <1>7 DEF CData, At, Verbatim
  <2> QED BY <1>1, <1>2, <1>5, <2>1
<1>8. CASE Comment
  BY <1>1, <1>5, <1>8 DEF Comment
<1>9. CASE BeyondTheEnd
  <2>1. CASE file[pos].kind = "commentcut"
    BY <1>1, <1>2, <1>5, <1>9, <2>1 DEF BeyondTheEnd
  <2>2. CASE file[pos].kind # "commentcut"
    <3>1. Child("TEXT", file[pos].value, file', pos + 1) /\ file[pos].value \in Texts
      BY <1>2, <1>9, <2>2 DEF BeyondTheEnd, At, Verbatim
    <3> QED BY <1>1, <1>2, <1>5, <3>1
  <2> QED BY <2>1, <2>2
<1>10. CASE Unknown
  BY <1>1, <1>5, <1>10 DEF Unknown
<1>11. CASE Declaration
  BY <1>1, <1>5, <1>11 DEF Declaration
<1> QED BY <1>6, <1>7, <1>8, <1>9, <1>10, <1>11

(* Whatever the parser does there, no element is added.                    *)
LEMMA ArrivedLeaves ==
    ASSUME XmlInv, XmlInv', frames # <<>>, error = FALSE,
           NEW text \in Seq(Lexemes), NEW inside, WellFormed(text, inside),
           NEW c \in 1 .. Len(text) + 1, Departing(text, inside, c), Arrived(text, inside, c), Parse
    PROVE  error' \/ Departed(text, inside, c)'
<1>1. Ahead(text, inside, c) /\ c \in Nat \ {0} /\ inside[c] \in 0 .. c - 1
  BY ComesAhead, InsideBefore
<1>2. Stands(nodes, frames, text, inside, c) /\ error' \in BOOLEAN /\ file' \in Seq(Lexemes)
      /\ DOMAIN file = 1 .. Len(file) /\ Len(file) \in Nat /\ pos \in Nat
      /\ 0 \notin DOMAIN file /\ 0 \notin DOMAIN file'
  <2>1. file \in Seq(Lexemes) /\ file' \in Seq(Lexemes) /\ error' \in BOOLEAN /\ pos \in Nat
    BY DEF XmlInv, XmlTypeOK
  <2> QED BY <2>1, LenProperties DEF Arrived
<1>3. ASSUME Return(0), Frame.at # "document" PROVE Departed(text, inside, c)'
  BY <1>1, <1>2, <1>3, ReturnsNull DEF Departed
<1>4. CASE Text \/ CData \/ Comment \/ BeyondTheEnd \/ Unknown \/ Declaration
  BY <1>1, <1>2, <1>4, ChildLeaves DEF Departed
<1>5. CASE DocumentEnds
  <2>1. inside[c] = 0 /\ frames' = <<>> /\ nodes' = nodes
    BY <1>1, <1>5 DEF Ahead, DocumentEnds
  <2>2. \E at : HasRead(nodes, text, inside, c, at)
    BY <1>2 DEF Stands
  <2> QED BY <2>1, <2>2 DEF Departed, Over
<1>6. CASE Element
  <2>1. ~AtEnd /\ Frame.at # "tag" /\ file[pos].kind = "open"
    BY <1>6 DEF Element, At, InContent
  <2>2. pos = Len(file)
    BY <1>1, <2>1 DEF Ahead
  <2>3. pos' = 0
    BY <1>2, <1>6, <2>2 DEF Element, SkipWhiteSpace
  <2>4. Pushed([node |-> Len(nodes) + 1, at |-> "tag", attributes |-> {}])
    BY <1>6, ElementKeeps
  <2>5. Len(frames) \in Nat
    BY TopFrame
  <2>6. Len(frames) + 1 \in DOMAIN frames' /\ Len(frames') = Len(frames) + 1
        /\ frames'[Len(frames) + 1].at = "tag"
    BY <2>4, <2>5 DEF Pushed
  <2>7. frames' # <<>> /\ Frame'.at = "tag"
    BY <2>6 DEF Frame, Last
  <2> QED BY <1>2, <2>3, <2>7 DEF Departed, InLastTag, AtEnd
<1>7. CASE Attribute
  <2>1. ~AtEnd /\ Frame.at = "tag" /\ file[pos].kind = "attribute"
    BY <1>7 DEF Attribute, At
  <2>2. file[pos].value \in Frame.attributes
    BY <1>1, <2>1 DEF Ahead
  <2>3. Fail \/ Return(0)
    BY <1>7, <2>2 DEF Attribute
  <2> QED BY <1>3, <2>1, <2>3 DEF Fail
<1>12. CASE AttributeBeyond
  <2>1. Frame.at # "document"
    BY <1>12 DEF AttributeBeyond, At
  <2>2. CASE Fail
    BY <2>2 DEF Fail
  <2>3. CASE Return(0)
    BY <1>3, <2>1, <2>3
  <2>4. CASE frames' # <<>> /\ Arrived(text, inside, c)'
    BY <2>4 DEF Departed
  <2> QED BY <1>1, <1>12, <2>2, <2>3, <2>4, AttributeLeaves
<1>8. CASE EmptyTag \/ TagEnds
  BY <1>1, <1>8 DEF EmptyTag, TagEnds, At, Ahead
<1>9. CASE TagFails
  BY <1>9 DEF TagFails, Fail
<1>10. CASE EndTag
  <2>1. Frame.at = "content" /\ ~AtEnd
    BY <1>10 DEF EndTag, At
  <2>2. file[pos].kind = "close" => file[pos].value # nodes[Frame.node].value
    BY <1>1, <2>1 DEF Ahead
  <2> QED BY <1>10, <2>2 DEF EndTag, Fail
<1>11. CASE ContentEnds
  BY <1>3, <1>11 DEF ContentEnds
<1> QED BY <1>4, <1>5, <1>6, <1>7, <1>8, <1>9, <1>10, <1>11, <1>12 DEF Parse

(* LoadFile begins to read a text that departs from another one.           *)
LEMMA LoadLeaves ==
    ASSUME NEW text \in Seq(Lexemes), WellFormed(text, Inside(text)),
           NEW n, NEW part \in Seq(Lexemes), Departs(part, text, n), Overruns(part) => IdleMemory,
           LoadFile(part), XmlInv'
    PROVE  Leaving(text, Inside(text), n + 1)'
<1>1. /\ Len(text) \in Nat /\ Len(part) \in Nat /\ DOMAIN part = 1 .. Len(part)
      /\ n \in 0 .. Len(text) /\ n <= Len(part) /\ file' = part
      /\ n + 1 \in 1 .. Len(text) + 1 /\ 1 \in 1 .. n + 1 /\ (n + 1) - 1 = n
  <2>1. Len(text) \in Nat /\ Len(part) \in Nat /\ DOMAIN part = 1 .. Len(part)
    BY LenProperties
  <2>2. n \in 0 .. Len(text) /\ n <= Len(part) /\ file' = part
    BY DEF Departs, LoadFile
  <2> QED BY <2>1, <2>2
<1>2. PICK inside : inside = Inside(text)
  OBVIOUS
<1>3. /\ \A i \in 1 .. n : part[i] = text[i]
      /\ \/ \A i \in n + 1 .. Len(part) : Idle(part[i]) \/ (inside[n + 1] = 0 /\ part[i].kind = "close")
         \/ Len(part) = n + 1 /\ part[n + 1].kind = "open"
         \/ n < Len(part) /\ Mistake(part, inside, n + 1)
  BY <1>2 DEF Departs
<1>4. Departing(text, inside, n + 1)'
  <2>1. \A i \in 1 .. n : i \in DOMAIN part
    BY <1>1
  <2>2. \A i \in DOMAIN part : i >= n + 1 => i \in n + 1 .. Len(part)
    BY <1>1
  <2>3. n < Len(part) => n + 1 \in DOMAIN part
    BY <1>1
  <2> QED BY <1>1, <1>3, <2>1, <2>2, <2>3 DEF Departing
<1>5. PICK at : /\ TreeTracks(nodes', text, inside, at, 1)
                /\ part # <<>> => CallTracks(frames', text, inside, at, 1)
  BY <1>2, LoadBegins
<1>6. CASE part = <<>>
  BY <1>2, <1>4, <1>6 DEF LoadFile, Leaving
<1>7. CASE part # <<>>
  <2>1. frames' # <<>> /\ pos' = SkipWhiteSpace(file', 1)
    BY <1>5, <1>7 DEF CallTracks, LoadFile
  <2>2. 1 \in DOMAIN nodes'
    BY DEF LoadFile
  <2>3. Reading(text, inside, n + 1)' \/ Arrived(text, inside, n + 1)'
    BY <1>1, <1>2, <1>4, <1>5, <1>7, <2>1, <2>2, SkipLeaves
  <2> QED BY <1>2, <1>4, <2>1, <2>3 DEF Leaving, Departed
<1> QED BY <1>6, <1>7

(* Every step of the parser goes on in it.                                 *)
LEMMA ParseLeaves ==
    ASSUME XmlInv, 1 \in DOMAIN nodes, Parse,
           NEW text \in Seq(Lexemes), NEW inside, WellFormed(text, inside),
           NEW c \in 1 .. Len(text) + 1, Leaving(text, inside, c)
    PROVE  Leaving(text, inside, c)'
<1>1. XmlInv' /\ 1 \in DOMAIN nodes' /\ error \in BOOLEAN
  BY ParseKeeps, ParseKeepsDocument DEF XmlInv, XmlTypeOK
<1>2. ~error => Departing(text, inside, c) /\ Departing(text, inside, c)'
  BY DepartingStays DEF Leaving
<1>3. frames # <<>>
  BY DEF Parse, DocumentEnds, Element, Attribute, AttributeBeyond, EmptyTag, TagEnds, TagFails, EndTag, ContentEnds,
         Text, CData, Comment, BeyondTheEnd, Unknown, Declaration, At
<1>4. CASE error
  BY <1>1, <1>4, ErrorStays DEF Leaving
<1>5. CASE ~error /\ Reading(text, inside, c)
  <2>1. error' \/ Reading(text, inside, c)' \/ Arrived(text, inside, c)'
    BY <1>1, <1>2, <1>5, ReadingLeaves
  <2>2. Reading(text, inside, c)' \/ Arrived(text, inside, c)' => frames' # <<>>
    BY DEF Reading, IsAt, CallTracks, Arrived, Stands, TopTracks
  <2>3. Departing(text, inside, c)'
    BY <1>2, <1>5
  <2> QED BY <2>1, <2>2, <2>3 DEF Leaving, Departed
<1>6. CASE ~error /\ Arrived(text, inside, c)
  BY <1>1, <1>2, <1>3, <1>6, ArrivedLeaves DEF Leaving
<1>7. CASE ~error /\ InLastTag
  BY <1>2, <1>7, LastTagLeaves DEF Leaving
<1>8. CASE ~error /\ Returned(text, inside, c)
  BY <1>2, <1>8, ReturnedLeaves DEF Leaving, Departed
<1> QED BY <1>3, <1>4, <1>5, <1>6, <1>7, <1>8 DEF Leaving, Departed
=============================================================================
