------------------------------ MODULE TinyXml ------------------------------
(***************************************************************************)
(* The part of TinyXML that reads a file into a tree of nodes: the Parse   *)
(* functions of ExternalSources/Xml/tinyxmlparser.cpp and LoadFile and     *)
(* LinkEndChild of tinyxml.cpp. A file may end anywhere.                   *)
(*                                                                         *)
(* The text is as in XmlText.tla. The functions call one another, each     *)
(* with the pointer p where it starts, and return the pointer where they   *)
(* end: pos is that pointer, frames are the calls of Parse for the         *)
(* document and for the elements that are being read. A call of the other  *)
(* functions is one step.                                                  *)
(***************************************************************************)
EXTENDS XmlText

CONSTANTS Memory,        \* what may follow the text in memory, up to a zero byte
          MemoryInTag    \* the same when it is read on from within a tag

VARIABLES file,    \* the text that is parsed
          pos,     \* p: zero is NULL, Len(file) + 1 the zero byte at the end
          frames,  \* the calls of Parse, the document's first
          nodes,   \* the nodes by creation, the document first
          error    \* TiXmlDocument::error

xml == <<file, pos, frames, nodes, error>>

ASSUME MemoryAssumption == Memory \cup MemoryInTag \subseteq Seq(Lexemes)

(* A comment, CDATA or a quoted value without its end is in the text: the  *)
(* parser does not stop at the end of the text then. What it reads behind  *)
(* it, in memory that is not the text's, is undefined in C++.              *)
Overruns(text) ==
    \E i \in DOMAIN text : text[i].kind \in {"commentcut", "cdatacut", "attributecut"}

(* No part of a tag is in that memory.                                     *)
IdleMemory == \A rest \in Memory \cup MemoryInTag : \A i \in DOMAIN rest : Idle(rest[i])

NodeTypes == {"DOCUMENT", "ELEMENT", "COMMENT", "UNKNOWN", "TEXT", "DECLARATION"}

(* The pointers of a node are positions in nodes; zero is NULL.            *)
Nodes == [type : NodeTypes, value : Names \cup Texts \cup {Blank},
          parent : Nat, prev : Nat, next : Nat, first : Nat, last : Nat]

NewNode(type, value, parent) ==
    [type |-> type, value |-> value, parent |-> parent,
     prev |-> 0, next |-> 0, first |-> 0, last |-> 0]

(* at: in the content of the document, in the tag of an element or in its  *)
(* content; attributes: the names read so far.                             *)
Frames == [node : Nat, at : {"document", "tag", "content"}, attributes : SUBSET Names]

Init == /\ file = <<>>
        /\ pos = 0
        /\ frames = <<>>
        /\ nodes = <<>>
        /\ error = FALSE

-----------------------------------------------------------------------------
(* White space is one lexeme. At the end of the text NULL is returned, but *)
(* not when the white space reaches the end: then it is the zero byte.     *)
SkipWhiteSpace(text, p) ==
    IF p \notin DOMAIN text THEN 0 ELSE IF text[p].kind = "space" THEN p + 1 ELSE p

(* A bug that could be made here: the node that was last is left as it was.*)
LinkEndChildOnly(tree, n) ==
    LET parent == tree[n].parent
        last == tree[parent].last
        linked == [tree EXCEPT ![n].prev = last, ![parent].last = n]
    IN  IF last = 0 THEN [linked EXCEPT ![parent].first = n] ELSE linked

LinkEndChild(tree, n) ==
    LET parent == tree[n].parent
        last == tree[parent].last
        linked == [tree EXCEPT ![n].prev = last, ![parent].last = n]
    IN  IF last = 0 THEN [linked EXCEPT ![parent].first = n]
                    ELSE [linked EXCEPT ![last].next = n]

Frame == Last(frames)

AtEnd == pos \notin DOMAIN file

At(where, kinds) ==
    /\ frames # <<>>
    /\ Frame.at \in where
    /\ ~AtEnd
    /\ file[pos].kind \in kinds

InContent == {"document", "content"}

(* A node without children is created, parsed up to p and linked.          *)
Child(type, value, text, p) ==
    LET node == NewNode(type, value, Frame.node)
    IN  /\ nodes' = LinkEndChild(Append(nodes, node), Len(nodes) + 1)
        /\ pos' = SkipWhiteSpace(text, p)
        /\ UNCHANGED <<frames, error>>

(* The Parse of an element returns p, and the caller links the element.    *)
Return(p) ==
    /\ nodes' = LinkEndChild(nodes, Frame.node)
    /\ frames' = Front(frames)
    /\ pos' = SkipWhiteSpace(file, p)
    /\ UNCHANGED file

Fail == Return(0) /\ error' = TRUE

-----------------------------------------------------------------------------
(* TiXmlDocument                                                           *)

(* LoadFile, up to the loop of Parse.                                      *)
LoadFile(text) ==
    /\ file' = text
    /\ nodes' = <<NewNode("DOCUMENT", Blank, 0)>>
    /\ IF text = <<>>
       THEN error' = TRUE /\ frames' = <<>> /\ pos' = 0
       ELSE /\ error' = FALSE
            /\ frames' = <<[node |-> 1, at |-> "document", attributes |-> {}]>>
            /\ pos' = SkipWhiteSpace(text, 1)

(* The file cannot be opened or read.                                      *)
NoFile ==
    /\ error' = TRUE
    /\ nodes' = <<NewNode("DOCUMENT", Blank, 0)>>
    /\ UNCHANGED <<file, frames, pos>>

(* Identify finds no tag, or the text has ended.                           *)
DocumentEnds ==
    /\ frames # <<>>
    /\ Frame.at = "document"
    /\ ~AtEnd => file[pos].kind = "text"
    /\ error' = (error \/ nodes[1].first = 0)
    /\ frames' = <<>>
    /\ UNCHANGED <<file, pos, nodes>>

-----------------------------------------------------------------------------
(* TiXmlElement                                                            *)

(* Identify, and ReadName up to the end of the name.                       *)
Element ==
    /\ At(InContent, {"open"})
    /\ nodes' = Append(nodes, NewNode("ELEMENT", file[pos].value, Frame.node))
    /\ frames' = Append(frames, [node |-> Len(nodes) + 1, at |-> "tag", attributes |-> {}])
    /\ pos' = SkipWhiteSpace(file, pos + 1)
    /\ UNCHANGED <<file, error>>

(* An attribute that is there already gets the value and ends the Parse,   *)
(* without an error.                                                       *)
Attribute ==
    /\ At({"tag"}, {"attribute"})
    /\ LET name == file[pos].value
       IN  \/ /\ pos = Len(file)
              /\ Fail
           \/ /\ pos # Len(file)
              /\ name \in Frame.attributes
              /\ Return(0)
              /\ UNCHANGED error
           \/ /\ pos # Len(file)
              /\ name \notin Frame.attributes
              /\ frames' = [frames EXCEPT ![Len(frames)].attributes = @ \cup {name}]
              /\ pos' = SkipWhiteSpace(file, pos + 1)
              /\ UNCHANGED <<file, nodes, error>>

(* The text ends in a quoted value: ReadText adds the length of the quote  *)
(* to a pointer at the zero byte. The next byte decides: after another     *)
(* zero byte the attribute is an error, otherwise it is one like any other *)
(* and the parser goes on in what follows the text in memory.              *)
AttributeBeyond ==
    /\ At({"tag"}, {"attributecut"})
    /\ LET name == file[pos].value
       IN  \E rest \in MemoryInTag :
             \/ /\ rest = <<>>
                /\ Fail
             \/ /\ rest # <<>>
                /\ name \in Frame.attributes
                /\ Return(0)
                /\ UNCHANGED error
             \/ /\ rest # <<>>
                /\ name \notin Frame.attributes
                /\ frames' = [frames EXCEPT ![Len(frames)].attributes = @ \cup {name}]
                /\ file' = file \o rest
                /\ pos' = SkipWhiteSpace(file', pos + 1)
                /\ UNCHANGED <<nodes, error>>

EmptyTag == At({"tag"}, {"empty"}) /\ Return(pos + 1) /\ UNCHANGED error

TagEnds ==
    /\ At({"tag"}, {"gt"})
    /\ frames' = [frames EXCEPT ![Len(frames)].at = "content"]
    /\ pos' = SkipWhiteSpace(file, pos + 1)
    /\ UNCHANGED <<file, nodes, error>>

(* A bug that could be made here: not to see that the text has ended.      *)
TagFailsUnseen ==
    /\ frames # <<>>
    /\ Frame.at = "tag"
    /\ ~AtEnd
    /\ file[pos].kind \notin {"attribute", "attributecut", "empty", "gt"}
    /\ Fail

(* The text ends in the tag, or what is there is no attribute.             *)
TagFails ==
    /\ frames # <<>>
    /\ Frame.at = "tag"
    /\ ~AtEnd => file[pos].kind \notin {"attribute", "attributecut", "empty", "gt"}
    /\ Fail

(* Only the name and ">" at once are the end tag that is looked for.       *)
EndTag ==
    /\ At({"content"}, {"close", "closeother"})
    /\ \/ /\ file[pos].kind = "close"
          /\ file[pos].value = nodes[Frame.node].value
          /\ Return(pos + 1)
          /\ UNCHANGED error
       \/ /\ file[pos].kind = "closeother" \/ file[pos].value # nodes[Frame.node].value
          /\ Fail

(* A bug that could be made here: that the text ends is never an error.    *)
ContentEndsQuietly ==
    /\ frames # <<>>
    /\ Frame.at = "content"
    /\ AtEnd
    /\ Return(0)
    /\ UNCHANGED error

(* The text ends in the content. ReadValue reports it for NULL only; at    *)
(* the zero byte Parse returns NULL without an error.                      *)
ContentEnds ==
    /\ frames # <<>>
    /\ Frame.at = "content"
    /\ AtEnd
    /\ Return(0)
    /\ error' = (error \/ pos = 0)

-----------------------------------------------------------------------------
(* The other nodes                                                         *)

(* TiXmlText: up to the next "<" or the end; nothing is linked when only   *)
(* white space remains.                                                    *)
Text ==
    /\ At({"content"}, {"text"})
    /\ \/ /\ file[pos].value # Blank
          /\ Child("TEXT", file[pos].value, file, pos + 1)
       \/ /\ file[pos].value = Blank
          /\ pos' = SkipWhiteSpace(file, pos + 1)
          /\ UNCHANGED <<frames, nodes, error>>
    /\ UNCHANGED file

CData ==
    /\ At(InContent, {"cdata"})
    /\ Child("TEXT", file[pos].value, file, pos + 1)
    /\ UNCHANGED file

Comment ==
    /\ At(InContent, {"comment"})
    /\ Child("COMMENT", Blank, file, pos + 1)
    /\ UNCHANGED file

(* A comment or CDATA without an end: ReadText adds the length of the end  *)
(* to a pointer at the zero byte, and the parser goes on in what follows   *)
(* the text in memory.                                                     *)
BeyondTheEnd ==
    /\ At(InContent, {"commentcut", "cdatacut"})
    /\ \E rest \in Memory :
         /\ file' = file \o rest
         /\ Child(IF file[pos].kind = "commentcut" THEN "COMMENT" ELSE "TEXT",
                  file[pos].value, file', pos + 1)

(* Up to the next ">", if there is one. Outside the root element an end    *)
(* tag is unknown, too.                                                    *)
Unknown ==
    /\ \/ At(InContent, {"unknown", "lt"})
       \/ At({"document"}, {"close", "closeother"})
    /\ Child("UNKNOWN", Blank, file, pos + 1)
    /\ UNCHANGED file

(* A bug that could be made here: to return where the declaration begins.  *)
DeclarationAgain ==
    /\ At(InContent, {"declaration", "declarationcut"})
    /\ Child("DECLARATION", Blank, file,
             IF file[pos].kind = "declaration" THEN pos + 1 ELSE pos)
    /\ UNCHANGED file

(* A declaration that is not closed returns NULL without an error.         *)
Declaration ==
    /\ At(InContent, {"declaration", "declarationcut"})
    /\ Child("DECLARATION", Blank, file,
             IF file[pos].kind = "declaration" THEN pos + 1 ELSE 0)
    /\ UNCHANGED file

Parse == \/ DocumentEnds
         \/ Element \/ Attribute \/ AttributeBeyond \/ EmptyTag \/ TagEnds \/ TagFails
         \/ EndTag \/ ContentEnds
         \/ Text \/ CData \/ Comment \/ BeyondTheEnd \/ Unknown \/ Declaration

-----------------------------------------------------------------------------
(* Properties                                                              *)

(* The types of the parser's variables.                                    *)
XmlTypeOK ==
    /\ file \in Seq(Lexemes)
    /\ pos \in Nat
    /\ frames \in Seq(Frames)
    /\ nodes \in Seq(Nodes)
    /\ error \in BOOLEAN

(* How far the parser is: in the text, and back from its calls. A call is  *)
(* begun after a lexeme and can only end later, so that a lexeme counts    *)
(* for more than a call. It is at most twice the length of the text, with  *)
(* the memory behind it that was read, and two.                            *)
Progress == 2 * (IF AtEnd THEN Len(file) + 1 ELSE pos) - Len(frames)

(* The nodes whose Parse has not returned are not linked yet.              *)
Linked == {n \in DOMAIN nodes : n # 1 /\ \A i \in DOMAIN frames : frames[i].node # n}

(* The children of every node are a list that is the same from both ends:  *)
(* no linked node is lost, shared by two parents or in a cycle, wherever   *)
(* the text ends and whatever functions return early.                      *)
ChildrenLinked ==
    /\ \A n \in Linked :
         LET node == nodes[n]
             parent == nodes[node.parent]
         IN  /\ IF node.prev = 0
                THEN parent.first = n
                ELSE node.prev < n /\ node.prev \in Linked
                       /\ nodes[node.prev].next = n /\ nodes[node.prev].parent = node.parent
             /\ IF node.next = 0
                THEN parent.last = n
                ELSE n < node.next /\ node.next \in Linked
                       /\ nodes[node.next].prev = n /\ nodes[node.next].parent = node.parent
    /\ \A n \in DOMAIN nodes : \A child \in {nodes[n].first, nodes[n].last} \ {0} :
         child \in Linked /\ nodes[child].parent = n
=============================================================================
