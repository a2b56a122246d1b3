------------------------------ MODULE XmlText ------------------------------
(***************************************************************************)
(* The text of a file as a sequence of lexemes, and what is written in it: *)
(* which texts are well formed, and what each element of one contains. The *)
(* definitions say it position by position, without a parser; TinyXml.tla  *)
(* is the parser, and has to find the same.                                *)
(***************************************************************************)
EXTENDS Integers, Sequences, SequencesExt

CONSTANTS Names,   \* the names of elements and attributes
          Texts,   \* the texts between the tags
          Blank    \* the text of which nothing but white space remains

ASSUME BlankAssumption == Blank \notin Texts

(* The kinds of lexemes. "<Name" is an open lexeme, "</Name>" a close one  *)
(* and closeother one that begins with "</" and goes on in another way. A  *)
(* lexeme in which the file ends is a cut one, an attribute cut in the     *)
(* quoted value being attributecut and in another place tagcut, or lt when *)
(* no more is left than the beginning of something that is not told from   *)
(* others. Only CDATA keeps its white space, so that it is never blank.    *)
Named    == {"open", "attribute", "attributecut", "close"}
Verbatim == {"cdata", "cdatacut"}
Others   == {"space", "gt", "empty", "comment", "declaration", "unknown", "lt",
             "closeother", "tagcut", "commentcut", "declarationcut"}

Lexemes == [kind : Named, value : Names] \cup [kind : {"text"}, value : Texts \cup {Blank}]
             \cup [kind : Verbatim, value : Texts] \cup [kind : Others, value : {Blank}]

-----------------------------------------------------------------------------
(* Well-formed texts, in the sense of TinyXML: "</Name >" is none, though  *)
(* XML allows it. inside[i] is the open lexeme of the element in whose tag *)
(* or content lexeme i stands, zero outside of all elements.               *)

(* Lexeme i belongs to the tag that begins with inside[i].                 *)
InTag(text, inside, i) ==
    /\ inside[i] # 0
    /\ \A j \in inside[i] + 1 .. i - 1 : text[j].kind \in {"space", "attribute"}

InTheTag(text, inside, i) ==
    /\ InTag(text, inside, i)
    /\ \/ text[i].kind \in {"space", "gt", "empty"}
       \/ /\ text[i].kind = "attribute"
          /\ \A j \in inside[i] + 1 .. i - 1 : text[j] # text[i]

InTheContent(text, inside, i) ==
    /\ inside[i] # 0
    /\ ~InTag(text, inside, i)
    /\ \/ text[i].kind \in {"space", "text", "cdata", "comment", "declaration", "unknown", "open"}
       \/ text[i].kind = "close" /\ text[i].value = text[inside[i]].value

InTheDocument(text, inside, i) ==
    /\ inside[i] = 0
    /\ text[i].kind \in {"space", "comment", "declaration", "unknown", "open"}

(* Where the lexeme after i stands.                                        *)
After(text, inside, i) ==
    CASE text[i].kind = "open" -> i
      [] text[i].kind \in {"close", "empty"} -> inside[inside[i]]
      [] OTHER -> inside[i]

WellFormed(text, inside) ==
    /\ inside \in [1 .. Len(text) + 1 -> 0 .. Len(text)]
    /\ inside[1] = 0
    /\ inside[Len(text) + 1] = 0
    /\ \A i \in DOMAIN text :
         /\ inside[i] < i
         /\ inside[i + 1] = After(text, inside, i)
         /\ \/ InTheTag(text, inside, i)
            \/ InTheContent(text, inside, i)
            \/ InTheDocument(text, inside, i)
         /\ text[i].kind = "space" /\ i # Len(text) => text[i + 1].kind # "space"

(* The only function that a text can be well formed with.                  *)
Inside(text) ==
    LET inside[i \in 1 .. Len(text) + 1] ==
          IF i = 1 THEN 0
          ELSE CASE text[i - 1].kind = "open" -> i - 1
                 [] text[i - 1].kind \in {"close", "empty"} -> inside[inside[i - 1]]
                 [] OTHER -> inside[i - 1]
    IN  inside

-----------------------------------------------------------------------------
(* What is in a well-formed text                                           *)

FirstOf(S) == IF S = {} THEN 0 ELSE Min(S)

(* The open lexemes of the elements of this name in the content of one.    *)
ElementsIn(text, inside, section, name) ==
    {i \in DOMAIN text : section # 0 /\ inside[i] = section
                           /\ text[i] = [kind |-> "open", value |-> name]}

FirstIn(text, inside, section, name) == FirstOf(ElementsIn(text, inside, section, name))

Root(text, inside) == FirstOf({i \in DOMAIN text : inside[i] = 0 /\ text[i].kind = "open"})

(* Something else than a tag, white space or a blank text.                 *)
Makes(lexeme) ==
    \/ lexeme.kind \in {"open", "cdata", "comment", "declaration", "unknown"}
    \/ lexeme.kind = "text" /\ lexeme.value # Blank

(* The text of an element is what its content begins with.                 *)
TextIn(text, inside, i) ==
    LET child == FirstOf({j \in DOMAIN text : inside[j] = i /\ Makes(text[j])})
    IN  IF child # 0 /\ text[child].kind \in {"text", "cdata"} THEN text[child].value ELSE Blank

(* These are the texts of these elements, in their order.                  *)
TextsOf(text, inside, elements, texts) ==
    \E places \in [DOMAIN texts -> elements] :
      /\ \A k, l \in DOMAIN texts : k < l => places[k] < places[l]
      /\ \A i \in elements : \E k \in DOMAIN texts : places[k] = i
      /\ \A k \in DOMAIN texts : texts[k] = TextIn(text, inside, places[k])

-----------------------------------------------------------------------------
(* Texts that end too early, or go on with a mistake                       *)

(* A lexeme that is no part of a tag.                                      *)
Idle(lexeme) == lexeme.kind \notin {"open", "close", "attribute", "gt", "empty"}

(* The first lexeme that does not belong where it is: an attribute that is *)
(* there already, a tag without its end, the end tag of another element or *)
(* one with white space in it, or a text outside of all elements.          *)
Mistake(text, inside, i) ==
    \/ /\ InTag(text, inside, i)
       /\ \/ text[i].kind \notin {"space", "attribute", "attributecut", "gt", "empty"}
          \/ /\ text[i].kind = "attribute"
             /\ \E j \in inside[i] + 1 .. i - 1 : text[j] = text[i]
    \/ /\ inside[i] # 0
       /\ ~InTag(text, inside, i)
       /\ \/ text[i].kind = "close" /\ text[i].value # text[inside[i]].value
          \/ text[i].kind = "closeother"
    \/ inside[i] = 0 /\ text[i].kind = "text"

(* After n lexemes the text departs from the whole one. Either no part of  *)
(* a tag follows, but end tags outside of all elements may; or what is     *)
(* there of the beginning of an element; or a mistake and then anything.   *)
Departs(text, whole, n) ==
    LET inside == Inside(whole)
    IN  /\ n \in 0 .. Len(whole)
        /\ n <= Len(text)
        /\ \A i \in 1 .. n : text[i] = whole[i]
        /\ \/ \A i \in n + 1 .. Len(text) :
                Idle(text[i]) \/ (inside[n + 1] = 0 /\ text[i].kind = "close")
           \/ Len(text) = n + 1 /\ text[n + 1].kind = "open"
           \/ n < Len(text) /\ Mistake(text, inside, n + 1)
=============================================================================
