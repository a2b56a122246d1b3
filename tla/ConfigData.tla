----------------------------- MODULE ConfigData -----------------------------
(***************************************************************************)
(* CConfigData and CConfigReader (ConfigReaderLib/ConfigData.cpp): the     *)
(* program's configuration is read into four lists when the program        *)
(* starts, from the tree TinyXML makes of the file.                        *)
(*                                                                         *)
(* The file is one that somebody wrote, or what is there of it while it is *)
(* being written or after it was written in part.                          *)
(***************************************************************************)
EXTENDS TinyXml

CONSTANT Files   \* the files: the elements of each list and the whole text as they were
                 \* written, the text that is there, and whether it is sound: readable,
                 \* complete and well formed

Lists == {"EventType", "FeedbackAttitude", "FeedbackType", "EffectLevel"}

(* The elements that a well-formed text has for the lists.                 *)
Reads(text, inside, elements) ==
    LET setting == FirstIn(text, inside, Root(text, inside), "RecordSetting")
        In(section, name) ==
          ElementsIn(text, inside, FirstIn(text, inside, setting, section), name)
    IN  /\ TextsOf(text, inside, In("Event", "Type"), elements["EventType"])
        /\ TextsOf(text, inside, In("Feedback", "Attitude"), elements["FeedbackAttitude"])
        /\ TextsOf(text, inside, In("Feedback", "Type"), elements["FeedbackType"])
        /\ TextsOf(text, inside, In("Effect", "Level"), elements["EffectLevel"])

ASSUME FilesAssumption ==
    \A f \in Files :
      /\ f.text \in Seq(Lexemes)
      /\ f.elements \in [Lists -> Seq(Texts \cup {Blank})]
      /\ f.sound \in BOOLEAN
      /\ f.sound => /\ f.text = f.whole
                    /\ WellFormed(f.whole, Inside(f.whole))
                    /\ Reads(f.whole, Inside(f.whole), f.elements)

(* A file that is not sound only because it was cut or has a mistake.      *)
Spoiled(f) ==
    /\ ~f.sound
    /\ f.whole \in Seq(Lexemes)
    /\ f.elements \in [Lists -> Seq(Texts \cup {Blank})]
    /\ WellFormed(f.whole, Inside(f.whole))
    /\ Reads(f.whole, Inside(f.whole), f.elements)
    /\ \E n \in 0 .. Len(f.whole) : Departs(f.text, f.whole, n)

VARIABLES written,   \* the file
          conf       \* the memory of CConfigData

vars == <<file, pos, frames, nodes, error, written, conf>>

NoLists == [list \in Lists |-> <<>>]

(* at: where Initialize is; lists: m_vecEventType and the other lists;     *)
(* result: bResult.                                                        *)
Confs == [at : {"start", "parsing", "event", "feedback", "effect", "accepted", "refused"},
          m_bInitialized : BOOLEAN,
          lists : [Lists -> Seq(Texts)],
          result : BOOLEAN]

ConfInit ==
    /\ Init
    /\ written \in Files
    /\ conf = [at |-> "start", m_bInitialized |-> FALSE, lists |-> NoLists, result |-> TRUE]

-----------------------------------------------------------------------------
(* The tree, as CConfigReader looks at it                                  *)

(* The first element of this name from this node on.                       *)
ElementFrom(n, name) ==
    LET element[m \in 0 .. Len(nodes)] ==
          IF m = 0 \/ (nodes[m].type = "ELEMENT" /\ nodes[m].value = name)
          THEN m ELSE element[nodes[m].next]
    IN  element[n]

FirstChildElement(n, name) == IF n = 0 THEN 0 ELSE ElementFrom(nodes[n].first, name)

NextSiblingElement(n, name) == ElementFrom(nodes[n].next, name)

(* The first element of the document, whatever its name.                   *)
RootElement ==
    LET element[m \in 0 .. Len(nodes)] ==
          IF m = 0 \/ nodes[m].type = "ELEMENT" THEN m ELSE element[nodes[m].next]
    IN  element[nodes[1].first]

(* A bug that could be made here: to take the first child for a text.      *)
GetTextOfAny(n) ==
    LET child == nodes[n].first
    IN  IF child # 0 THEN <<nodes[child].value>> ELSE <<>>

(* GetText: of the first child, if that is a text. NULL lists nothing.     *)
GetText(n) ==
    LET child == nodes[n].first
    IN  IF child # 0 /\ nodes[child].type = "TEXT" THEN <<nodes[child].value>> ELSE <<>>

(* The texts of this element and of its next siblings of the name.         *)
TextsFrom(n, name) ==
    LET texts[m \in 0 .. Len(nodes)] ==
          IF m = 0 THEN <<>> ELSE GetText(m) \o texts[NextSiblingElement(m, name)]
    IN  texts[n]

RecordSetting == FirstChildElement(RootElement, "RecordSetting")

-----------------------------------------------------------------------------
(* CConfigData and CConfigReader                                           *)

(* LoadFile; a file that is not sound may not even open.                   *)
Load == \/ LoadFile(written.text)
        \/ ~written.sound /\ NoFile

(* Initialize sets the flag, and ReadRecordSetting loads the file.         *)
Initialize ==
    /\ conf.at = "start"
    /\ conf' = [conf EXCEPT !.at = "parsing", !.m_bInitialized = TRUE]
    /\ Load
    /\ UNCHANGED written

Parsing ==
    /\ conf.at = "parsing"
    /\ Parse
    /\ UNCHANGED <<written, conf>>

(* LoadFile has returned. Without an error and with a RecordSetting in the *)
(* root element ClearAll empties the lists.                                *)
ReadRecordSetting ==
    /\ conf.at = "parsing"
    /\ frames = <<>>
    /\ \/ /\ error \/ RecordSetting = 0
          /\ conf' = [conf EXCEPT !.at = "refused"]
       \/ /\ ~error /\ RecordSetting # 0
          /\ conf' = [conf EXCEPT !.at = "event", !.lists = NoLists, !.result = TRUE]
    /\ UNCHANGED <<xml, written>>

(* The elements of one name add to a list; that there is none is an error. *)
Adding(c, list, section, name) ==
    LET first == FirstChildElement(section, name)
    IN  [c EXCEPT !.lists[list] = @ \o TextsFrom(first, name),
                  !.result = @ /\ first # 0]

ReadEvent ==
    LET event == FirstChildElement(RecordSetting, "Event")
    IN  /\ conf.at = "event"
        /\ conf' = [Adding(conf, "EventType", event, "Type") EXCEPT !.at = "feedback"]
        /\ UNCHANGED <<xml, written>>

(* Without an attitude the types are not read.                             *)
ReadFeedback ==
    LET feedback == FirstChildElement(RecordSetting, "Feedback")
        attitudes == Adding(conf, "FeedbackAttitude", feedback, "Attitude")
    IN  /\ conf.at = "feedback"
        /\ IF FirstChildElement(feedback, "Attitude") = 0
           THEN conf' = [attitudes EXCEPT !.at = "effect"]
           ELSE conf' = [Adding(attitudes, "FeedbackType", feedback, "Type") EXCEPT !.at = "effect"]
        /\ UNCHANGED <<xml, written>>

ReadEffect ==
    LET effect == FirstChildElement(RecordSetting, "Effect")
        levels == Adding(conf, "EffectLevel", effect, "Level")
    IN  /\ conf.at = "effect"
        /\ conf' = [levels EXCEPT !.at = IF levels.result THEN "accepted" ELSE "refused"]
        /\ UNCHANGED <<xml, written>>

ConfNext == Initialize \/ Parsing \/ ReadRecordSetting \/ ReadEvent \/ ReadFeedback \/ ReadEffect

(* Initialize runs in the program's only thread, before any window opens:  *)
(* a step that can be taken is taken.                                      *)
ConfSpec == ConfInit /\ [][ConfNext]_vars /\ WF_vars(ConfNext)

-----------------------------------------------------------------------------
(* Properties                                                              *)

(* The types of the parser and of the lists; no blank text is listed.      *)
TypeOK == XmlTypeOK /\ conf \in Confs

(* What the program knows of the configuration.                            *)
Outcome ==
    CASE conf.at = "accepted" -> [outcome |-> "accepted", lists |-> conf.lists]
      [] conf.at = "refused"  -> [outcome |-> "refused"]
      [] OTHER                -> [outcome |-> "unread"]

Promise == INSTANCE Configuration WITH Empty <- Blank, read <- Outcome

(* Initialize keeps the promise of Configuration.tla: a configuration is   *)
(* accepted with all that was written or refused, and refused only for a   *)
(* reason, wherever the file ends.                                         *)
WholeOrRefused == Promise!Safety

(* Every call of a Parse function moves the pointer forward or returns to  *)
(* its caller, at the end of the text as well: none is repeated forever.   *)
ParserAdvances == [][Parsing => Progress' > Progress]_vars

(* Initialize comes to an end, wherever the file ends.                     *)
InitializeEnds == <>(conf.at \in {"accepted", "refused"})
=============================================================================
