------------------------------ MODULE iLorrie ------------------------------
(***************************************************************************)
(* The whole program: CiLorrieApp (iLorrie/iLorrie.cpp) reads the          *)
(* configuration and opens the main dialog of iLorrieDlg.tla; its button   *)
(* "add" opens the event dialog CDlgEvent (iLorrie/DlgEvent.cpp), whose    *)
(* result is the record that is written. The configuration is read as      *)
(* Configuration.tla says, which ConfigData.tla implements.                *)
(*                                                                         *)
(* The dialogs are modal: while one is open, the main dialog gets no       *)
(* message from the user.                                                  *)
(***************************************************************************)
EXTENDS iLorrieDlg

CONSTANTS Files,     \* what the configuration file may hold
          Texts,     \* the types a file may list
          Empty,     \* an element that lists nothing
          Titles,    \* the titles a user may enter
          Untitled,  \* no title
          Untyped,   \* no type
          Clock,     \* the times the clock of the system may show
          PerDay     \* the moments of a day

ASSUME ClockAssumption == Clock \subseteq Instants /\ Clock # {} /\ PerDay \in Nat \ {0}

(* The day of one picker with the time of day of the other. (The hour by   *)
(* which the clock may be put forward or back between them is left out.)   *)
DayAndTime(date, time) == (date \div PerDay) * PerDay + (time % PerDay)

(* A record as it is stored.                                               *)
Entered(title, now, event, type) ==
    [title |-> title, create |-> TimeToString[now], event |-> TimeToString[event],
     type |-> type, valid |-> {"event"}]

(* The records are those that can be entered.                              *)
ASSUME EnteredAssumption ==
    \A title \in Titles, now, date, time \in Clock, type \in Texts \cup {Untyped} :
        /\ DayAndTime(date, time) \in Instants
        /\ Entered(title, now, DayAndTime(date, time), type) \in Recs

VARIABLES written,   \* the configuration file
          conf,      \* what CConfigData of each program has read of it
          form       \* the modal dialog of each program, if one is open

app == <<store, status, dlg, written, conf, form>>

Config(c) == INSTANCE Configuration WITH read <- conf[c]

(* A file has sequences of elements, which list texts.                     *)
ASSUME FilesAssumption ==
    \A c \in Clients, file \in Files :
        Config(c)!Listed(file.elements["EventType"]) \in Seq(Texts)

Unread == [outcome |-> "unread"]

(* modal: the dialog that is open; the other fields are the controls of    *)
(* CDlgEvent: the title, the date picker and the time picker, each with a  *)
(* date and a time of day, and the selected type, where zero is CB_ERR.    *)
Forms == [modal : {"none", "event", "feedback", "effect", "about"},
          title : Titles \cup {Untitled}, date : Clock, time : Clock, sel : Nat]

NoForm == [modal |-> "none", title |-> Untitled, date |-> CHOOSE t \in Clock : TRUE,
           time |-> CHOOSE t \in Clock : TRUE, sel |-> 0]

EventTypes(c) == conf[c].lists["EventType"]

AppInit ==
    /\ Init
    /\ written \in Files
    /\ conf = [c \in Clients |-> Unread]
    /\ form = [c \in Clients |-> NoForm]

-----------------------------------------------------------------------------
(* CiLorrieApp                                                             *)

(* A bug that could be made here: that the configuration was not read is   *)
(* shown, but the program goes on.                                         *)
InitInstanceAnyway(c) ==
    /\ conf[c].outcome # "unread"
    /\ OnInitDialog(c)
    /\ UNCHANGED <<written, conf, form>>

(* InitMyComponents reads the configuration.                               *)
InitMyComponents(c) ==
    /\ \E outcome \in {Config(c)!Refused} \cup
                        {[outcome |-> "accepted",
                          lists |-> [list \in Config(c)!Lists |->
                                       Config(c)!Listed(written.elements[list])]]} :
         conf' = [conf EXCEPT ![c] = outcome]
    /\ Config(c)!Next
    /\ UNCHANGED <<store, status, dlg, form>>

(* InitInstance goes on with the main dialog only if it was read.          *)
InitInstance(c) ==
    /\ conf[c].outcome = "accepted"
    /\ OnInitDialog(c)
    /\ UNCHANGED <<written, conf, form>>

(* The program ends, from wherever it is: after the message that the       *)
(* configuration was refused, when the main dialog is closed, or killed.   *)
Exit(c) ==
    /\ conf[c] # Unread
    /\ conf' = [conf EXCEPT ![c] = Unread]
    /\ form' = [form EXCEPT ![c] = NoForm]
    /\ IF dlg[c].at = "closed" THEN UNCHANGED <<store, status, dlg>> ELSE Quit(c)
    /\ UNCHANGED written

(* Somebody edits the configuration file, which nobody reads again.        *)
Rewrite ==
    /\ written' \in Files
    /\ UNCHANGED <<store, status, dlg, conf, form>>

-----------------------------------------------------------------------------
(* CDlgEvent and the other dialogs                                         *)

UserTurn(c) == dlg[c].at = "ready" /\ form[c].modal = "none"

(* InitCreateControls: the pickers show the present, and the first type is *)
(* selected, if there is one.                                              *)
OpenEventDialog(c) ==
    /\ UserTurn(c)
    /\ \E now \in Clock :
         form' = [form EXCEPT ![c] = [modal |-> "event", title |-> Untitled,
                                      date |-> now, time |-> now,
                                      sel |-> IF EventTypes(c) = <<>> THEN 0 ELSE 1]]
    /\ UNCHANGED <<store, status, dlg, written, conf>>

Edit(c) ==
    /\ form[c].modal = "event"
    /\ \/ \E title \in Titles \cup {Untitled} : form' = [form EXCEPT ![c].title = title]
       \/ \E date \in Clock : form' = [form EXCEPT ![c].date = date]
       \/ \E time \in Clock : form' = [form EXCEPT ![c].time = time]
       \/ \E sel \in DOMAIN EventTypes(c) : form' = [form EXCEPT ![c].sel = sel]
    /\ UNCHANGED <<store, status, dlg, written, conf>>

(* GetLBText of the selection. Without one it leaves the text empty, or    *)
(* the handler does not come back from it (and the dialog stays open).     *)
TypeText(c) == IF form[c].sel = 0 THEN Untyped ELSE EventTypes(c)[form[c].sel]

NewRecord(c, now) ==
    Entered(form[c].title, now, DayAndTime(form[c].date, form[c].time), TypeText(c))

(* A bug that could be made here: the title is not looked at.              *)
OnOKUnchecked(c) ==
    /\ form[c].modal = "event"
    /\ \E now \in Clock : AddRecord(c, NewRecord(c, now), now)
    /\ form' = [form EXCEPT ![c] = NoForm]
    /\ UNCHANGED <<written, conf>>

(* A bug that could be made here: SetEventValid is not called.             *)
OnOKInvalid(c) ==
    /\ form[c].modal = "event"
    /\ form[c].title # Untitled
    /\ \E now \in Clock : AddRecord(c, [NewRecord(c, now) EXCEPT !.valid = {}], now)
    /\ form' = [form EXCEPT ![c] = NoForm]
    /\ UNCHANGED <<written, conf>>

(* OnOK, and the rest of OnBnClickedBtnAdd up to WriteRecord. An event     *)
(* without a title is not accepted, and the dialog stays open. The record  *)
(* is created at the time of the clock then.                               *)
OnOK(c) ==
    /\ form[c].modal = "event"
    /\ form[c].title # Untitled
    /\ \E now \in Clock : AddRecord(c, NewRecord(c, now), now)
    /\ form' = [form EXCEPT ![c] = NoForm]
    /\ UNCHANGED <<written, conf>>

(* CDlgFeedback, CDlgEffect and CAboutDlg only open and close.             *)
OpenOther(c) ==
    /\ UserTurn(c)
    /\ \E modal \in {"feedback", "effect", "about"} :
         form' = [form EXCEPT ![c].modal = modal]
    /\ UNCHANGED <<store, status, dlg, written, conf>>

Close(c) ==
    /\ form[c].modal # "none"
    /\ form' = [form EXCEPT ![c] = NoForm]
    /\ UNCHANGED <<store, status, dlg, written, conf>>

-----------------------------------------------------------------------------
(* The main dialog                                                         *)

(* What a handler does without the user. (When something has failed, it    *)
(* ends only after AcknowledgeMessage.)                                    *)
Handle(c) ==
    /\ \/ BriefsRead(c) \/ LoadBreifInfo(c) \/ InitBreifCmb(c)
       \/ OnCbnSelchangeCmbQuery(c) \/ RecordRead(c) \/ RecordWritten(c)
       \/ Database(c)
    /\ UNCHANGED <<written, conf, form>>

AcknowledgeMessage(c) ==
    /\ Acknowledge(c)
    /\ UNCHANGED <<written, conf, form>>

PickItem(c) ==
    /\ UserTurn(c)
    /\ Pick(c)
    /\ UNCHANGED <<written, conf, form>>

AppNext ==
    \/ Rewrite
    \/ \E c \in Clients :
         \/ InitMyComponents(c) \/ InitInstance(c) \/ Exit(c)
         \/ OpenEventDialog(c) \/ Edit(c) \/ OnOK(c) \/ OpenOther(c) \/ Close(c)
         \/ Handle(c) \/ AcknowledgeMessage(c) \/ PickItem(c)

(* A handler runs on until it waits for the user, and a database call      *)
(* returns (CallsReturn of DBInterface.tla). What the user does is never   *)
(* certain: neither an entry nor that a message box is closed.             *)
AppSpec ==
    /\ AppInit
    /\ [][AppNext]_app
    /\ \A c \in Clients : WF_app(InitInstance(c)) /\ WF_app(Handle(c))

-----------------------------------------------------------------------------
(* Properties                                                              *)

(* The program is the main dialog of iLorrieDlg.tla: whatever is entered   *)
(* and whichever dialog is open, the rules of that module hold.            *)
MainDialog == Spec

(* Whoever sees the main dialog has a whole configuration, of which the    *)
(* event dialog selects a type if there is one.                            *)
Configured ==
    \A c \in Clients :
        /\ form[c] \in Forms
        /\ dlg[c].at # "closed" => conf[c].outcome = "accepted"
        /\ form[c].modal = "event" =>
             IF EventTypes(c) = <<>> THEN form[c].sel = 0
                                     ELSE form[c].sel \in DOMAIN EventTypes(c)

(* A record that is added has a title, and one of the types the program    *)
(* that adds it was configured with; it is untyped only if there are none. *)
AddedIsEntered ==
    [][\A r \in store' \ store : \E c \in Clients :
          /\ status[c].rec = r
          /\ r.title # Untitled
          /\ IF EventTypes(c) = <<>> THEN r.type = Untyped ELSE r.type \in ToSet(EventTypes(c))]_app

(* A program with a configuration comes to wait for the user, in its main  *)
(* dialog or with a message of what has failed: no handler gets stuck,     *)
(* whatever the database answers and however often.                        *)
HandlersEnd ==
    \A c \in Clients :
        conf[c].outcome = "accepted" ~>
            (dlg[c].at \in {"ready", "message"} \/ conf[c].outcome # "accepted")
=============================================================================
