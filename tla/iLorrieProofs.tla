--------------------------- MODULE iLorrieProofs ---------------------------
(***************************************************************************)
(* Proofs about iLorrie, for every set of programs, every configuration    *)
(* file and however the user goes about it: the program is the main dialog *)
(* of iLorrieDlg.tla, whose theorems therefore hold of it, and what it     *)
(* adds to the database was entered under its own configuration.           *)
(*                                                                         *)
(* AppIInv joins the invariant of the dialog to what one program's window  *)
(* d, call s, configuration k and form f have to do with each other.       *)
(***************************************************************************)
EXTENDS iLorrie, iLorrieDlgProofs

(* The selected type is there, if any is.                                  *)
Selected(sel, types) == IF types = <<>> THEN sel = 0 ELSE sel \in DOMAIN types

(* The type of a record is one of these, if there are any.                 *)
Typed(r, types) == IF types = <<>> THEN r.type = Untyped ELSE r.type \in ToSet(types)

ProgramInv(d, s, k, f) ==
    /\ f \in Forms
    /\ k.outcome = "accepted" => k.lists["EventType"] \in Seq(Texts)
    /\ d.at # "closed" => k.outcome = "accepted"
    /\ f.modal # "none" => k.outcome = "accepted"
    /\ f.modal = "event" => Selected(f.sel, k.lists["EventType"])
    /\ d.at = "writing" => s.rec.title # Untitled /\ Typed(s.rec, k.lists["EventType"])

AppIInv ==
    /\ IInv
    /\ written \in Files
    /\ DOMAIN conf = Clients /\ DOMAIN form = Clients
    /\ \A c \in Clients : ProgramInv(dlg[c], status[c], conf[c], form[c])

-----------------------------------------------------------------------------
(* The form of a program without an open dialog.                           *)
LEMMA NoFormIsForm == NoForm \in Forms /\ NoForm.modal = "none"
<1>1. (CHOOSE t \in Clock : TRUE) \in Clock
  BY ClockAssumption
<1> QED BY <1>1 DEF NoForm, Forms

(* A step of one program leaves the others as they are.                    *)
LEMMA OneAppChanges ==
    ASSUME AppIInv, IInv', NEW c \in Clients,
           written' \in Files, DOMAIN conf' = Clients, DOMAIN form' = Clients,
           \A x \in Clients \ {c} : /\ dlg'[x] = dlg[x] /\ status'[x] = status[x]
                                    /\ conf'[x] = conf[x] /\ form'[x] = form[x],
           ProgramInv(dlg'[c], status'[c], conf'[c], form'[c])
    PROVE  AppIInv'
<1>1. ASSUME NEW x \in Clients
      PROVE  ProgramInv(dlg'[x], status'[x], conf'[x], form'[x])
  <2>1. CASE x = c
    BY <2>1
  <2>2. CASE x # c
    <3>1. ProgramInv(dlg[x], status[x], conf[x], form[x])
      BY DEF AppIInv
    <3>2. /\ dlg'[x] = dlg[x] /\ status'[x] = status[x]
          /\ conf'[x] = conf[x] /\ form'[x] = form[x]
      BY <2>2
    <3> QED BY <3>1, <3>2
  <2> QED BY <2>1, <2>2
<1> QED BY <1>1 DEF AppIInv

(* A form that changes while the rest of its program does not.             *)
LEMMA FormChanges ==
    ASSUME AppIInv, IInv', NEW c \in Clients, NEW f, form' = [form EXCEPT ![c] = f],
           UNCHANGED <<store, status, dlg, written, conf>>,
           f \in Forms, f.modal # "none" => conf[c].outcome = "accepted",
           f.modal = "event" => Selected(f.sel, EventTypes(c))
    PROVE  AppIInv'
<1>1. ProgramInv(dlg[c], status[c], conf[c], form[c])
  BY DEF AppIInv
<1>2. form'[c] = f
  BY DEF AppIInv
<1>3. ProgramInv(dlg'[c], status'[c], conf'[c], form'[c])
  BY <1>1, <1>2 DEF ProgramInv, EventTypes
<1> QED BY <1>3, OneAppChanges DEF AppIInv

(* A step of a handler: the window stays open, and what is being written   *)
(* stays the same.                                                         *)
LEMMA HandlerOfOne ==
    ASSUME IInv, NEW c \in Clients,
           \/ BriefsRead(c) \/ LoadBreifInfo(c) \/ InitBreifCmb(c)
           \/ Acknowledge(c) \/ Pick(c)
           \/ OnCbnSelchangeCmbQuery(c) \/ RecordRead(c) \/ RecordWritten(c)
           \/ Database(c)
    PROVE  /\ \A x \in Clients \ {c} : dlg'[x] = dlg[x] /\ status'[x] = status[x]
           /\ dlg'[c].at # "closed" => dlg[c].at # "closed"
           /\ dlg'[c].at = "writing" =>
                dlg[c].at = "writing" /\ status'[c].rec = status[c].rec
<1>1. /\ dlg \in [Clients -> Dialogs] /\ status \in [Clients -> Store!Statuses]
      /\ dlg[c] \in Dialogs
  BY DEF IInv, TypeOK, Store!TypeOK
<1>2. CASE BriefsRead(c)
  BY <1>1, <1>2 DEF BriefsRead, Returns, Store!Leave, Dialogs
<1>3. CASE LoadBreifInfo(c)
  BY <1>1, <1>3 DEF LoadBreifInfo, Dialogs
<1>4. CASE InitBreifCmb(c)
  BY <1>1, <1>4 DEF InitBreifCmb, Dialogs
<1>5. CASE Acknowledge(c) \/ Pick(c)
  BY <1>1, <1>5 DEF Acknowledge, Pick, Dialogs
<1>6. CASE OnCbnSelchangeCmbQuery(c)
  BY <1>1, <1>6 DEF OnCbnSelchangeCmbQuery, Store!Call, Dialogs
<1>7. CASE RecordRead(c)
  <2>1. PICK d : dlg' = [dlg EXCEPT ![c] = d] /\ d.at \in {"ready", "message"}
    BY <1>1, <1>7 DEF RecordRead, RecordShown, Dialogs
  <2>2. status' = [status EXCEPT ![c] = Store!Idle] /\ dlg[c].at = "reading"
    BY <1>7 DEF RecordRead, Returns, Store!Leave
  <2> QED BY <1>1, <2>1, <2>2
<1>8. CASE RecordWritten(c)
  <2>1. PICK d : dlg' = [dlg EXCEPT ![c] = d] /\ d.at \in {"ready", "message"}
    <3>1. CASE status[c].phase = "failed"
      BY <1>1, <1>8, <3>1 DEF RecordWritten, Dialogs
    <3>2. CASE status[c].phase = "ok"
      <4> DEFINE e == RecordShown(dlg[c], Created(c))
                 briefs == AddBriefAsc(BriefInfo(dlg[c].now, status[c].rec), dlg[c].briefs)
                 combo == Append(dlg[c].combo, dlg[c].now)
                 d == [e EXCEPT !.at = "ready", !.now = 0, !.briefs = briefs,
                                !.combo = combo, !.sel = Len(dlg[c].combo) + 1]
      <4>1. dlg' = [dlg EXCEPT ![c] = d]
        BY <1>8, <3>2 DEF RecordWritten
      <4>2. "at" \in DOMAIN e
        BY <1>1 DEF RecordShown, Dialogs
      <4> HIDE DEF e, briefs, combo
      <4>3. d.at = "ready"
        BY <4>2
      <4> HIDE DEF d
      <4> QED BY <4>1, <4>3
    <3> QED BY <1>8, <3>1, <3>2 DEF RecordWritten
  <2>2. status' = [status EXCEPT ![c] = Store!Idle] /\ dlg[c].at = "writing"
    BY <1>8 DEF RecordWritten, Returns, Store!Leave
  <2> QED BY <1>1, <2>1, <2>2
<1>9. CASE Database(c)
  BY <1>1, <1>9 DEF Database, Store!Insert, Store!Fail, Store!Read, Store!Become,
                    Store!Statuses, Dialogs
<1> QED BY <1>2, <1>3, <1>4, <1>5, <1>6, <1>7, <1>8, <1>9

(* What OnOK writes is a record, and it was entered.                       *)
LEMMA NewRecordIsEntered ==
    ASSUME AppIInv, NEW c \in Clients, NEW now \in Clock,
           form[c].modal = "event", form[c].title # Untitled
    PROVE  /\ NewRecord(c, now) \in Recs
           /\ NewRecord(c, now).valid = {"event"}
           /\ NewRecord(c, now).title # Untitled
           /\ Typed(NewRecord(c, now), EventTypes(c))
<1>1. /\ form[c] \in Forms /\ EventTypes(c) \in Seq(Texts)
      /\ Selected(form[c].sel, EventTypes(c))
  BY DEF AppIInv, ProgramInv, EventTypes
<1>2. form[c].title \in Titles /\ form[c].date \in Clock /\ form[c].time \in Clock
      /\ form[c].sel \in Nat
  BY <1>1 DEF Forms
<1>3. CASE EventTypes(c) = <<>>
  <2>1. TypeText(c) = Untyped
    BY <1>1, <1>3 DEF TypeText, Selected
  <2> QED BY <1>2, <1>3, <2>1, EnteredAssumption DEF NewRecord, Entered, Typed
<1>4. CASE EventTypes(c) # <<>>
  <2>1. form[c].sel \in DOMAIN EventTypes(c) /\ form[c].sel # 0
    BY <1>1, <1>4, LenProperties DEF Selected
  <2>2. TypeText(c) = EventTypes(c)[form[c].sel]
    BY <2>1 DEF TypeText
  <2>3. TypeText(c) \in Texts
    BY <1>1, <2>1, <2>2, ElementOfSeq, LenProperties
  <2>4. TypeText(c) \in ToSet(EventTypes(c))
    BY <2>1, <2>2 DEF ToSet
  <2> QED BY <1>2, <1>4, <2>3, <2>4, EnteredAssumption DEF NewRecord, Entered, Typed
<1> QED BY <1>3, <1>4

-----------------------------------------------------------------------------
(* Every step is one of the main dialog                                    *)

(* What the main dialog's own steps change.                                *)
LEMMA StepsOfDialog ==
    ASSUME AppIInv, AppNext
    PROVE  [Next]_vars
<1>1. CASE Rewrite
  BY <1>1 DEF Rewrite, vars
<1>2. ASSUME NEW c \in Clients,
             \/ InitMyComponents(c) \/ OpenEventDialog(c) \/ Edit(c) \/ OpenOther(c) \/ Close(c)
      PROVE  UNCHANGED vars
  BY <1>2 DEF InitMyComponents, OpenEventDialog, Edit, OpenOther, Close, vars
<1>3. ASSUME NEW c \in Clients, InitInstance(c) PROVE Next
  BY <1>3 DEF InitInstance, Next
<1>4. ASSUME NEW c \in Clients, Exit(c) PROVE [Next]_vars
  BY <1>4 DEF Exit, Next, vars
<1>5. ASSUME NEW c \in Clients, OnOK(c) PROVE Next
  <2>1. PICK now \in Clock : AddRecord(c, NewRecord(c, now), now)
    BY <1>5 DEF OnOK
  <2>2. NewRecord(c, now) \in {r \in Recs : r.valid = {"event"}}
    BY <1>5, NewRecordIsEntered DEF OnOK
  <2>3. OnBnClickedBtnAdd(c)
    BY <2>1, <2>2, ClockAssumption DEF OnBnClickedBtnAdd
  <2> QED BY <2>3 DEF Next
<1>6. ASSUME NEW c \in Clients, Handle(c) \/ AcknowledgeMessage(c) \/ PickItem(c) PROVE Next
  BY <1>6 DEF Handle, AcknowledgeMessage, PickItem, Next
<1> QED BY <1>1, <1>2, <1>3, <1>4, <1>5, <1>6 DEF AppNext

-----------------------------------------------------------------------------
(* The invariant                                                           *)

(* The invariant holds at the start.                                       *)
LEMMA AppInitEstablishes == AppInit => AppIInv
<1> SUFFICES ASSUME AppInit PROVE AppIInv
  OBVIOUS
<1>1. IInv
  BY InitEstablishes DEF AppInit
<1>2. ASSUME NEW c \in Clients PROVE ProgramInv(dlg[c], status[c], conf[c], form[c])
  <2>1. dlg[c].at = "closed" /\ conf[c] = Unread /\ form[c] = NoForm
    BY DEF AppInit, Init, Closed
  <2>2. conf[c].outcome # "accepted"
    BY <2>1 DEF Unread
  <2> QED BY <2>1, <2>2, NoFormIsForm DEF ProgramInv
<1> QED BY <1>1, <1>2 DEF AppInit, AppIInv

(* The program reads its configuration.                                    *)
LEMMA InitMyComponentsKeeps ==
    ASSUME AppIInv, IInv', NEW c \in Clients, InitMyComponents(c)
    PROVE  AppIInv'
<1>1. ProgramInv(dlg[c], status[c], conf[c], form[c])
  BY DEF AppIInv
<1>2. conf[c] = Unread
  BY DEF InitMyComponents, Config!Next, Config!Accept, Config!Refuse, Config!Unread, Unread
<1>3. dlg[c].at = "closed" /\ form[c].modal = "none" /\ form[c] \in Forms
  BY <1>1, <1>2 DEF ProgramInv, Unread
<1>4. PICK k \in {Config(c)!Refused} \cup
                    {[outcome |-> "accepted",
                      lists |-> [list \in Config(c)!Lists |->
                                   Config(c)!Listed(written.elements[list])]]} :
        conf' = [conf EXCEPT ![c] = k]
  BY DEF InitMyComponents
<1>5. k.outcome = "accepted" => k.lists["EventType"] \in Seq(Texts)
  <2>1. "EventType" \in Config(c)!Lists
    BY DEF Config!Lists
  <2>2. Config(c)!Listed(written.elements["EventType"]) \in Seq(Texts)
    BY FilesAssumption DEF AppIInv
  <2> QED BY <1>4, <2>1, <2>2 DEF Config!Refused
<1>6. conf'[c] = k /\ DOMAIN conf' = Clients /\ \A x \in Clients \ {c} : conf'[x] = conf[x]
  BY <1>4 DEF AppIInv
<1>7. UNCHANGED <<store, status, dlg, form, written>>
  BY DEF InitMyComponents, Config!Next, Config!Accept, Config!Refuse
<1>8. ProgramInv(dlg'[c], status'[c], conf'[c], form'[c])
  BY <1>3, <1>5, <1>6, <1>7 DEF ProgramInv
<1> QED BY <1>6, <1>7, <1>8, OneAppChanges DEF AppIInv

(* The program starts, or does not.                                        *)
LEMMA InitInstanceKeeps ==
    ASSUME AppIInv, IInv', NEW c \in Clients, InitInstance(c)
    PROVE  AppIInv'
<1>1. ProgramInv(dlg[c], status[c], conf[c], form[c]) /\ conf[c].outcome = "accepted"
  BY DEF AppIInv, InitInstance
<1>2. UNCHANGED <<written, conf, form>>
  BY DEF InitInstance
<1>3. dlg'[c].at = "loading"
      /\ \A x \in Clients \ {c} : dlg'[x] = dlg[x] /\ status'[x] = status[x]
  BY DEF InitInstance, OnInitDialog, Store!Call, Closed, AppIInv, IInv, TypeOK, Store!TypeOK
<1>4. ProgramInv(dlg'[c], status'[c], conf'[c], form'[c])
  BY <1>1, <1>2, <1>3 DEF ProgramInv
<1> QED BY <1>2, <1>3, <1>4, OneAppChanges DEF AppIInv

(* The program ends.                                                       *)
LEMMA ExitKeeps ==
    ASSUME AppIInv, IInv', NEW c \in Clients, Exit(c)
    PROVE  AppIInv'
<1>1. written' = written /\ conf'[c] = Unread /\ form'[c] = NoForm
      /\ DOMAIN conf' = Clients /\ DOMAIN form' = Clients
      /\ \A x \in Clients \ {c} : conf'[x] = conf[x] /\ form'[x] = form[x]
  BY DEF Exit, AppIInv
<1>2. dlg'[c].at = "closed"
      /\ \A x \in Clients \ {c} : dlg'[x] = dlg[x] /\ status'[x] = status[x]
  <2>1. CASE dlg[c].at = "closed"
    BY <2>1 DEF Exit
  <2>2. CASE Quit(c)
    BY <2>2 DEF Quit, Returns, Store!Leave, Closed, AppIInv, IInv, TypeOK, Store!TypeOK
  <2> QED BY <2>1, <2>2 DEF Exit
<1>3. ProgramInv(dlg'[c], status'[c], conf'[c], form'[c])
  BY <1>1, <1>2, NoFormIsForm DEF ProgramInv, Unread
<1> QED BY <1>1, <1>2, <1>3, OneAppChanges DEF AppIInv

(* A modal dialog is opened, edited or closed.                             *)
LEMMA DialogsKeep ==
    ASSUME AppIInv, IInv', NEW c \in Clients,
           OpenEventDialog(c) \/ Edit(c) \/ OpenOther(c) \/ Close(c)
    PROVE  AppIInv'
<1>1. ProgramInv(dlg[c], status[c], conf[c], form[c]) /\ form[c] \in Forms
  BY DEF AppIInv, ProgramInv
<1>2. UserTurn(c) => conf[c].outcome = "accepted"
  BY <1>1 DEF UserTurn, ProgramInv
<1>3. UNCHANGED <<store, status, dlg, written, conf>>
  BY DEF OpenEventDialog, Edit, OpenOther, Close
<1>4. CASE OpenEventDialog(c)
  <2>1. PICK now \in Clock :
          form' = [form EXCEPT ![c] = [modal |-> "event", title |-> Untitled,
                                       date |-> now, time |-> now,
                                       sel |-> IF EventTypes(c) = <<>> THEN 0 ELSE 1]]
    BY <1>4 DEF OpenEventDialog
  <2> DEFINE f == [modal |-> "event", title |-> Untitled, date |-> now, time |-> now,
                   sel |-> IF EventTypes(c) = <<>> THEN 0 ELSE 1]
  <2>2. f \in Forms /\ f.modal = "event" /\ f.sel = IF EventTypes(c) = <<>> THEN 0 ELSE 1
    BY DEF Forms
  <2>3. Selected(f.sel, EventTypes(c))
    <3>1. conf[c].outcome = "accepted" /\ EventTypes(c) \in Seq(Texts)
      BY <1>1, <1>2, <1>4 DEF OpenEventDialog, ProgramInv, EventTypes
    <3>2. EventTypes(c) # <<>> => 1 \in DOMAIN EventTypes(c)
      BY <3>1, EmptySeq, LenProperties
    <3> QED BY <2>2, <3>2 DEF Selected
  <2>4. conf[c].outcome = "accepted" /\ form' = [form EXCEPT ![c] = f]
    BY <1>2, <1>4, <2>1 DEF OpenEventDialog
  <2> HIDE DEF f
  <2> QED BY <1>3, <2>2, <2>3, <2>4, FormChanges
<1>5. CASE Edit(c)
  <2>1. PICK f \in Forms : /\ form' = [form EXCEPT ![c] = f] /\ f.modal = "event"
                           /\ f.sel = form[c].sel \/ f.sel \in DOMAIN EventTypes(c)
    <3>1. EventTypes(c) \in Seq(Texts) /\ DOMAIN EventTypes(c) \subseteq Nat
      BY <1>1, <1>5, LenProperties DEF Edit, ProgramInv, EventTypes
    <3>2. ASSUME NEW title \in Titles \cup {Untitled}, form' = [form EXCEPT ![c].title = title]
          PROVE  \E f \in Forms : /\ form' = [form EXCEPT ![c] = f] /\ f.modal = "event"
                                   /\ f.sel = form[c].sel
      <4> DEFINE f == [form[c] EXCEPT !.title = title]
      <4>1. f \in Forms
        BY <1>1, <1>5, <3>2 DEF Forms
      <4>2. form' = [form EXCEPT ![c] = f] /\ f.modal = "event" /\ f.sel = form[c].sel
        BY <1>1, <1>5, <3>2 DEF Edit, Forms
      <4> QED BY <4>1, <4>2
    <3>3. ASSUME NEW date \in Clock, form' = [form EXCEPT ![c].date = date]
          PROVE  \E f \in Forms : /\ form' = [form EXCEPT ![c] = f] /\ f.modal = "event"
                                   /\ f.sel = form[c].sel
      <4> DEFINE f == [form[c] EXCEPT !.date = date]
      <4>1. f \in Forms
        BY <1>1, <1>5, <3>3 DEF Forms
      <4>2. form' = [form EXCEPT ![c] = f] /\ f.modal = "event" /\ f.sel = form[c].sel
        BY <1>1, <1>5, <3>3 DEF Edit, Forms
      <4> QED BY <4>1, <4>2
    <3>4. ASSUME NEW time \in Clock, form' = [form EXCEPT ![c].time = time]
          PROVE  \E f \in Forms : /\ form' = [form EXCEPT ![c] = f] /\ f.modal = "event"
                                   /\ f.sel = form[c].sel
      <4> DEFINE f == [form[c] EXCEPT !.time = time]
      <4>1. f \in Forms
        BY <1>1, <1>5, <3>4 DEF Forms
      <4>2. form' = [form EXCEPT ![c] = f] /\ f.modal = "event" /\ f.sel = form[c].sel
        BY <1>1, <1>5, <3>4 DEF Edit, Forms
      <4> QED BY <4>1, <4>2
    <3>5. ASSUME NEW sel \in DOMAIN EventTypes(c), form' = [form EXCEPT ![c].sel = sel]
          PROVE  \E f \in Forms : /\ form' = [form EXCEPT ![c] = f] /\ f.modal = "event"
                                   /\ f.sel \in DOMAIN EventTypes(c)
      <4> DEFINE f == [form[c] EXCEPT !.sel = sel]
      <4>1. f \in Forms
        BY <1>1, <1>5, <3>1, <3>5 DEF Forms
      <4>2. form' = [form EXCEPT ![c] = f] /\ f.modal = "event" /\ f.sel \in DOMAIN EventTypes(c)
        BY <1>1, <1>5, <3>1, <3>5 DEF Edit, Forms
      <4> QED BY <4>1, <4>2
    <3> QED BY <1>5, <3>2, <3>3, <3>4, <3>5 DEF Edit
  <2>2. Selected(form[c].sel, EventTypes(c)) /\ conf[c].outcome = "accepted"
        /\ EventTypes(c) \in Seq(Texts)
    BY <1>1, <1>5 DEF Edit, ProgramInv, EventTypes
  <2>3. Selected(f.sel, EventTypes(c))
    BY <2>1, <2>2 DEF Selected
  <2> QED BY <1>3, <2>1, <2>2, <2>3, FormChanges
<1>6. CASE OpenOther(c)
  <2>1. PICK modal \in {"feedback", "effect", "about"} : form' = [form EXCEPT ![c].modal = modal]
    BY <1>6 DEF OpenOther
  <2> DEFINE f == [form[c] EXCEPT !.modal = modal]
  <2>2. f \in Forms /\ f.modal \notin {"none", "event"} /\ form' = [form EXCEPT ![c] = f]
    BY <1>1, <2>1 DEF Forms
  <2>3. conf[c].outcome = "accepted"
    BY <1>2, <1>6 DEF OpenOther
  <2> HIDE DEF f
  <2> QED BY <1>3, <2>2, <2>3, FormChanges
<1>7. CASE Close(c)
  BY <1>3, <1>7, NoFormIsForm, FormChanges DEF Close
<1> QED BY <1>4, <1>5, <1>6, <1>7

(* The event dialog hands over its record.                                 *)
LEMMA OnOKKeeps ==
    ASSUME AppIInv, IInv', NEW c \in Clients, OnOK(c)
    PROVE  AppIInv'
<1>1. PICK now \in Clock : AddRecord(c, NewRecord(c, now), now)
  BY DEF OnOK
<1>2. /\ NewRecord(c, now).title # Untitled
      /\ Typed(NewRecord(c, now), EventTypes(c))
  BY NewRecordIsEntered DEF OnOK
<1>3. /\ dlg'[c].at = "writing" /\ status'[c].rec = NewRecord(c, now)
      /\ \A x \in Clients \ {c} : dlg'[x] = dlg[x] /\ status'[x] = status[x]
  BY <1>1 DEF AddRecord, Store!Call, AppIInv, IInv, TypeOK, Store!TypeOK, Dialogs
<1>4. /\ form'[c] = NoForm /\ DOMAIN form' = Clients /\ UNCHANGED <<written, conf>>
      /\ \A x \in Clients \ {c} : form'[x] = form[x]
  BY DEF OnOK, AppIInv
<1>5. ProgramInv(dlg[c], status[c], conf[c], form[c]) /\ form[c].modal # "none"
  BY DEF AppIInv, OnOK
<1>6. ProgramInv(dlg'[c], status'[c], conf'[c], form'[c])
  BY <1>2, <1>3, <1>4, <1>5, NoFormIsForm DEF ProgramInv, EventTypes
<1> QED BY <1>3, <1>4, <1>6, OneAppChanges DEF AppIInv

(* A handler of the main dialog goes on.                                   *)
LEMMA HandleKeeps ==
    ASSUME AppIInv, IInv', NEW c \in Clients,
           Handle(c) \/ AcknowledgeMessage(c) \/ PickItem(c)
    PROVE  AppIInv'
<1>1. /\ \A x \in Clients \ {c} : dlg'[x] = dlg[x] /\ status'[x] = status[x]
      /\ dlg'[c].at # "closed" => dlg[c].at # "closed"
      /\ dlg'[c].at = "writing" =>
           dlg[c].at = "writing" /\ status'[c].rec = status[c].rec
  BY HandlerOfOne DEF Handle, AcknowledgeMessage, PickItem, AppIInv
<1>2. UNCHANGED <<written, conf, form>>
  BY DEF Handle, AcknowledgeMessage, PickItem
<1>3. ProgramInv(dlg[c], status[c], conf[c], form[c])
  BY DEF AppIInv
<1>4. ProgramInv(dlg'[c], status'[c], conf'[c], form'[c])
  BY <1>1, <1>2, <1>3 DEF ProgramInv
<1> QED BY <1>1, <1>2, <1>4, OneAppChanges DEF AppIInv

(* Every step keeps the invariant.                                         *)
LEMMA AppNextKeeps == AppIInv /\ [AppNext]_app => AppIInv'
<1> SUFFICES ASSUME AppIInv, [AppNext]_app PROVE AppIInv'
  OBVIOUS
<1>1. [Next]_vars
  BY StepsOfDialog DEF app, vars
<1>2. IInv'
  BY <1>1, NextKeeps DEF AppIInv
<1>3. CASE UNCHANGED app
  BY <1>2, <1>3 DEF app, AppIInv
<1>4. CASE Rewrite
  BY <1>2, <1>4 DEF Rewrite, AppIInv
<1>5. ASSUME NEW c \in Clients, InitMyComponents(c) PROVE AppIInv'
  BY <1>2, <1>5, InitMyComponentsKeeps
<1>6. ASSUME NEW c \in Clients, InitInstance(c) PROVE AppIInv'
  BY <1>2, <1>6, InitInstanceKeeps
<1>7. ASSUME NEW c \in Clients, Exit(c) PROVE AppIInv'
  BY <1>2, <1>7, ExitKeeps
<1>8. ASSUME NEW c \in Clients, OpenEventDialog(c) \/ Edit(c) \/ OpenOther(c) \/ Close(c)
      PROVE  AppIInv'
  BY <1>2, <1>8, DialogsKeep
<1>9. ASSUME NEW c \in Clients, OnOK(c) PROVE AppIInv'
  BY <1>2, <1>9, OnOKKeeps
<1>10. ASSUME NEW c \in Clients, Handle(c) \/ AcknowledgeMessage(c) \/ PickItem(c)
       PROVE  AppIInv'
  BY <1>2, <1>10, HandleKeeps
<1> QED BY <1>3, <1>4, <1>5, <1>6, <1>7, <1>8, <1>9, <1>10 DEF AppNext

-----------------------------------------------------------------------------
(* Theorems                                                                *)

(* The invariant of the whole program, on which the others rest.           *)
THEOREM AppInvariance == AppSpec => []AppIInv
BY AppInitEstablishes, AppNextKeeps, PTL DEF AppSpec

(* The whole program implements the main dialog of iLorrieDlg.tla: nothing *)
(* the configuration or a modal dialog does breaks the rules of its        *)
(* handlers, and OnOK only hands them records they expect.                 *)
THEOREM IsMainDialog == AppSpec => MainDialog
<1>1. AppInit => Init
  BY DEF AppInit
<1>2. AppIInv /\ [AppNext]_app => [Next]_vars
  BY StepsOfDialog DEF app, vars
<1> QED BY <1>1, <1>2, AppInvariance, PTL DEF AppSpec, MainDialog, Spec

(* A window is open only under a whole configuration, and the event dialog *)
(* has a type selected if the configuration has any.                       *)
THEOREM AlwaysConfigured == AppSpec => []Configured
<1>1. AppIInv => Configured
  <2> SUFFICES ASSUME AppIInv, NEW c \in Clients
               PROVE  /\ form[c] \in Forms
                      /\ dlg[c].at # "closed" => conf[c].outcome = "accepted"
                      /\ form[c].modal = "event" =>
                           IF EventTypes(c) = <<>> THEN form[c].sel = 0
                                                   ELSE form[c].sel \in DOMAIN EventTypes(c)
    BY DEF Configured
  <2> QED BY DEF AppIInv, ProgramInv, Selected, EventTypes
<1> QED BY <1>1, AppInvariance, PTL

(* A record enters the database only by the write of a program whose user  *)
(* gave it a title and whose configuration has its type.                   *)
THEOREM AlwaysEntered == AppSpec => AddedIsEntered
<1> DEFINE Added == \A r \in store' \ store : \E c \in Clients :
                      /\ status[c].rec = r
                      /\ r.title # Untitled
                      /\ IF EventTypes(c) = <<>> THEN r.type = Untyped
                                                 ELSE r.type \in ToSet(EventTypes(c))
<1>1. AppIInv /\ [AppNext]_app => [Added]_app
  <2> SUFFICES ASSUME AppIInv, AppNext, NEW r \in store' \ store
               PROVE  \E c \in Clients : /\ status[c].rec = r
                                         /\ r.title # Untitled
                                         /\ Typed(r, EventTypes(c))
    BY DEF Typed
  <2>1. PICK c \in Clients : Store!Insert(c)
    <3>1. PICK c \in Clients : store' # store /\ Handle(c)
      BY DEF AppNext, Rewrite, InitMyComponents, InitInstance, Exit, OpenEventDialog, Edit,
             OnOK, OpenOther, Close, PickItem, AcknowledgeMessage, OnInitDialog, Quit,
             Returns, AddRecord, Pick, Acknowledge, Store!Call, Store!Leave
    <3>2. Database(c)
      BY <3>1 DEF Handle, BriefsRead, LoadBreifInfo, InitBreifCmb, OnCbnSelchangeCmbQuery,
                  RecordRead, RecordWritten, Returns, Store!Leave, Store!Call
    <3> QED BY <3>1, <3>2 DEF Database, Store!Fail, Store!Read
  <2>2. r = status[c].rec /\ status[c].op = "write"
    BY <2>1 DEF Store!Insert
  <2>3. dlg[c].at = "writing"
    BY <2>2 DEF AppIInv, IInv, DialogInv, CallInv, Waiting, Store!Idle
  <2> QED BY <2>2, <2>3 DEF AppIInv, ProgramInv, EventTypes
<1>2. AppSpec => [][Added]_app
  BY <1>1, AppInvariance, PTL DEF AppSpec
<1> QED BY <1>2 DEF AddedIsEntered
=============================================================================
