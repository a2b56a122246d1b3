# iLorrie: verification project

iLorrie is a small Windows (MFC) program in which a couple keeps records of
events, of one person's feedback on them and of the effect of that feedback.
A record is written to an SQLite file of four tables; a dialog lists the
records, shows one and adds new ones. This directory holds TLA+ modules of the
program, the TLC configurations that check them and TLAPS proofs about them.

    tlasany M.tla                             parse a module
    tlc -config db_store.cfg MCDBInterface    run a check
    tlapm DBInterfaceProofs.tla               check the proofs of a module

## Inventory

| Component | Source | State | Operations |
|---|---|---|---|
| Record database interface `CDBInterface` | `src/DBserverLib/DBInterface.cpp` | the name of the database file; each call opens a connection of its own | `WriteRecord`, `ReadRecord`, `DelRecord`, `ReadAllRecordTime`, `ReadAllRecordAbstract` |
| Schema | `src/Exe/Data/RecordDB.db3` | tables RECORD (index by AUTOINCREMENT, unique `create_time`), EVENT (unique `event_time`), FEEDBACK, EFFECT | the SQL of `DBInterface.cpp` |
| SQLite | only `sqlite3.h` is here | the file, its journal and locks | external |
| Time strings `CStringTimeConvert` | `src/DBserverLib/StringTimeConvert.cpp` | none | `_StringToTime`, `_TimeToString` |
| Records in memory `CRecordMgr`, `CBriefInfo`, `CRecord` | `src/RecordInfoLib/RecordData.cpp` | `m_vecRecords` (records loaded so far), `m_vecBriefs` (creation time and title of all) | `AddRecordToEnd`, `GetRecordByTime`, `AddBriefAsc`, valid flags |
| Main dialog `CiLorrieDlg` | `src/iLorrie/iLorrieDlg.cpp` | combo box of records, `m_pCurRcd`, text boxes | `OnInitDialog`, `OnCbnSelchangeCmbQuery`, `OnBnClickedBtnAdd`, the four `Desc` functions |
| Event dialog `CDlgEvent` | `src/iLorrie/DlgEvent.cpp` | its controls | `InitCreateControls`, `OnOK`, `CheckInputValid` |
| Feedback and effect dialogs, About box | `src/iLorrie/Dlg*.cpp`, `AboutDlg.cpp` | none | open and close |
| Application `CiLorrieApp` | `src/iLorrie/iLorrie.cpp` | none | `InitInstance`, `InitMyComponents` |
| Configuration `CConfigData`, `CConfigReader` | `src/ConfigReaderLib/ConfigData.cpp` | four lists of choices, `m_bInitialized` | `Initialize`, `ReadRecordSetting`, the lists |
| TinyXML (vendored) | `src/ExternalSources/Xml` | the tree of nodes, the error flag | `LoadFile`, the `Parse` functions, navigation |
| Test program | `src/TestProject/test.cpp` | none | lists the creation times |
| glog (vendored) | `src/GlogLib` | | nothing of the program calls it |

**How they interact.** The application names the database and reads the
configuration through TinyXML, then runs the main dialog. The dialog lists the
briefs once at the start, loads a record from the database when it is first
selected, and opens the modal event dialog, whose record it writes before it
adds it to memory and to the combo box. Every database call opens the file, runs
its statements and closes it; times go in and out as text. The program has one
thread, but nothing stops a second one from being started on the same file
(there is no single-instance guard, and the test program reads it too), so
database calls of several processes interleave statement by statement.

**What is hard.**
- A record is four rows in four tables. Writes and deletes rely on one
  transaction; a chain of `bResult` conditions decides between commit and
  rollback. Reads have no transaction at all.
- `begin transaction` is deferred and no busy handler is set: a statement that
  meets another connection's lock fails at once, a failed commit keeps its lock,
  and only `sqlite3_close` puts things right.
- A failed select counts as "no such row" in `HasRecordTimeExisted` and
  `HasIndexExisted`; "no such row" counts as success in the reading functions.
- The program may die between any two statements, or after a commit.
- Memory, the combo box and the text boxes are never refreshed from the
  database; the briefs are in order of time and the combo box in order of
  addition; `m_pCurRcd` points into a vector that moves when it grows; the clock
  that dates records may stand still or be set back.
- The configuration file may be cut or ill formed anywhere; the parser's functions
  return early at many places, not always with an error, and `m_bInitialized` is
  set before anything has been read.
- `mktime` is told that daylight saving time is never in use, so a time within it
  is listed an hour late, and what the program then asks the database for is the
  text of another time.
- When something fails, a handler ends in a modal message box, which waits for the
  user.

What makes each component correct: the database interface promises that a call
changes a set of whole records in one instant or not at all (`RecordStore.tla`);
the dialog that what it remembers is what the database has, and that the current
record, the selected item and the boxes belong together; the configuration that it
is known as it was written or refused (`Configuration.tla`); the parser that its
tree is one; the time strings that a time comes back as it was written (outside of
daylight saving time), and that of a text no piece is lost; the application that
no window opens without a configuration and nothing is added that was not entered.

## Modules

| Module | Models |
|---|---|
| `RecordStore.tla` | the abstract promise of the database: a set of whole records, one indivisible step per call |
| `Sqlite3.tla` | SQLite as it is used: file, uncommitted work of the one writer, a lock per connection |
| `DBInterface.tla` | `CDBInterface`, statement by statement; EXTENDS `Sqlite3`, implements `RecordStore` (`StoreSpec`) |
| `StringTimeConvert.tla` | `CStringTimeConvert`, with a calendar and a time zone |
| `Configuration.tla` | the abstract promise of the configuration |
| `XmlText.tla` | the text of a file, which texts are well formed, and what each element of one contains |
| `TinyXml.tla` | the reading half of TinyXML; EXTENDS `XmlText` |
| `ConfigData.tla` | `CConfigData` and `CConfigReader` on the parser's tree; EXTENDS `TinyXml`, implements `Configuration` (`WholeOrRefused`) |
| `iLorrieDlg.tla` | the main dialog with `CRecordMgr`, several programs on one `RecordStore` (INSTANCE) |
| `iLorrie.tla` | the whole program: the start, the event dialog and the other dialogs around the main dialog; EXTENDS `iLorrieDlg`, reads a `Configuration` (INSTANCE) for each program, implements the main dialog (`MainDialog`) |
| `MC*.tla` | the instances TLC checks |
| `DBInterfaceProofs`, `DBAnswerProofs`, `StringTimeConvertProofs`, `TinyXmlProofs`, `ConfigDataProofs`, `iLorrieDlgProofs`, `iLorrieProofs` | the theorems |
| `DataLemmas` | lemmas about numbers, sets and recursive functions that several of these need |

So the system is composed in two layers: `DBInterface` and `ConfigData` are
shown to implement `RecordStore` and `Configuration`, and the dialogs are built on
these two.

**DBInterface.** `call[c]` is the stack of the call program `c` makes: `pc` the
next step, `ok` is `bResult`, `idx` is `strIndex`, `got` what `ReadRecord` has
collected. `Enter` is `sqlite3_open` with `begin transaction` (which takes no
lock); then each function is an action named after it. `WriteRecInfoByDateTime` is
split in two because the select of `HasRecordTimeExisted` is made before the write
lock is held; from the first insert or update on the program holds RESERVED, so
the following select and its statement are one action. `DelRecInfoByDateTime` is
split for the same reason (`DelReadIndex`). `CommitTransaction`,
`RollbackTransaction` and `CloseDB` are the common end of `WriteRecord` and
`DelRecord`. `ReadRecord` is five selects, an action each, because between them
nothing is locked. `known[c]` is what program `c` has been told is stored, by a
listing or by its own successful write; `ReadRecord` is called for such times
only, as the dialog does. The programs have a time as a `time_t` (`Instants`), the
database has it as a text (`Times`): a select looks for what `_TimeToString` makes
of an instant (`key`), and a listing hands out what `_StringToTime` makes of a
text. `TimeToString` and `StringToTime` are constants of which only the types are
assumed, so a time may come back as another one. A row is the record it was written
from, so each table maps an index to a record, and a torn record shows as tables that
disagree. A record has an `id` (its texts), two times, and `bad`: the tables whose
SQL its text breaks (the texts are put between apostrophes without escaping).
`Faults` names what may go wrong without a reason the model sees: opening,
selecting, executing, committing, rolling back, dying. Lock conflicts are not in
it: they follow from the locks.

**StringTimeConvert.** A text is a sequence of pieces, each a number or nothing
and the separator after it. `Separate` is one turn of the loop of
`_StringToTime`, which looks for the next dash, without one for the next space,
without one for the next colon; `Convert` is the rest. `localtime` and `mktime`
are those of the C library for a given calendar (`DateOf`), offset and set of
times of daylight saving time.

**TinyXml and ConfigData.** A file is a sequence of lexemes (`"<Name"`, an
attribute, a text, ...); what the end of the file leaves of one is a lexeme, too.
`pos` is the pointer `p` that the `Parse` functions pass on, `frames` the stack of
the calls of `Parse` for the document and the elements being read, `nodes` the
tree with its five pointers per node. A call of `Parse` for a node without
children is one action; an element begins (`Element`), reads its attributes and
content, and is linked when its `Parse` returns, after the nodes below it.
`BeyondTheEnd` and `AttributeBeyond` are undefined behaviour: in a comment, CDATA
or quoted value without an end, `ReadText` moves its pointer behind the zero byte,
and the parser goes on in what is there (`Memory`, and `MemoryInTag` for a value).
For a value the next byte decides: if it is zero, too, the element ends with an
error, else the attribute is one like any other. An end tag with white space
before its `>` is well formed in XML but not for TinyXML (`closeother`).
`ConfigData` runs the parser in `Initialize` and then reads the four lists, one
function an action, from the tree the parser left. What it should find there is
said without a parser: `WellFormed` (`XmlText`) gives for each lexeme the element
it is in, `Reads` the elements that a well-formed text has for each list, and a
file of `Files` that is `sound` is well formed and reads as it was written. A file
that is not may be cut, ill formed or unreadable; it is `Spoiled` if it departs
from the well-formed text that was written anywhere, because it ends there or has
a mistake there (`Departs`).

**iLorrieDlg.** `dlg[c]` is a program's memory: briefs, records, the creation
times bound to the combo items, the selected item, the position of `m_pCurRcd` and
how many records there were when it was taken (a pointer into a vector is good
until the vector grows), and what each text box shows. Times in memory are
instants, and go through `StringToTime` when they are listed and through
`TimeToString` when they are asked for. A record in memory (`Loaded`) has the
creation time it was asked for; if there is no such row it is `Blank`. A handler
that calls the database waits (`loading`, `reading`, `writing`) while the call, an
action of `RecordStore`, takes effect; when the call fails it ends in the message
box of `ShowMsgBox` (`message`), until the user closes it (`Acknowledge`);
`LoadBreifInfo` adds the briefs one by one, in any order, for the table has none.
`RecordShown` includes the four `Desc` functions with their valid flags. `Quit`
closes a program or kills it inside a handler. No handler deletes, so none does
here.

**iLorrie.** `conf[c]` is what program `c` has read of the file `written`, which
may be rewritten at any time (`Rewrite`); `form[c]` is the modal dialog that is
open, with the controls of `CDlgEvent`. `OnOK` checks the title, builds the
record with the time of the clock and the day of one picker with the time of the
other, and starts the write. While a modal dialog is open the main dialog gets
nothing from the user (`UserTurn`).

## Runs

| Run | Shows | States |
|---|---|---|
| `db_store` | two programs, all operations, all faults: `RecordsWhole`, `LocksReleased`, `SectionsOfOneRecord`, `StoreSpec`, `TypeOK` | 865 000 |
| `db_reasons` | without faults a call fails only for a reason: `FailsForAReason` | 1 747 000 |
| `db_reads` | without deletions, known times are those of stored records, and reading is exact but for a time that a listing has wrong: `KnownIsStored`, `ReadReturnsStored` | 693 000 |
| `db_returns` | every call returns: `CallsReturn`, under `FairSpec` | 223 000 |
| `db_update` | violation of `ExistingRecordIsUpdated` | |
| `db_torn` | violation of `WholeRecordIsRead` | |
| `times` | `RoundTrip`, `FoundAgain`, `NoPieceSkipped`, `FormatsAgree`, `TypeOK` | 3 600 |
| `config` | `WholeOrRefused` (a refinement), `InitializeEnds` (liveness), `ParserAdvances`, `ChildrenLinked`, `TypeOK` | 87 000 |
| `dlg_memory` | two programs: `MemoryIsStored`, `NothingTwice`, `ShownIsSelected`, `CurrentIsLive`, `BriefsAscend`, `TypeOK` | 4 943 000 |
| `dlg_briefs` | violation of `BriefsAreAll` | |
| `dlg_boxes` | violation of `BoxesShowCurrent` | |
| `app` | the whole program: `MainDialog` (a refinement), `Configured`, `AddedIsEntered`, `HandlersEnd` (liveness) | 494 000 |

**Bounds.**
- Database: two programs, for a conflict of locks or a stale answer needs two, and
  the theorems below hold for any number. Two indices (`MaxIndex`) let a record be
  deleted and replaced and the AUTOINCREMENT counter run out; three in
  `db_reasons`, where running out is itself a reason and should not hide others.
  Four records: pairs with the same creation time, with the same event time, with
  nothing in common, and one whose last insert does not parse. Three hours of the
  night in which daylight saving time ends, two of them with one text: the first is
  listed as the second. `db_store`, whose properties are about texts, has two hours
  outside of daylight saving time to stay small.
- `dlg_memory`: two programs, three texts of creation times, so that a brief goes
  between two others, two records of one second, and four hours of the night in
  which daylight saving time ends, so that a listed time finds nothing, or another
  record. A blank record is not found again in memory, so that each selection of
  its item adds one more: `MaxBlanks` (one) stops the user from going on. `app`:
  one program (that several do not disturb one another is shown by `dlg_memory`
  and proved), two types, a configuration with none, and one that may be refused;
  two moments on each of two days, so that the pickers mix them.
- `config`: configurations of up to two elements a list, with blank texts and
  missing lists, in two layouts (that of `Exe/Config/ConfigSetting.xml`, and one
  without white space, with attributes, CDATA and sections in another order), each
  whole, cut behind or within any lexeme, or ill formed: an attribute twice (the
  second one complete or cut), a tag without its end, an end tag of another name, with
  white space or one too many, a text outside of the elements. `Covered`
  (`MCConfigData`) says that these are the files of the theorem. Behind a text that is
  read on there may be white space, a text or a lone `<`, and behind a cut value also
  the end of the tag, with or without another attribute.
- `times`: Central Europe in 2012, around both changes of the clock, the leap day,
  the new year and the first day there is; and any text of up to four pieces.

Runs with several programs use symmetry between them, except `db_returns`, which
checks liveness. Deadlock is checked in every run but two: `config` and `times`
end when the file or the text has been read.

**Fairness.** `FairSpec` of `DBInterface` assumes only that a program inside a
call goes on (`WF` of each program's `Step`): calls are synchronous, and no
statement waits for another connection. `AppSpec` assumes `WF` of `InitInstance`
and of `Handle`: the handlers run in the program's only thread, and the database
calls they make return, which is `CallsReturn`. Closing a message box
(`AcknowledgeMessage`) is the user's and has no fairness: `HandlersEnd` says that a
handler comes to its end or to its message.
`ConfSpec` assumes `WF` of `ConfNext`: `Initialize` runs before any window opens.
Users are not assumed to do anything, faults are not assumed to happen or to stop.

**Disagreements with the documentation.**
1. `DBInterface.cpp:398` says that `WriteRecord` updates a record whose creation
   time exists. The update statements of EVENT (line 583) and FEEDBACK (619) lack
   a quote, so such a call always fails (`db_update`). It leaves the old record
   untouched, which `RecordsWhole` and `StoreSpec` confirm.
2. `DBInterface.cpp:93` says that `ReadRecord` reads the whole record. A deletion
   between two of its selects makes it return true with blank parts (`db_torn`).
   `SectionsOfOneRecord` is what remains true: the event, the feedback and the effect
   are never of two records, because indices are never reused; the RECORD part, of the
   first select, may be of another record that had this time. The program itself does
   not call `DelRecord` yet, and `ReadReturnsStored` shows that without it reads are
   exact for every time that no listing has wrong.
3. `RecordData.h:180` says that the briefs are those of all records. When the
   listing at the start fails, the dialog opens all the same and they are not
   (`dlg_briefs`, with a single program).
4. `iLorrieDlg.cpp:338` says that the controls are made to show the record.
   `EffectDesc` writes into the box of the feedback, and `FeedbackDesc` clears the
   box of the effect (`dlg_boxes`). `ShownIsSelected` is what remains true: when a
   handler ends with a current record, the creation time and the event shown are
   those of the selected record (or blank, for a time a listing has wrong).

Two more things a user would call errors. No document says otherwise, so they are
not listed above.
- A time within daylight saving time comes back an hour late (`RoundTrip`), and its
  record is not found again unless it is of the last hour (`FoundAgain`). So when the
  program has been started anew, selecting such a record shows another one, if one was
  created an hour later, and else a blank one, though `ReadRecord` returned true; each
  selection that shows a blank one adds one more to memory. The properties of the
  database and of the dialog have this as their exception (`Misheard`): what they say
  is that nothing else makes memory, selection and database differ.
- When `ReadRecord` fails (another program is committing), the new item is selected
  and the boxes go on showing the record before it. `ShownIsSelected` is about handlers
  that end with a current record and says nothing of this.

Mutants: each property of a passing run names a plausible bug (a definition
marked "A bug that could be made here") with which it is violated.

## Proofs

Every theorem holds for every value of the constants under the named
assumptions of the modules. These say what the constants are (records have
times, files are sequences of lexemes, texts end where they end, no text that is
listed is blank, days have different dates); three say more. `EnteredAssumption`
(`iLorrie`): what can be entered is among the records. `FilesAssumption`
(`iLorrie`): the types a file lists are among the types. `FilesAssumption`
(`ConfigData`): a file that is called sound is there as it was written, is well
formed, and its elements are those that were written. TLC evaluates all of them on the
instances. One theorem, `ReadAsPromised`, has hypotheses of its own: the file is sound
or `Spoiled`, and for a spoiled one `IdleMemory` if its text ends
in a comment, CDATA or a quoted value (`Overruns`): what follows such a text in memory
contains no part of a tag. What is read there is undefined, and the code does
nothing to rule parts of a tag out: with the rest of the file, or another one,
behind it, a cut file could be accepted with other lists. For every other cut file
nothing is assumed.

| Module | Theorem | |
|---|---|---|
| `DBInterfaceProofs` | `TypeCorrect`, `AlwaysWhole`, `AlwaysReleased` | `TypeOK`, `RecordsWhole`, `LocksReleased` |
| | `Implementation` | `StoreSpec`, the refinement |
| | `KeysStayDistinct` | no two stored records share a creation or an event time |
| `DBAnswerProofs` | `AlwaysOneRecord` | `SectionsOfOneRecord` |
| | `KnownStaysStored`, `AlwaysReadsStored` | `KnownIsStored`, `ReadReturnsStored`, if nobody deletes, whatever the conversions of times do |
| | `AlwaysForAReason` | `FailsForAReason`, if no select, statement or commit fails of itself |
| `StringTimeConvertProofs` | `TypeCorrect`, `NeverSkipped`, `AlwaysAgree`, `AlwaysReadBack`, `AlwaysFound` | `TypeOK`, `NoPieceSkipped`, `FormatsAgree`, `RoundTrip`, `FoundAgain` |
| `ConfigDataProofs` | `AlwaysTyped`, `AlwaysLinked` | `TypeOK`, `ChildrenLinked` |
| | `AlwaysAdvances` | `ParserAdvances` |
| | `ReadAsPromised` | `WholeOrRefused`, for every file that is sound or departs from a well-formed text; one that ends in a comment, CDATA or a quoted value, if no part of a tag follows it in memory |
| `iLorrieDlgProofs` | `TypeCorrect`, `AlwaysStored`, `NeverTwice`, `AlwaysSelected`, `AlwaysLive`, `AlwaysAscending` | the six properties of `dlg_memory` |
| `iLorrieProofs` | `IsMainDialog`, `AlwaysConfigured`, `AlwaysEntered` | `MainDialog`, `Configured`, `AddedIsEntered` |

None of the invariants is inductive. Each component has one that is, from which
the others follow.

**DBInterface: `IInv`.** That the tables agree after a commit depends on how far
the transaction had got. `IInv` is the conjunction of `TypeOK`; `KeyInv` (a
call looks for the text of its time); `FileInv` (the
committed tables agree, indices beyond the counter are free, keys are unique);
`WorkInv` (one writer at most, and uncommitted work is its own); and for each
program `CallInv`: which steps its operation can be at (`OpInv`), which lock it
holds there (`LockInv`), what its SHARED lock keeps true of the answers it was
given (`AnswerInv`), and that the uncommitted tables are the committed ones with
one row put or cleared in the tables reached so far (`ProgressInv`). A lemma
`...Keeps` per action proves that it keeps `IInv`; the lemmas on rows
(`InsertRow`, `ClearRow`, ...) say what each statement does. The refinement then
has two interesting steps: a commit of a finished insertion adds one whole record
(`InsertedStored`), and one of a finished deletion removes exactly those of its
time (`DeletedStored`); every other step stutters or fails.

**Reads.** A read holds no lock between its selects, so nothing about it can rest
on locks. `RowsStay` says what every step of any program does to a committed row:
it stays or is deleted, and a new row has a new index. `SectionsInv` follows
what a read has collected along that: an index once used is never that of
another record. Without deletions `StoredInv` and `WholeInv` strengthen this to
what is stored; for a time that a listing has wrong, to nothing or what was added
since the first select (`ReadsAmiss`).

**Failures.** `AlwaysForAReason` shows from `IInv` that a call which is alone in
the file sees the committed tables but for the one row it writes, so that what a
statement refuses is in a stored record; an update, whose statements do not parse,
is one of a creation time that is stored (`Updating`).

**Time strings: `IInv`.** The numbers found so far are those of the pieces passed,
if the separators come in their order. `NextSeparator` says that then the search
finds the very next one.

**The parser: `XmlInv`.** While an element is read, its own node is not linked
yet, but younger nodes are. `FramesInv` says that these are all below it, so it
still becomes the last child of its parent; `Chained` is `ChildrenLinked` with
that order. `LinkEndChild` keeps it (`LinkKeeps` and its neighbours), whichever
`Parse` returns how early. From it follows what `FirstChildElement` and
`NextSiblingElement` find (`WalkFinds`): the first child, or the next sibling, of
the name.

**The configuration: `WholeIInv`.** That a sound file is read as it was written takes
three arguments. `TreeTracks` and `CallTracks` say of every place in the text what the
parser has made of what is before it: each lexeme that makes a node has made
exactly one, in order, under the node of the element it is in, and the calls of
`Parse` that wait are those of the elements that are open there (`ParseTracks`); so
at the end the tree is the text (`ParseReads`). `ElementPlaces`, `FirstChildPlace` and
`TextPlace` then say that an element or a text which the walk through the tree
finds is the one `XmlText` speaks of. And `TextsAreListed`, by
induction along the siblings, that the recursion of `TextsFrom` on the
tree and that of `Listed` on the elements as they were written give the same list.
The step that accepts is then `Accept` of `Configuration`, and one that refuses has
seen a list without an element (`WholeReads`).

A spoiled file must be read whole all the same or refused. `Leaving` follows the
parser up to the place `c` where the text departs from the whole one, and beyond.
Before `c` all is as in the whole text (`Reading`, `Arrived`). From `c` on the parser
adds no element (`ArrivedLeaves`): no element begins there, or the text ends
in a tag, which is an error (`InLastTag`), or the call on top returns NULL (`Returned`).
A call may return NULL without an error, at the zero byte or for an attribute that
is there twice; but its caller, if it is not the document, then reports one. So if
there is no error, `c` is in the content of the root element or outside of it
(`Over`), and what the tree has of record settings is complete. The tree is that of
a text without an element from `c` on, and the lists in that are those of the whole
text (`ReadsAlike`).

**The parser goes forward.** `Progress` counts two for a lexeme and takes one back
for a call that waits, so an element, which passes a lexeme and begins a call, counts
as much as a return. `ParseAdvances` shows that every step adds to it. It is the
part of `InitializeEnds` that needs no fairness: `Progress` is bounded by the length of
the text and of what is read behind it.

**Induction.** The library's induction theorems cannot be instantiated here, so
`DataLemmas` proves induction for sets of numbers from the well-ordering of these
(`SetInduction`), and from it that a recursive function exists (`Recursion`): a
definition like that of `TextsFrom` chooses a function that satisfies its
equation, and satisfies it only if there is one.

**The dialog: `IInv`.** `DialogInv` says of one program's memory what its handler
knows while it waits: which record is selected and not loaded, that what was
read belongs to it or its time was told wrong (`MisheardOf`), and that a record it has written is in nobody's memory yet
(`WrittenInv`). Records of other programs only add to the database, so what a
program knows stays true (`StoredInv`).

**The program: `AppIInv`.** It joins the dialog's invariant with what the
configuration and the form of a program have to do with it (`ProgramInv`). As
`IsMainDialog` is a refinement, the theorems about the dialog hold of the program.

TLC, too, finds these invariants to hold on the instances of the runs, but for
`WholeIInv`, which speaks of functions from the nodes to the text that TLC cannot
enumerate, and for the part of `ConfIInv` that says that the file is one of `Files`.

**Only model-checked:** liveness (`CallsReturn`, `HandlersEnd`,
`InitializeEnds`), for fairness and ENABLED are beyond the prover. The violations
are traces that TLC finds.

## Not modelled

- glog: a vendored library that nothing in the program calls (`iLorrie.cpp:66` is
  commented out), with its own tests.
- TinyXML beyond reading a file and looking at the tree: its functions that
  change, copy, print or stream a tree are not used by the program. Characters,
  entities, encodings, and the values of attributes are data that no list depends
  on. The bytes behind the text in `BeyondTheEnd` and `AttributeBeyond` are bounded by
  `Memory` and `MemoryInTag`.
- SQLite: only its header is in the repository, the declarations of an external
  library. Pages, the SQL language and the API stay outside; the locks and
  transactions are modelled from how `DBInterface.cpp` uses them.
- These three libraries are nine tenths of the repository's lines, so the
  mapped share of all lines is small; of the program's own sources nearly all that
  changes state is modelled.
- Handlers that do nothing or cannot be reached: `OnBnClickedBtnDel` is empty,
  `OnBnClickedBtnEvent` declares a function, `InitUpdateControls` and
  `InitEventDetail` serve a use of the event dialog that no handler makes, the
  clearing of the lists of `CRecordMgr` is never called. Painting and icons.
- Texts: titles and details are values. Their lengths matter only for
  `szSql[1024]`, where `sprintf_s` ends the program: covered as a crash.
- The handle that the listings do not close when `sqlite3_open` fails: it holds
  no lock, and memory is not modelled.

## Plan

Done: every part of the plan of modules, their runs, and the proofs of all
safety properties and action properties. Liveness stays with TLC. Left, should the
program come to call `DelRecord`: the deletions in the dialog.
