------------------------- MODULE StringTimeConvert -------------------------
(***************************************************************************)
(* CStringTimeConvert (DBserverLib/StringTimeConvert.cpp): the database    *)
(* keeps times as local time in text; _TimeToString writes it, and         *)
(* _StringToTime, whose loop is modelled step by step, reads it.           *)
(*                                                                         *)
(* A text is a sequence of pieces: a number, or nothing, and what follows  *)
(* it, which is a separator or the end. localtime and mktime, the calendar *)
(* and the time zone belong to the C library and the system.               *)
(***************************************************************************)
EXTENDS Integers, Sequences, FiniteSetsExt

CONSTANTS Instants,      \* the times that are written, in seconds since 1970
          OtherTexts,    \* texts from elsewhere: sequences of pieces
          Days,          \* the days they are on, counted from 1970 on
          DateOf,        \* the year, month and day of each
          Offset,        \* seconds from UTC to standard time
          SummerTime     \* the times of daylight saving time

Nothing == -1
Pieces == [number : Nat \cup {Nothing}, then : {"dash", "space", "colon", "end"}]

Hour == 3600
Day == 86400

ShownAt(t) == t + Offset + (IF t \in SummerTime THEN Hour ELSE 0)

ASSUME CalendarAssumption ==
    /\ Offset \in Int
    /\ Days \subseteq Int
    /\ DateOf \in [Days -> [year : Nat, month : 1 .. 12, day : 1 .. 31]]
    /\ \A a, b \in Days : DateOf[a] = DateOf[b] => a = b

ASSUME InstantsAssumption ==
    /\ Instants \subseteq Nat
    /\ \A t \in Instants : {ShownAt(t) \div Day, ShownAt(t + Hour) \div Day} \subseteq Days

ASSUME TextsAssumption ==
    \A text \in OtherTexts :
        /\ text \in Seq(Pieces)
        /\ text # <<>>
        /\ \A k \in DOMAIN text : text[k].then = "end" <=> k = Len(text)

VARIABLES time,       \* the time szTime was written from, or Unwritten
          szTime,     \* the text; the empty sequence is NULL
          nBegin,     \* the piece from which on the text is searched
          vecNumber,  \* the numbers found
          tTime,      \* what was returned
          at          \* "searching", "true" or "false"

vars == <<time, szTime, nBegin, vecNumber, tTime, at>>

Unwritten == -1
Open == -2
NULL == <<>>

-----------------------------------------------------------------------------
(* The C library                                                           *)

(* A bug that could be made here: the text is written with gmtime.         *)
gmtime(t) ==
    [date |-> DateOf[t \div Day],
     hour |-> (t % Day) \div Hour, min |-> (t % Hour) \div 60, sec |-> t % 60]

localtime(t) ==
    LET shown == ShownAt(t)
        second == shown % Day
    IN  [date |-> DateOf[shown \div Day],
         hour |-> second \div Hour, min |-> (second % Hour) \div 60, sec |-> second % 60]

(* tm_isdst is zero: the time is taken for standard time. There is no time *)
(* before 1970, and what the date of no day stands for is left open.       *)
mktime(tm) ==
    LET days == {day \in Days : DateOf[day] = tm.date}
        day == CHOOSE day \in days : TRUE
        t == day * Day + tm.hour * Hour + tm.min * 60 + tm.sec - Offset
    IN  IF days = {} THEN Open ELSE IF t < 0 THEN -1 ELSE t

(* A bug that could be made here: what is no number is not zero.           *)
atoiOfPiece(first, last) == szTime[first].number

(* The number a part of the text begins with, after white space.           *)
atoi(first, last) ==
    LET printed == {k \in first .. last : szTime[k].number # Nothing \/ szTime[k].then = "colon"}
    IN  IF printed = {} \/ szTime[Min(printed)].number = Nothing
        THEN 0 ELSE szTime[Min(printed)].number

-----------------------------------------------------------------------------
(* CStringTimeConvert                                                      *)

_TimeToString(t) ==
    LET pm == localtime(t)
    IN  <<[number |-> pm.date.year, then |-> "dash"], [number |-> pm.date.month, then |-> "dash"],
          [number |-> pm.date.day, then |-> "space"], [number |-> pm.hour, then |-> "colon"],
          [number |-> pm.min, then |-> "colon"], [number |-> pm.sec, then |-> "end"]>>

Init == /\ \/ /\ time \in Instants
              /\ szTime = _TimeToString(time)
           \/ /\ time = Unwritten
              /\ szTime \in OtherTexts \cup {NULL}
        /\ nBegin = 1
        /\ vecNumber = <<>>
        /\ tTime = 0
        /\ at = "searching"

Separators(separator) == {k \in nBegin .. Len(szTime) : szTime[k].then = separator}

(* A bug that could be made here: to look for the separators the other way *)
(* round, from the last to the first.                                      *)
nPosOfLast ==
    IF Separators("colon") # {} THEN Min(Separators("colon"))
    ELSE IF Separators("space") # {} THEN Min(Separators("space"))
    ELSE IF Separators("dash") # {} THEN Min(Separators("dash"))
    ELSE 0

(* The next dash; without one the next space; without one the next colon.  *)
nPos ==
    IF Separators("dash") # {} THEN Min(Separators("dash"))
    ELSE IF Separators("space") # {} THEN Min(Separators("space"))
    ELSE IF Separators("colon") # {} THEN Min(Separators("colon"))
    ELSE 0

(* The loop finds another separator.                                       *)
Separate ==
    /\ at = "searching"
    /\ szTime # NULL
    /\ nPos # 0
    /\ vecNumber' = Append(vecNumber, atoi(nBegin, nPos))
    /\ nBegin' = nPos + 1
    /\ UNCHANGED <<time, szTime, tTime, at>>

Number(numbers, k) == IF k <= Len(numbers) THEN numbers[k] ELSE 0

(* A bug that could be made here: a time of day without seconds is dropped.*)
sourcedateOfSix(numbers) ==
    [date |-> [year |-> numbers[1], month |-> numbers[2], day |-> numbers[3]],
     hour |-> IF Len(numbers) = 6 THEN Number(numbers, 4) ELSE 0,
     min |-> IF Len(numbers) = 6 THEN Number(numbers, 5) ELSE 0,
     sec |-> Number(numbers, 6)]

(* Fields that are not there are zero.                                     *)
sourcedate(numbers) ==
    [date |-> [year |-> numbers[1], month |-> numbers[2], day |-> numbers[3]],
     hour |-> Number(numbers, 4), min |-> Number(numbers, 5), sec |-> Number(numbers, 6)]

(* The last number, or no text at all. Years, months and days are needed.  *)
Convert ==
    /\ at = "searching"
    /\ szTime # NULL => nPos = 0
    /\ vecNumber' = IF szTime = NULL THEN vecNumber
                    ELSE Append(vecNumber, atoi(nBegin, Len(szTime)))
    /\ \/ /\ Len(vecNumber') \in 3 .. 6
          /\ tTime' = mktime(sourcedate(vecNumber'))
          /\ at' = "true"
       \/ /\ Len(vecNumber') \notin 3 .. 6
          /\ at' = "false"
          /\ UNCHANGED tTime
    /\ UNCHANGED <<time, szTime, nBegin>>

Next == Separate \/ Convert

Spec == Init /\ [][Next]_vars

-----------------------------------------------------------------------------
(* Properties                                                              *)

TypeOK ==
    /\ time \in Instants \cup {Unwritten}
    /\ szTime \in Seq(Pieces)
    /\ nBegin \in 1 .. Len(szTime) + 1
    /\ vecNumber \in Seq(Nat)
    /\ tTime \in Int
    /\ at \in {"searching", "true", "false"}

Read(t) == t + (IF t \in SummerTime THEN Hour ELSE 0)

(* The time that was written is read back, but as an hour later when it is *)
(* within daylight saving time, for mktime is told that it is not.         *)
RoundTrip ==
    time # Unwritten /\ at # "searching" => at = "true" /\ tTime = Read(time)

(* ReadRecord looks for the text of the creation time a listing has read   *)
(* (DBInterface.cpp:212). That is the text that is stored, but not within  *)
(* daylight saving time, except for its last hour.                         *)
FoundAgain ==
    time # Unwritten /\ at # "searching" =>
        (_TimeToString(tTime) = szTime
            <=> time \notin SummerTime \/ time + Hour \notin SummerTime)

(* Separators that come in the order they are searched in: - before space  *)
(* before colon.                                                           *)
Order == [separator \in {"dash", "space", "colon", "end"} |->
            CASE separator = "dash" -> 1 [] separator = "space" -> 2
              [] separator = "colon" -> 3 [] separator = "end" -> 4]

InOrder(text) ==
    \A i, j \in DOMAIN text : i < j => Order[text[i].then] <= Order[text[j].then]

(* Of such a text the search for one separator after the other skips no    *)
(* piece and joins no two, however many there are and whichever is empty.  *)
NoPieceSkipped ==
    InOrder(szTime) =>
        /\ \A k \in DOMAIN vecNumber :
             vecNumber[k] = IF szTime[k].number = Nothing THEN 0 ELSE szTime[k].number
        /\ Len(vecNumber) = IF at = "searching" THEN nBegin - 1 ELSE Len(szTime)

(* The text is one of a time, or the beginning of one that leaves zeros.   *)
Shortened(text, whole) ==
    /\ Len(text) \in 3 .. Len(whole)
    /\ \A k \in DOMAIN text :
         /\ text[k].number = whole[k].number
         /\ text[k].then = IF k = Len(text) THEN "end" ELSE whole[k].then
    /\ \A k \in Len(text) + 1 .. Len(whole) : whole[k].number = 0

(* A date, a date with hours and minutes, and a date with a time of day,   *)
(* the formats StringTimeConvert.cpp:19 names, mean the same time.         *)
FormatsAgree ==
    at # "searching" =>
        \A t \in Instants :
            Shortened(szTime, _TimeToString(t)) => at = "true" /\ tTime = Read(t)
=============================================================================
