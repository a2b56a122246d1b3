------------------------ MODULE MCStringTimeConvert ------------------------
(***************************************************************************)
(* The instance of StringTimeConvert that TLC checks: Central Europe in    *)
(* 2012, a leap year, where clocks are an hour ahead from March 25 to      *)
(* October 28; and the first day there is.                                 *)
(***************************************************************************)
EXTENDS StringTimeConvert

MCOffset == 3600

Begin == 1332637200    \* 2012-03-25 01:00 UTC
End   == 1351386000    \* 2012-10-28 01:00 UTC

MCSummerTime == Begin .. End - 1

(* The begin, the middle and the end of daylight saving time, the leap day,*)
(* the last midnight of the year and the first of all times, and moments   *)
(* before and after each. Some are an hour apart, some show zeros.         *)
Moments == {Begin, End, 1341093600, 1330470000, 1356994800, 14400}

MCInstants == {m + d : m \in Moments, d \in {-7200, -3600, -1799, -1, 0, 1, 60, 1800, 3599, 3600, 18000}}

MCDays == {(t + d) \div 86400 : t \in MCInstants, d \in {-7200, 0, 7200, 14400}}

(* The Gregorian calendar, counting days from March 1 of the year zero.    *)
Civil(d) ==
    LET z   == d + 719468
        era == z \div 146097
        doe == z % 146097
        yoe == (doe - doe \div 1460 + doe \div 36524 - doe \div 146096) \div 365
        doy == doe - (365 * yoe + yoe \div 4 - yoe \div 100)
        mp  == (5 * doy + 2) \div 153
        month == IF mp < 10 THEN mp + 3 ELSE mp - 9
    IN  [year |-> yoe + era * 400 + (IF month <= 2 THEN 1 ELSE 0),
         month |-> month,
         day |-> doy - (153 * mp + 2) \div 5 + 1]

MCDateOf == [d \in MCDays |-> Civil(d)]

(* Texts that leave out the time of day or a part of it.                   *)
Shorter(text, n) == [SubSeq(text, 1, n) EXCEPT ![n].then = "end"]

(* Any text of up to five pieces, and texts of seven and eight numbers.    *)
PieceSet == [number : {7, Nothing}, then : {"dash", "space", "colon"}]
LastSet == [number : {7, Nothing}, then : {"end"}]

MCOtherTexts ==
    {Shorter(_TimeToString(t), n) : t \in MCInstants, n \in 1 .. 5}
      \cup {Append(pieces, last) : pieces \in UNION {[1 .. n -> PieceSet] : n \in 0 .. 3}, last \in LastSet}
      \cup {<<p, p, p, q, q, q, last>> : p, q \in PieceSet, last \in LastSet}
=============================================================================
