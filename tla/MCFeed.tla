-------------------------------- MODULE MCFeed ---------------------------------
(* Instances of Feed for TLC, and the calendar of MarketSession against          *)
(* references that are computed in another way.                                  *)
EXTENDS Feed

\* Thursday 2026-11-19
Thursday == Date(2026, 11, 19)

\* The paschal full moon by the golden number, from the tables of the church for
\* 1900 to 2199: month and day.  Easter is the Sunday after it.
FullMoons ==
  <<<<4, 14>>, <<4, 3>>, <<3, 23>>, <<4, 11>>, <<3, 31>>, <<4, 18>>, <<4, 8>>,
    <<3, 28>>, <<4, 16>>, <<4, 5>>, <<3, 25>>, <<4, 13>>, <<4, 2>>, <<3, 22>>,
    <<4, 10>>, <<3, 30>>, <<4, 17>>, <<4, 7>>, <<3, 27>>>>

SundayAfter(d) == d + 7 - ((Weekday(d) + 1) % 7)

ASSUME EasterAsTabled ==
  \A y \in 1900..2199 :
    LET moon == FullMoons[(y % 19) + 1]
    IN Easter(y) = SundayAfter(Date(y, moon[1], moon[2]))

\* Dates are consecutive: a year begins the day after the one before ends, and
\* Year finds it.
ASSUME DatesCount ==
  \A y \in 1970..2100 :
    /\ Date(y + 1, 1, 1) = Date(y, 12, 31) + 1
    /\ Date(y, 3, 1) = Date(y, 2, 28) + 1 + (IF y % 4 = 0 /\ y # 2100 THEN 1 ELSE 0)
    /\ Year(Date(y, 1, 1)) = y /\ Year(Date(y, 12, 31)) = y

\* No holiday falls on a weekend, and the exchange is never closed for longer than
\* the search for the next day goes.
ASSUME Breaks ==
  \A y \in 2020..2050 :
    /\ \A d \in Holidays(y) : Weekday(d) \notin {Saturday, Sunday}
    /\ \A d \in Holidays(y) : \E n \in (d + 1)..(d + LongestBreak) : IsTradingDay(n)
================================================================================
