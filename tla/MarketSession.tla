---------------------------- MODULE MarketSession -----------------------------
(***************************************************************************)
(* The market session clock (crates/domain/src/market_session.rs): which   *)
(* days are traded, and in which phase a minute of a day lies.  A date is  *)
(* the number of days since 1970-01-01, a time of day its minute; both are *)
(* local to the exchange, the time zone is chrono's.                       *)
(***************************************************************************)
EXTENDS Integers

CONSTANTS
  Open, Close   \* MarketSessionConfig, as minutes; 570 and 960 by default

ASSUME SessionAssumption == Open \in 0..1439 /\ Close \in 0..1439

-----------------------------------------------------------------------------
(* Dates, as chrono counts them                                             *)

Date(year, month, day) ==
  LET y   == IF month <= 2 THEN year - 1 ELSE year
      doy == (153 * ((month + 9) % 12) + 2) \div 5 + day - 1
  IN 365 * y + y \div 4 - y \div 100 + y \div 400 + doy - 719468

Weekday(d) == (d + 3) % 7   \* 0 is Monday
Saturday == 5
Sunday   == 6

Year(d) ==
  CHOOSE y \in (1970 + d \div 366)..(1971 + d \div 365) :
    Date(y, 1, 1) <= d /\ d < Date(y + 1, 1, 1)

-----------------------------------------------------------------------------
(* HolidayCalendar                                                          *)

\* A fixed holiday on a weekend is moved to the Friday or the Monday.
Observed(year, month, day) ==
  LET d == Date(year, month, day)
  IN CASE Weekday(d) = Saturday -> d - 1
       [] Weekday(d) = Sunday   -> d + 1
       [] OTHER                 -> d

\* From the first of the month forward, n - 1 weeks further
NthWeekday(year, month, weekday, n) ==
  LET first == Date(year, month, 1)
  IN first + ((weekday - Weekday(first)) % 7) + 7 * (n - 1)

\* From the end of the month backward; never asked of December
LastWeekday(year, month, weekday) ==
  LET last == Date(year, month + 1, 1) - 1
  IN last - ((Weekday(last) - weekday) % 7)

\* easter_sunday, the anonymous Gregorian computus
Easter(year) ==
  LET a == year % 19
      b == year \div 100
      c == year % 100
      g == (b - (b + 8) \div 25 + 1) \div 3
      h == (19 * a + b - b \div 4 - g + 15) % 30
      l == (32 + 2 * (b % 4) + 2 * (c \div 4) - h - (c % 4)) % 7
      m == (a + 11 * h + 22 * l) \div 451
      n == h + l - 7 * m + 114
  IN Date(year, n \div 31, (n % 31) + 1)

\* holidays_for_year; New Year's Day of a year may be observed in the one before.
Holidays(year) ==
  {Observed(year, 1, 1), NthWeekday(year, 1, 0, 3), NthWeekday(year, 2, 0, 3),
   Easter(year) - 2, LastWeekday(year, 5, 0), Observed(year, 7, 4),
   NthWeekday(year, 9, 0, 1), NthWeekday(year, 11, 3, 4), Observed(year, 12, 25)}
    \cup {d \in {Date(year, 12, 31)} : Weekday(d + 1) = Saturday}
    \cup {d \in {Observed(year, 6, 19)} : year >= 2021}

IsHoliday(d) == d \in Holidays(Year(d))

IsTradingDay(d) == Weekday(d) \notin {Saturday, Sunday} /\ ~IsHoliday(d)

LongestBreak == 5   \* bound: how far the search of next_trading_date goes

NextTradingDate(d) ==
  CHOOSE n \in (d + 1)..(d + LongestBreak) :
    IsTradingDay(n) /\ \A k \in (d + 1)..(n - 1) : ~IsTradingDay(k)

-----------------------------------------------------------------------------
(* MarketSessionClock                                                       *)

\* session_state_at(..).is_open()
IsOpen(d, t) == IsTradingDay(d) /\ Open <= t /\ t < Close

\* Times of day wrap around midnight.
Shifted(t, minutes) == (t + minutes) % 1440

PreMarketStart == Shifted(Open, -60)
ClosingStart   == Shifted(Close, -5)
PostMarketEnd  == Shifted(Close, 30)
LearningEnd    == Shifted(Close, 90)

In(t, from, to) == from <= t /\ t < to

\* phase_at
PhaseAt(d, t) ==
  IF ~IsTradingDay(d)                       THEN "Waiting"
  ELSE IF In(t, PreMarketStart, Open)       THEN "PreMarket"
  ELSE IF In(t, Open, ClosingStart)         THEN "MarketOpen"
  ELSE IF In(t, ClosingStart, Close)        THEN "MarketClosing"
  ELSE IF In(t, Close, PostMarketEnd)       THEN "PostMarket"
  ELSE IF In(t, PostMarketEnd, LearningEnd) THEN "Learning"
  ELSE "Waiting"

\* next_market_open and next_market_close, as minutes since 1970
NextAt(d, t, clock) ==
  1440 * (IF t < clock /\ IsTradingDay(d) THEN d ELSE NextTradingDate(d)) + clock

NextMarketOpen(d, t)  == NextAt(d, t, Open)
NextMarketClose(d, t) == NextAt(d, t, Close)
PreMarketWindowStart(d, t) == NextMarketOpen(d, t) - 60
=============================================================================
