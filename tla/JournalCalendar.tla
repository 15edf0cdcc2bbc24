-------------------------- MODULE JournalCalendar ---------------------------
(***************************************************************************)
(* The month grid of the Trading Journal (apps/web/lib/journal-view-model.ts *)
(* and components/journal/pnl-calendar.tsx) beside the weeks the API reports *)
(* for the month (apps/api: services/journal/aggregate.py).  A date is the   *)
(* number of days since 31 December of year 0, a month 12 * year + month - 1. *)
(***************************************************************************)
EXTENDS Integers, Sequences

CONSTANTS
  MinMonth, MaxMonth,   \* MIN_JOURNAL_YEAR * 12, MAX_JOURNAL_YEAR * 12 + 11
  ThisMonth,            \* the month of New York's clock, the same while the page is open
  OldestYear            \* where the picker's years begin, unless the month is older

ASSUME CalendarAssumption ==
  /\ MinMonth \in Nat /\ MaxMonth \in Nat /\ MinMonth >= 12
  /\ ThisMonth \in MinMonth..MaxMonth
  /\ OldestYear \in (MinMonth \div 12)..(MaxMonth \div 12)

VARIABLES
  monthKey,      \* the month on the screen
  focused        \* the date whose cell has the focus, or 0

calendarVars == <<monthKey, focused>>

Least(a, b) == IF a < b THEN a ELSE b
Most(a, b) == IF a > b THEN a ELSE b

-----------------------------------------------------------------------------
\* The Gregorian calendar, as Date and datetime.date have it.
IsLeap(year) == year % 4 = 0 /\ (year % 100 # 0 \/ year % 400 = 0)

DaysInMonth(m) ==
  LET month == (m % 12) + 1
  IN  IF month = 2 THEN IF IsLeap(m \div 12) THEN 29 ELSE 28
      ELSE IF month \in {4, 6, 9, 11} THEN 30 ELSE 31

DaysBefore(m) ==
  LET month == (m % 12) + 1
  IN  <<0, 31, 59, 90, 120, 151, 181, 212, 243, 273, 304, 334>>[month]
        + IF month > 2 /\ IsLeap(m \div 12) THEN 1 ELSE 0

FirstDay(m) ==
  LET y == m \div 12 - 1
  IN  365 * y + y \div 4 - y \div 100 + y \div 400 + 1 + DaysBefore(m)

LastDay(m) == FirstDay(m) + DaysInMonth(m) - 1

\* Mutation: the week starts on Sunday.
SundayIndex(date) == date % 7

\* weekdayIndex: 0 is Monday.
WeekdayIndex(date) == (date - 1) % 7

\* datetime.date.weekday, of the API.
Weekday(date) == (date + 6) % 7

-----------------------------------------------------------------------------
ShiftMonth(m, delta) == Most(MinMonth, Least(MaxMonth, m + delta))

\* buildCalendar: whole weeks, padded with days of the neighbouring months; a row's key is
\* its first day in the month.
BuildCalendar(m) ==
  LET first == FirstDay(m)
      last == LastDay(m)
      leading == WeekdayIndex(first)
      InMonth(date) == first <= date /\ date <= last
  IN  [row \in 1..((leading + DaysInMonth(m) + 6) \div 7) |->
         LET days == [offset \in 1..7 |-> first - leading + 7 * (row - 1) + offset - 1]
             IsFirst(i) == InMonth(days[i]) /\ \A j \in 1..(i - 1) : ~ InMonth(days[j])
         IN  [key |-> IF \E i \in 1..7 : InMonth(days[i])
                      THEN days[CHOOSE i \in 1..7 : IsFirst(i)] ELSE days[1],
              days |-> days]]

\* The days of a row that belong to the month.
DaysOf(row, m) == {row.days[offset] : offset \in 1..7} \cap (FirstDay(m)..LastDay(m))

\* month_bounds, of the API: a month ends the day before the next one starts.
MonthEnd(m) == FirstDay(m + 1) - 1

\* week_spans, of the API: weeks that end on Sunday, clipped to the month.
WeekSpans(first, last) ==
  LET span[cursor \in first..(last + 1)] ==
        IF cursor > last THEN <<>>
        ELSE LET end == Least(cursor + 6 - Weekday(cursor), last)
             IN  <<[start |-> cursor, end |-> end]>> \o span[end + 1]
  IN  span[first]

\* The cells of a month that can be focused, in order, and the step of a key.
KeyTarget(m, date, key) ==
  LET index == date - FirstDay(m)
      weekday == WeekdayIndex(date)
      target == CASE key = "ArrowLeft" -> index - 1
                  [] key = "ArrowRight" -> index + 1
                  [] key = "ArrowUp" -> index - 7
                  [] key = "ArrowDown" -> index + 7
                  [] key = "Home" -> index - weekday
                  [] key = "End" -> index - weekday + 6
  IN  FirstDay(m) + Most(0, Least(DaysInMonth(m) - 1, target))

CalendarKeys == {"ArrowLeft", "ArrowRight", "ArrowUp", "ArrowDown", "Home", "End"}

-----------------------------------------------------------------------------
\* The month of the address, or this one.
CalendarOn(month) == monthKey = month /\ focused = 0

CalendarInit == \E month \in MinMonth..MaxMonth : CalendarOn(month)

\* The arrows beside the title.
TurnMonth ==
  /\ \E delta \in {-1, 1} : monthKey' = ShiftMonth(monthKey, delta)
  /\ monthKey' # monthKey
  /\ focused' = 0

yearOptions(year) == Least(OldestYear, year)..Most(ThisMonth \div 12, year)

\* The pickers of the month and of the year, and the button for today.
PickMonth ==
  /\ \/ \E month \in 0..11 : monthKey' = 12 * (monthKey \div 12) + month
     \/ \E year \in yearOptions(monthKey \div 12) : monthKey' = 12 * year + (monthKey % 12)
     \/ monthKey # ThisMonth /\ monthKey' = ThisMonth
  /\ monthKey' \in MinMonth..MaxMonth
  /\ focused' = 0

FocusDay ==
  /\ focused = 0
  /\ focused' \in FirstDay(monthKey)..LastDay(monthKey)
  /\ UNCHANGED monthKey

MoveFocus ==
  /\ focused # 0
  /\ \E key \in CalendarKeys : focused' = KeyTarget(monthKey, focused, key)
  /\ UNCHANGED monthKey

CalendarNext == TurnMonth \/ PickMonth \/ FocusDay \/ MoveFocus

CalendarSpec == CalendarInit /\ [][CalendarNext]_calendarVars

-----------------------------------------------------------------------------
\* The web client and the API cut a month into the same weeks: every row of the grid finds
\* its summary under its key, and the summary totals exactly the days of the row.  The code
\* keeps a null for a row without summary and says it "should not happen"
\* (journal-view-model.ts:29-35, 140-180).
RowsMatchWeeks ==
  LET rows == BuildCalendar(monthKey)
      weeks == WeekSpans(FirstDay(monthKey), MonthEnd(monthKey))
  IN  /\ Len(rows) = Len(weeks)
      /\ \A i \in DOMAIN rows :
           /\ rows[i].key = weeks[i].start
           /\ DaysOf(rows[i], monthKey) = weeks[i].start..weeks[i].end

\* Home and End stay in the row of the focused day, in the clipped first and last rows too
\* (pnl-calendar.tsx:83-116).
KeysFollowRows ==
  focused # 0 =>
    \E i \in DOMAIN BuildCalendar(monthKey) :
      LET days == DaysOf(BuildCalendar(monthKey)[i], monthKey)
      IN  /\ focused \in days
          /\ days = KeyTarget(monthKey, focused, "Home")..KeyTarget(monthKey, focused, "End")

\* For the month on the screen and the day with the focus: the client's weeks are the API's,
\* and the keys stay in a row.
CalendarRowsMatchWeeks == RowsMatchWeeks /\ KeysFollowRows

=============================================================================
