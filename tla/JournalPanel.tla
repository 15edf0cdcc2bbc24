---------------------------- MODULE JournalPanel ----------------------------
(***************************************************************************)
(* The Trading Journal tab (apps/web/components/journal/journal-panel.tsx   *)
(* and the views it feeds).  Month, day and week live in the URL; each has  *)
(* requests that a later choice, a refresh or a return of focus aborts.     *)
(*                                                                          *)
(* A handler, the URL it pushes and the effects of the render that follows  *)
(* are one step.  An aborted request has no effect whatever it answers, so  *)
(* aborting it removes it from the requests in flight.                      *)
(***************************************************************************)
EXTENDS Integers, Sequences, FiniteSets, SequencesExt

CONSTANTS
  Months, FirstMonth,  \* month keys, and the one the server rendered
  DatesOf,             \* DatesOf[m]: the dates of month m
  WeeksOf,             \* WeeksOf[m]: the weeks the API reports for m, by their start
  NoKey,
  MonthsKept,          \* months kept beside the one that just loaded
  PageLimit,           \* trades per answer of the day endpoint
  MaxTrades            \* bound on the trades of a day

JournalDates == UNION {DatesOf[m] : m \in Months}

ASSUME JournalAssumption ==
  /\ FirstMonth \in Months
  /\ PageLimit \in Nat \ {0} /\ MonthsKept \in Nat /\ MaxTrades \in Nat
  /\ NoKey \notin Months \cup JournalDates
  /\ \A m, n \in Months : m # n => DatesOf[m] \cap DatesOf[n] = {}
  /\ \A m \in Months : WeeksOf[m] \subseteq DatesOf[m]

VARIABLES
  journal,     \* the panel: URL parameters, caches, flags and requests in flight
  recorded     \* the API's record: how many trades each day has

journalVars == <<journal, recorded>>

NoDay == [date |-> NoKey, executions |-> <<>>, hasMore |-> FALSE]

-----------------------------------------------------------------------------
\* The requests, as functions from panel to panel.
FreshId(p) == CHOOSE i \in 1..(Cardinality(p.flight) + 1) : \A r \in p.flight : r.id # i

SendRead(p, kind, key, offset) ==
  [p EXCEPT !.flight = @ \cup {[kind |-> kind, key |-> key, offset |-> offset, id |-> FreshId(p)]}]

\* Mutation: a request that has been replaced still answers.
LetFinish(p, kinds) == p

Abort(p, kinds) == [p EXCEPT !.flight = {r \in @ : r.kind \notin kinds}]

LoadMonth(p, m) ==
  SendRead([Abort(p, {"month"}) EXCEPT !.requested = @ \cup {m}, !.monthLoading = TRUE,
                                   !.monthError = FALSE], "month", m, 0)

\* One AbortController serves a day and its further pages.
LoadDay(p, date) ==
  SendRead([Abort(p, {"day", "more"}) EXCEPT !.dayLoading = TRUE, !.dayError = FALSE, !.day = NoDay,
                                         !.moreLoading = FALSE, !.moreError = FALSE], "day", date, 0)

-----------------------------------------------------------------------------
\* The effects of a changed URL.
MonthEffect(p, old) ==
  LET left == [Abort(p, {"month"}) EXCEPT !.requested = @ \ {old}, !.monthLoading = FALSE]
  IN  IF p.month = old THEN p
      ELSE IF p.month \in left.requested THEN left
      ELSE LoadMonth(left, p.month)

WeekEffect(p) ==
  LET cleared == [Abort(p, {"week"}) EXCEPT !.weekDetail = NoKey, !.weekError = FALSE]
  IN  IF p.week = NoKey \/ p.date # NoKey THEN cleared ELSE SendRead(cleared, "week", p.week, 0)

DayEffect(p, old) ==
  IF p.date = old THEN p
  ELSE IF p.date # NoKey THEN LoadDay(p, p.date)
  ELSE [Abort(p, {"day", "more"}) EXCEPT !.day = NoDay, !.dayError = FALSE, !.dayLoading = FALSE]

\* A date or week of another month is ignored.
ParseUrl(m, date, week) ==
  [month |-> m, date |-> IF date \in DatesOf[m] THEN date ELSE NoKey,
   week |-> IF week \in DatesOf[m] THEN week ELSE NoKey]

Go(m, date, week) ==
  LET u == ParseUrl(m, date, week)
      p == [journal EXCEPT !.month = u.month, !.date = u.date, !.week = u.week]
      weekChanged == u.week # journal.week \/ u.date # journal.date
      q == MonthEffect(p, journal.month)
  IN  /\ journal' = DayEffect(IF weekChanged THEN WeekEffect(q) ELSE q, journal.date)
      /\ UNCHANGED recorded

\* The server renders the first month with the page, or an error in its place.
JournalOn(date, week, failed) ==
  /\ LET u == ParseUrl(FirstMonth, date, week)
         p == [month |-> u.month, date |-> u.date, week |-> u.week,
               months |-> IF failed THEN <<>> ELSE <<FirstMonth>>, requested |-> {FirstMonth},
               monthLoading |-> FALSE, monthError |-> failed,
               day |-> NoDay, dayLoading |-> FALSE, dayError |-> FALSE,
               moreLoading |-> FALSE, moreError |-> FALSE,
               weekDetail |-> NoKey, weekError |-> FALSE, flight |-> {}]
     IN  journal = DayEffect(WeekEffect(p), NoKey)
  /\ recorded = [d \in JournalDates |-> 1]

JournalInit ==
  \E date, week \in JournalDates \cup {NoKey}, failed \in BOOLEAN : JournalOn(date, week, failed)

-----------------------------------------------------------------------------
\* What the inspector is given.
InspectorTarget ==
  IF journal.date # NoKey THEN "day"
  ELSE IF journal.week \in WeeksOf[journal.month] /\ Contains(journal.months, journal.month)
       THEN "week" ELSE "none"

InspectorDay == IF journal.day.date = journal.date THEN journal.day ELSE NoDay

InspectorLoading ==
  /\ journal.date # NoKey
  /\ journal.dayLoading \/ (~ journal.dayError /\ journal.day.date # journal.date)

\* What the open inspector draws: an error before a week, a week before a placeholder.
InspectorShows ==
  IF InspectorTarget = "none" THEN "closed"
  ELSE IF journal.date # NoKey /\ journal.dayError THEN "day error"
  ELSE IF InspectorTarget = "week"
       THEN IF journal.weekError THEN "week error"
            ELSE IF journal.weekDetail = journal.week THEN "week" ELSE "week loading"
  ELSE IF InspectorLoading THEN "skeleton" ELSE "day"

-----------------------------------------------------------------------------
\* What the user does.
OpenDay == \E date \in DatesOf[journal.month] : Go(journal.month, date, NoKey)

\* A week is offered once the month that holds it has loaded.
OpenWeek ==
  /\ Contains(journal.months, journal.month)
  /\ \E week \in WeeksOf[journal.month] : Go(journal.month, NoKey, week)

CloseInspector == Go(journal.month, NoKey, NoKey)

ChangeMonth == \E m \in Months : Go(m, NoKey, NoKey)

\* Back and Forward return to any address of the tab.
Traverse ==
  \E m \in Months : \E date \in DatesOf[m] \cup {NoKey} : \E week \in WeeksOf[m] \cup {NoKey} :
    (date = NoKey \/ week = NoKey) /\ Go(m, date, week)

\* The Refresh button, and the window's focus.
Refresh ==
  LET p == LoadMonth(journal, journal.month)
  IN  /\ journal' = WeekEffect(IF p.date # NoKey THEN LoadDay(p, p.date) ELSE p)
      /\ UNCHANGED recorded

RetryMonth ==
  /\ journal.monthError
  /\ journal' = LoadMonth(journal, journal.month)
  /\ UNCHANGED recorded

RetryDay ==
  /\ InspectorShows = "day error"
  /\ journal' = LoadDay(journal, journal.date)
  /\ UNCHANGED recorded

RetryWeek ==
  /\ InspectorShows = "week error"
  /\ journal' = WeekEffect(journal)
  /\ UNCHANGED recorded

LoadMore ==
  /\ InspectorShows = "day" /\ InspectorDay.hasMore
  /\ ~ journal.moreLoading
  /\ journal' = SendRead([Abort(journal, {"day", "more"}) EXCEPT !.moreLoading = TRUE,
                                                             !.moreError = FALSE],
                     "more", journal.day.date, Len(journal.day.executions))
  /\ UNCHANGED recorded

-----------------------------------------------------------------------------
\* The API's answer: PageLimit trades from the offset on, in the order they were executed.
DayPage(date, offset) ==
  LET last == IF offset + PageLimit < recorded[date] THEN offset + PageLimit ELSE recorded[date]
  IN  [date |-> date, executions |-> [i \in 1..(last - offset) |-> offset + i],
       hasMore |-> last < recorded[date]]

Keep(kept, m) ==
  LET others == SelectSeq(kept, LAMBDA k : k # m)
      from == IF Len(others) > MonthsKept THEN Len(others) - MonthsKept + 1 ELSE 1
  IN  Append(SubSeq(others, from, Len(others)), m)

Landed(p, r) ==
  CASE r.kind = "month" -> [p EXCEPT !.months = Keep(@, r.key), !.monthLoading = FALSE]
    [] r.kind = "day" -> [p EXCEPT !.day = DayPage(r.key, 0), !.dayLoading = FALSE]
    [] r.kind = "more" ->
         [p EXCEPT !.moreLoading = FALSE,
                   !.day = IF @.date # r.key THEN @
                           ELSE [DayPage(r.key, r.offset) EXCEPT
                                   !.executions = p.day.executions \o @]]
    [] r.kind = "week" -> [p EXCEPT !.weekDetail = r.key]

Failed(p, r) ==
  CASE r.kind = "month" -> [p EXCEPT !.requested = @ \ {r.key}, !.monthError = TRUE,
                                     !.monthLoading = FALSE]
    [] r.kind = "day" -> [p EXCEPT !.dayError = TRUE, !.dayLoading = FALSE]
    [] r.kind = "more" -> [p EXCEPT !.moreError = TRUE, !.moreLoading = FALSE]
    [] r.kind = "week" -> [p EXCEPT !.weekError = TRUE]

JournalAnswer(r) ==
  LET p == [journal EXCEPT !.flight = @ \ {r}]
  IN  /\ r \in journal.flight
      /\ journal' \in {Landed(p, r), Failed(p, r)}
      /\ UNCHANGED recorded

\* Another closing trade executes, later than those of its day.
TradeClosed ==
  /\ \E d \in JournalDates : recorded[d] < MaxTrades /\ recorded' = [recorded EXCEPT ![d] = @ + 1]
  /\ UNCHANGED journal

JournalNext ==
  \/ OpenDay \/ OpenWeek \/ CloseInspector \/ ChangeMonth \/ Traverse
  \/ Refresh \/ RetryMonth \/ RetryDay \/ RetryWeek \/ LoadMore
  \/ \E r \in journal.flight : JournalAnswer(r)
  \/ TradeClosed

JournalSpec == JournalInit /\ [][JournalNext]_journalVars

-----------------------------------------------------------------------------
\* Whatever the order of clicks, refreshes and answers, nothing is shown as loading unless a
\* request that will end it is on its way for exactly what is open: no placeholder outlives
\* its request (journal-panel.tsx:90-164, 365-383).
LoadingHasRequest ==
  LET Awaits(kind, key) == \E r \in journal.flight : r.kind = kind /\ r.key = key
  IN  /\ InspectorShows = "skeleton" => Awaits("day", journal.date)
      /\ InspectorShows = "week loading" => Awaits("week", journal.week)
      /\ InspectorShows = "day" /\ journal.moreLoading => Awaits("more", journal.date)
      /\ journal.monthLoading => Awaits("month", journal.month)

\* The trades listed for the open day are the day's first trades, each once and none left
\* out, also when trades execute and the panel refreshes between two pages
\* (journal-panel.tsx:166-191).
ListedTradesArePrefix ==
  InspectorDay # NoDay =>
    /\ Len(InspectorDay.executions) <= recorded[journal.date]
    /\ \A i \in DOMAIN InspectorDay.executions : InspectorDay.executions[i] = i

\* The panel loads what is open, and lists what it has loaded.
PanelIsSound == LoadingHasRequest /\ ListedTradesArePrefix

=============================================================================
