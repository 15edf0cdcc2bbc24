------------------------- MODULE WebWorkspaceProofs -------------------------
(***************************************************************************)
(* Proofs about the workspaces of the web client, whose selection lives in   *)
(* the address beside the page that was rendered for an earlier one, for     *)
(* every list, history, calendar and number of requests under way.          *)
(***************************************************************************)
EXTENDS SignalsPage, JournalPanel, JournalCalendar, CompareWorkspace, SequenceTheorems,
        WellFoundedInduction, TLAPS

-----------------------------------------------------------------------------
(* The signals workspace.                                                    *)

DetailFields == {"selected", "shown", "closing", "timer", "expected", "rendered"}

\* What an address selects on a page.
Target(page, selected) == IF selected \in Known(page) THEN selected ELSE Unselected

\* A detail that neither moves nor waits shows what the address it was rendered for selects.
Settled(d, page) ==
  /\ DOMAIN d = DetailFields
  /\ d.expected = <<>> /\ ~ d.timer =>
       d.selected = Target(page, d.rendered) /\ d.shown = d.selected /\ ~ d.closing

SignalsSound ==
  /\ signals.selected \in Known(signals) \cup {Unselected}
  /\ Settled(detail, signals)

LEMMA OpenDetailFields ==
  ASSUME NEW d, DOMAIN d = DetailFields, NEW ticker
  PROVE  /\ DOMAIN OpenDetail(d, ticker) = DetailFields
         /\ OpenDetail(d, ticker).selected = ticker /\ OpenDetail(d, ticker).shown = ticker
         /\ OpenDetail(d, ticker).closing = FALSE
         /\ OpenDetail(d, ticker).rendered = d.rendered
BY DEF OpenDetail, DetailFields

\* Closing keeps what the address is expected to be, and waits while a detail is shown.
LEMMA CloseDetailFields ==
  ASSUME NEW d, DOMAIN d = DetailFields
  PROVE  /\ DOMAIN CloseDetail(d) = DetailFields
         /\ CloseDetail(d).expected = d.expected /\ CloseDetail(d).rendered = d.rendered
         /\ d.selected = Unselected =>
              /\ CloseDetail(d).selected = Unselected /\ CloseDetail(d).shown = Unselected
              /\ CloseDetail(d).closing = FALSE
         /\ d.selected # Unselected =>
              IF d.shown = Unselected THEN CloseDetail(d).selected = Unselected
              ELSE CloseDetail(d).timer = TRUE /\ CloseDetail(d).shown # Unselected
BY DEF CloseDetail, DetailFields

\* One run of the effect settles the detail, or leaves a closing for the run that the changed
\* selection causes.
LEMMA SyncOnceSettles ==
  ASSUME NEW d, DOMAIN d = DetailFields, NEW page
  PROVE  /\ DOMAIN SyncOnce(d, page) = DetailFields
         /\ \/ Settled(SyncOnce(d, page), page)
            \/ SyncOnce(d, page).selected = Unselected
         /\ d.selected = Unselected => Settled(SyncOnce(d, page), page)
         /\ \/ SyncOnce(d, page).expected \notin {<<>>, <<SyncOnce(d, page).rendered>>}
            \/ SyncOnce(d, page).rendered \in Known(page)
            \/ SyncOnce(d, page).selected = Unselected
            \/ SyncOnce(d, page).shown # Unselected
<1> DEFINE free == [d EXCEPT !.expected = <<>>]
<1>1. CASE d.expected \notin {<<>>, <<d.rendered>>}
  BY <1>1 DEF SyncOnce, Settled
<1>2. CASE d.expected \in {<<>>, <<d.rendered>>}
  <2>1. /\ DOMAIN free = DetailFields /\ free.expected = <<>> /\ free.rendered = d.rendered
        /\ free.selected = d.selected
    BY DEF DetailFields
  <2>2. SyncOnce(d, page) = IF d.rendered \in Known(page) THEN OpenDetail(free, d.rendered)
                            ELSE CloseDetail(free)
    BY <1>2 DEF SyncOnce
  <2> HIDE DEF free
  <2>3. CASE d.rendered \in Known(page)
    <3> DEFINE e == OpenDetail(free, d.rendered)
    <3>1. /\ DOMAIN e = DetailFields /\ e.selected = d.rendered /\ e.shown = d.rendered
          /\ e.closing = FALSE /\ e.rendered = d.rendered
      BY <2>1, OpenDetailFields
    <3>2. SyncOnce(d, page) = e
      BY <2>2, <2>3
    <3> HIDE DEF e
    <3>. QED
      BY <2>3, <3>1, <3>2 DEF Settled, Target
  <2>4. CASE d.rendered \notin Known(page)
    <3> DEFINE e == CloseDetail(free)
    <3>1. /\ DOMAIN e = DetailFields /\ e.rendered = d.rendered
          /\ d.selected = Unselected =>
               e.selected = Unselected /\ e.shown = Unselected /\ e.closing = FALSE
          /\ e.selected = Unselected \/ (e.timer = TRUE /\ e.shown # Unselected)
      BY <2>1, CloseDetailFields
    <3>2. SyncOnce(d, page) = e
      BY <2>2, <2>4
    <3> HIDE DEF e
    <3>. QED
      BY <2>4, <3>1, <3>2 DEF Settled, Target
  <2>. QED
    BY <2>3, <2>4
<1>. QED
  BY <1>1, <1>2

LEMMA SyncedSettles ==
  ASSUME NEW d, DOMAIN d = DetailFields, NEW page
  PROVE  Settled(Synced_(d, page), page)
<1> DEFINE once == SyncOnce(d, page)
<1>1. DOMAIN once = DetailFields /\ (Settled(once, page) \/ once.selected = Unselected)
  BY SyncOnceSettles
<1>2. Synced_(d, page) = SyncOnce(once, page)
  BY DEF Synced_
<1> HIDE DEF once
<1>3. CASE once.selected = Unselected
  BY <1>1, <1>2, <1>3, SyncOnceSettles
<1>4. CASE Settled(once, page) /\ once.selected # Unselected
  <2> DEFINE free == [once EXCEPT !.expected = <<>>]
  <2>1. CASE once.expected \notin {<<>>, <<once.rendered>>}
    BY <1>2, <1>4, <2>1 DEF SyncOnce
  <2>2. CASE once.expected \in {<<>>, <<once.rendered>>}
    <3>1. /\ DOMAIN free = DetailFields /\ free.expected = <<>> /\ free.rendered = once.rendered
          /\ free.selected = once.selected /\ free.shown = once.shown
      BY <1>1 DEF DetailFields
    <3>2. SyncOnce(once, page) = IF once.rendered \in Known(page)
                                 THEN OpenDetail(free, once.rendered) ELSE CloseDetail(free)
      BY <2>2 DEF SyncOnce
    <3> HIDE DEF free
    <3>3. CASE once.rendered \in Known(page)
      <4> DEFINE e == OpenDetail(free, once.rendered)
      <4>1. /\ DOMAIN e = DetailFields /\ e.selected = once.rendered /\ e.shown = once.rendered
            /\ e.closing = FALSE /\ e.rendered = once.rendered
        BY <3>1, OpenDetailFields
      <4>2. Synced_(d, page) = e
        BY <1>2, <3>2, <3>3
      <4> HIDE DEF e
      <4>. QED
        BY <3>3, <4>1, <4>2 DEF Settled, Target
    <3>4. CASE once.rendered \notin Known(page)
      <4> DEFINE e == CloseDetail(free)
      <4>1. DOMAIN e = DetailFields /\ (once.shown # Unselected => e.timer = TRUE)
        BY <1>4, <3>1, CloseDetailFields
      <4>2. once.shown # Unselected
        BY <1>4, <2>2, <3>4, SyncOnceSettles DEF once
      <4>3. Synced_(d, page) = e
        BY <1>2, <3>2, <3>4
      <4> HIDE DEF e
      <4>. QED
        BY <4>1, <4>2, <4>3 DEF Settled
    <3>. QED
      BY <3>3, <3>4
  <2>. QED
    BY <2>1, <2>2
<1>. QED
  BY <1>1, <1>3, <1>4

LEMMA RenderedPage ==
  ASSUME NEW address
  PROVE  /\ RenderSignals(address).selected = Target(RenderSignals(address), address.selected)
         /\ RenderSignals(address).selected \in Known(RenderSignals(address)) \cup {Unselected}
<1> DEFINE p == ParseSignals(address)
           page == RenderSignals(address)
<1>1. /\ page.selected = IF address.selected \in FilterSignals(p) THEN address.selected ELSE Unselected
      /\ Known(page) = FilterSignals(p)
  BY DEF RenderSignals, Known
<1> HIDE DEF p, page
<1>2. page.selected = Target(page, address.selected) /\ page.selected \in Known(page) \cup {Unselected}
  BY <1>1 DEF Target
<1>. QED
  BY <1>2 DEF page

\* A table that is mounted anew shows what its page selects.
LEMMA MountedSettles ==
  ASSUME NEW page, NEW address, page.selected = Target(page, address.selected)
  PROVE  Settled(Mounted(page, address), page)
BY DEF Settled, Mounted, DetailFields

LEMMA InitSignalsSound == SignalsInit => SignalsSound
<1> SUFFICES ASSUME NEW address, LandedOn(address) PROVE SignalsSound
  BY DEF SignalsInit
<1>. QED
  BY RenderedPage, MountedSettles DEF LandedOn, SignalsSound

\* The page, and a detail that is synchronised with it or mounted for it.
LEMMA ShowSound ==
  ASSUME NEW address,
         \/ signals' = RenderSignals(address)
         \/ signals' = signals /\ Known(signals) = {},
         SignalsSound, NEW d, DOMAIN d = DetailFields,
         detail' \in {Synced_(d, signals'), Mounted(signals', address)}
  PROVE  SignalsSound'
<1>1. signals'.selected = Target(signals', address.selected)
  BY RenderedPage DEF SignalsSound, Target
<1>2. signals'.selected \in Known(signals') \cup {Unselected}
  BY RenderedPage DEF SignalsSound
<1>3. Settled(detail', signals')
  BY <1>1, MountedSettles, SyncedSettles
<1>. QED
  BY <1>2, <1>3 DEF SignalsSound

LEMMA TraverseSound ==
  ASSUME SignalsSound, NEW at, Traverse_(at)
  PROVE  SignalsSound'
<1> DEFINE address == trail.entries[at]
           page == IF ParseSignals(address) = signals.params THEN signals ELSE RenderSignals(address)
           freed == [detail EXCEPT !.expected = <<>>]
           sync == IF address.selected \in Known(signals) THEN OpenDetail(freed, address.selected)
                   ELSE CloseDetail(freed)
           moved == [sync EXCEPT !.rendered = address.selected]
<1>1. DOMAIN freed = DetailFields
  BY DEF SignalsSound, Settled
<1>2. DOMAIN sync = DetailFields
  BY <1>1, OpenDetailFields, CloseDetailFields
<1>3. DOMAIN moved = DetailFields
  BY <1>2
<1>4. IF Listed__ /\ page = signals
      THEN detail' = Synced_(sync, signals) /\ UNCHANGED signals
      ELSE signals' = page /\ detail' =
             IF Listed__ /\ Known(page) # {} THEN Synced_(moved, page) ELSE Mounted(page, address)
  BY DEF Traverse_
<1>5. page = signals \/ page = RenderSignals(address)
  OBVIOUS
<1> HIDE DEF page, sync, moved, freed, address
<1>6. CASE Listed__ /\ page = signals
  BY <1>2, <1>4, <1>6, SyncedSettles DEF SignalsSound
<1>7. CASE ~ (Listed__ /\ page = signals)
  BY <1>3, <1>4, <1>5, <1>7, ShowSound DEF Listed__
<1>. QED
  BY <1>6, <1>7

LEMMA StepSignalsSound == SignalsSound /\ [SignalsNext]_signalVars => SignalsSound'
<1> SUFFICES ASSUME SignalsSound, [SignalsNext]_signalVars PROVE SignalsSound'
  OBVIOUS
<1>0. DOMAIN detail = DetailFields
  BY DEF SignalsSound, Settled
<1>1. ASSUME NEW d, DOMAIN d = DetailFields, detail' = Synced_(d, signals), signals' = signals
      PROVE  SignalsSound'
  BY <1>1, SyncedSettles DEF SignalsSound
<1>2. ASSUME NEW ticker \in SignalTickers, SelectRow(ticker) PROVE SignalsSound'
  <2> DEFINE d == [detail EXCEPT !.expected = <<ticker>>]
  <2>1. DOMAIN d = DetailFields
    BY <1>0
  <2>2. detail' = Synced_(OpenDetail(d, ticker), signals) /\ signals' = signals
    BY <1>2 DEF SelectRow
  <2> HIDE DEF d
  <2>. QED
    BY <1>1, <2>1, <2>2, OpenDetailFields
<1>3. CASE CloseSelected
  <2> DEFINE d == [detail EXCEPT !.expected = <<Unselected>>]
  <2>1. DOMAIN d = DetailFields /\ d.expected = <<Unselected>> /\ <<Unselected>> # <<>>
    BY <1>0 DEF DetailFields
  <2>2. detail' = CloseDetail(d) /\ signals' = signals
    BY <1>3 DEF CloseSelected
  <2> HIDE DEF d
  <2>3. DOMAIN detail' = DetailFields /\ detail'.expected # <<>>
    BY <2>1, <2>2, CloseDetailFields
  <2>. QED
    BY <2>2, <2>3 DEF SignalsSound, Settled
<1>4. CASE AddressRendered
  <2>1. DOMAIN [detail EXCEPT !.rendered = Here.selected] = DetailFields
    BY <1>0
  <2>. QED
    BY <1>1, <1>4, <2>1 DEF AddressRendered
<1>5. CASE TransitionEnds
  <2> DEFINE d == [detail EXCEPT !.timer = FALSE, !.closing = FALSE,
                                 !.shown = Unselected, !.selected = Unselected]
  <2>1. DOMAIN d = DetailFields
    BY <1>0
  <2>. QED
    BY <1>1, <1>5, <2>1 DEF TransitionEnds
<1>6. CASE LinkArrives
  <2> DEFINE address == following[1]
             d == [detail EXCEPT !.rendered = address.selected]
  <2>1. DOMAIN d = DetailFields
    BY <1>0
  <2>2. signals' = RenderSignals(address) /\ detail' \in {Synced_(d, signals'), Mounted(signals', address)}
    BY <1>6 DEF LinkArrives, Show
  <2> HIDE DEF address, d
  <2>. QED
    BY <2>1, <2>2, ShowSound
<1>7. ASSUME NEW signal, ApplyFilter(signal) PROVE SignalsSound'
  <2>1. PICK address : signals' = RenderSignals(address) /\ detail' = Mounted(signals', address)
    BY <1>7 DEF ApplyFilter
  <2>. QED
    BY <1>0, <2>1, ShowSound
<1>8. ASSUME UNCHANGED <<signals, detail>> PROVE SignalsSound'
  BY <1>8 DEF SignalsSound
<1>. QED
  BY <1>2, <1>3, <1>4, <1>5, <1>6, <1>7, <1>8, TraverseSound
     DEF SignalsNext, FollowHref, signalVars

\* A detail at rest shows what its address selects, for any list of signals, any history and
\* any order of rows, Escape, Back, Forward, links, renders and ends of transitions.
THEOREM SelectionSafe == SignalsSpec => []SelectionFollowsAddress
<1>1. SignalsSound => SelectionFollowsAddress
  BY DEF SignalsSound, Settled, Target, SelectionFollowsAddress
<1>. QED
  BY <1>1, InitSignalsSound, StepSignalsSound, PTL DEF SignalsSpec

-----------------------------------------------------------------------------
(* The trading journal's panel.                                              *)

PanelFields ==
  {"month", "date", "week", "months", "requested", "monthLoading", "monthError", "day",
   "dayLoading", "dayError", "moreLoading", "moreError", "weekDetail", "weekError", "flight"}
DayFields == {"date", "executions", "hasMore"}
ReadFields == {"kind", "key", "offset", "id"}

Reads(p, kinds) == {r \in p.flight : r.kind \in kinds}
AwaitsRead(p, kind, key) == \E r \in p.flight : r.kind = kind /\ r.key = key

\* A month that loads has its request.
MonthPart(p) == p.monthLoading => AwaitsRead(p, "month", p.month)

\* A week's request is for the week that is open, and the open week has come, failed or is
\* awaited.
WeekPart(p) ==
  /\ \A r \in Reads(p, {"week"}) : r.key = p.week /\ p.date = NoKey
  /\ p.week # NoKey /\ p.date = NoKey =>
       p.weekError \/ p.weekDetail = p.week \/ AwaitsRead(p, "week", p.week)

\* The trades of a day that has come are its first ones in the record.
ListsPrefix(day, record) ==
  \/ day = NoDay
  \/ /\ DOMAIN day = DayFields /\ day.date \in JournalDates
     /\ \E k \in Nat : k <= record[day.date] /\ day.executions = [i \in 1..k |-> i]

\* One request at a time serves the open day and its further pages, which continue the list.
DayPart(p, record) ==
  /\ \A r, s \in Reads(p, {"day", "more"}) : r = s
  /\ \A r \in Reads(p, {"day", "more"}) : p.date # NoKey /\ r.key = p.date
  /\ \A r \in Reads(p, {"more"}) : r.key = p.day.date /\ r.offset = Len(p.day.executions)
  /\ p.date # NoKey =>
       /\ p.dayLoading => AwaitsRead(p, "day", p.date)
       /\ p.moreLoading => AwaitsRead(p, "more", p.date)
       /\ p.dayError \/ p.day.date = p.date \/ AwaitsRead(p, "day", p.date)
  /\ ListsPrefix(p.day, record)

UrlPart(p) == p.month \in Months /\ p.date \in JournalDates \cup {NoKey}

ShapePart(p) ==
  /\ DOMAIN p = PanelFields
  /\ \A r \in p.flight : DOMAIN r = ReadFields /\ r.kind \in {"month", "day", "more", "week"}

PanelHolds(p, record) ==
  ShapePart(p) /\ UrlPart(p) /\ MonthPart(p) /\ WeekPart(p) /\ DayPart(p, record)

PanelSound == recorded \in [JournalDates -> Nat] /\ PanelHolds(journal, recorded)

\* The parts read fields of their own.
SameUrl(p, q) == q.month = p.month /\ q.date = p.date /\ q.week = p.week
SameMonthPart(p, q) ==
  q.monthLoading = p.monthLoading /\ Reads(q, {"month"}) = Reads(p, {"month"})
SameWeekPart(p, q) ==
  /\ q.weekDetail = p.weekDetail /\ q.weekError = p.weekError
  /\ Reads(q, {"week"}) = Reads(p, {"week"})
SameDayPart(p, q) ==
  /\ q.day = p.day /\ q.dayLoading = p.dayLoading /\ q.dayError = p.dayError
  /\ q.moreLoading = p.moreLoading /\ Reads(q, {"day", "more"}) = Reads(p, {"day", "more"})

LEMMA AwaitsIsRead ==
  \A p, kind, key : AwaitsRead(p, kind, key) <=> \E r \in Reads(p, {kind}) : r.key = key
BY DEF AwaitsRead, Reads

LEMMA MonthPartKept ==
  ASSUME NEW p, NEW q, MonthPart(p), SameMonthPart(p, q), q.month = p.month
  PROVE  MonthPart(q)
BY DEF MonthPart, SameMonthPart, AwaitsRead, Reads

LEMMA WeekPartKept ==
  ASSUME NEW p, NEW q, WeekPart(p), SameWeekPart(p, q), q.week = p.week, q.date = p.date
  PROVE  WeekPart(q)
BY DEF WeekPart, SameWeekPart, AwaitsRead, Reads

LEMMA DayPartKept ==
  ASSUME NEW p, NEW q, NEW record, DayPart(p, record), SameDayPart(p, q), q.date = p.date
  PROVE  DayPart(q, record)
<1>1. \A r : r \in Reads(q, {"more"}) <=> r \in Reads(p, {"more"})
  BY DEF SameDayPart, Reads
<1>2. \A key : /\ AwaitsRead(q, "day", key) <=> AwaitsRead(p, "day", key)
               /\ AwaitsRead(q, "more", key) <=> AwaitsRead(p, "more", key)
  BY DEF SameDayPart, AwaitsRead, Reads
<1>. QED
  BY <1>1, <1>2 DEF DayPart, SameDayPart

-----------------------------------------------------------------------------
\* What the functions from panel to panel leave alone.
LEMMA AbortKeeps ==
  ASSUME NEW p, ShapePart(p), NEW kinds
  PROVE  /\ ShapePart(Abort(p, kinds)) /\ SameUrl(p, Abort(p, kinds))
         /\ Abort(p, kinds).flight = {r \in p.flight : r.kind \notin kinds}
         /\ \A f \in PanelFields \ {"flight"} : Abort(p, kinds)[f] = p[f]
BY DEF Abort, ShapePart, SameUrl, PanelFields

LEMMA SendReadAdds ==
  ASSUME NEW p, ShapePart(p), NEW kind \in {"month", "day", "more", "week"}, NEW key, NEW offset
  PROVE  \E r : /\ SendRead(p, kind, key, offset) = [p EXCEPT !.flight = @ \cup {r}]
                /\ DOMAIN r = ReadFields /\ r.kind = kind /\ r.key = key /\ r.offset = offset
<1> DEFINE r == [kind |-> kind, key |-> key, offset |-> offset, id |-> FreshId(p)]
<1>1. DOMAIN r = ReadFields /\ r.kind = kind /\ r.key = key /\ r.offset = offset
  BY DEF ReadFields
<1>. QED
  BY <1>1 DEF SendRead

LEMMA LoadMonthSound ==
  ASSUME NEW p, ShapePart(p), NEW m
  PROVE  LET q == LoadMonth(p, m)
         IN  /\ ShapePart(q) /\ SameUrl(p, q) /\ SameWeekPart(p, q) /\ SameDayPart(p, q)
             /\ AwaitsRead(q, "month", m)
<1> DEFINE b == Abort(p, {"month"})
           a == [b EXCEPT !.requested = @ \cup {m}, !.monthLoading = TRUE, !.monthError = FALSE]
           q == LoadMonth(p, m)
<1>1. /\ DOMAIN b = PanelFields /\ b.flight = {r \in p.flight : r.kind \notin {"month"}}
      /\ \A f \in PanelFields \ {"flight"} : b[f] = p[f]
  BY AbortKeeps DEF ShapePart
<1>2. q = SendRead(a, "month", m, 0)
  BY DEF LoadMonth
<1> HIDE DEF b, q
<1>3. /\ DOMAIN a = PanelFields /\ a.flight = {r \in p.flight : r.kind \notin {"month"}}
      /\ \A f \in PanelFields \ {"flight", "requested", "monthLoading", "monthError"} : a[f] = p[f]
  BY <1>1 DEF PanelFields
<1> HIDE DEF a
<1>4. ShapePart(a)
  BY <1>3 DEF ShapePart
<1>5. PICK r : q = [a EXCEPT !.flight = @ \cup {r}] /\ DOMAIN r = ReadFields /\ r.kind = "month" /\ r.key = m
  BY <1>4, <1>2, SendReadAdds
<1>6. /\ DOMAIN q = PanelFields /\ q.flight = a.flight \cup {r}
      /\ \A f \in PanelFields \ {"flight"} : q[f] = a[f]
  BY <1>3, <1>5 DEF PanelFields
<1>7. ShapePart(q) /\ AwaitsRead(q, "month", m)
  BY <1>4, <1>5, <1>6 DEF ShapePart, AwaitsRead
<1>8. SameUrl(p, q) /\ SameWeekPart(p, q) /\ SameDayPart(p, q)
  BY <1>3, <1>5, <1>6 DEF SameUrl, SameWeekPart, SameDayPart, Reads, PanelFields
<1>. QED
  BY <1>7, <1>8 DEF q

LEMMA LoadDaySound ==
  ASSUME NEW p, ShapePart(p), NEW date, p.date = date, date # NoKey, NEW record
  PROVE  LET q == LoadDay(p, date)
         IN  /\ ShapePart(q) /\ SameUrl(p, q) /\ SameMonthPart(p, q) /\ SameWeekPart(p, q)
             /\ DayPart(q, record)
<1> DEFINE b == Abort(p, {"day", "more"})
           a == [b EXCEPT !.dayLoading = TRUE, !.dayError = FALSE, !.day = NoDay,
                          !.moreLoading = FALSE, !.moreError = FALSE]
           q == LoadDay(p, date)
<1>1. /\ DOMAIN b = PanelFields /\ b.flight = {r \in p.flight : r.kind \notin {"day", "more"}}
      /\ \A f \in PanelFields \ {"flight"} : b[f] = p[f]
  BY AbortKeeps DEF ShapePart
<1>2. q = SendRead(a, "day", date, 0)
  BY DEF LoadDay
<1> HIDE DEF b, q
<1>3. /\ DOMAIN a = PanelFields /\ a.flight = {r \in p.flight : r.kind \notin {"day", "more"}}
      /\ \A f \in PanelFields \ {"flight", "dayLoading", "dayError", "day", "moreLoading", "moreError"} :
           a[f] = p[f]
      /\ a.day = NoDay /\ ~ a.moreLoading
  BY <1>1 DEF PanelFields
<1> HIDE DEF a
<1>4. ShapePart(a)
  BY <1>3 DEF ShapePart
<1>5. PICK r : /\ q = [a EXCEPT !.flight = @ \cup {r}]
               /\ DOMAIN r = ReadFields /\ r.kind = "day" /\ r.key = date
  BY <1>4, <1>2, SendReadAdds
<1>6. /\ DOMAIN q = PanelFields /\ q.flight = a.flight \cup {r}
      /\ \A f \in PanelFields \ {"flight"} : q[f] = a[f]
  BY <1>3, <1>5 DEF PanelFields
<1>7. ShapePart(q)
  BY <1>4, <1>5, <1>6 DEF ShapePart
<1>8. SameUrl(p, q) /\ SameMonthPart(p, q) /\ SameWeekPart(p, q)
  BY <1>3, <1>5, <1>6 DEF SameUrl, SameMonthPart, SameWeekPart, Reads, PanelFields
<1>9. /\ \A s \in Reads(q, {"day", "more"}) : s = r
      /\ \A s \in Reads(q, {"more"}) : FALSE
      /\ AwaitsRead(q, "day", date)
  BY <1>3, <1>5, <1>6 DEF Reads, AwaitsRead
<1>10. q.date = date /\ q.day = NoDay /\ ~ q.moreLoading
  BY <1>3, <1>6 DEF PanelFields
<1>11. DayPart(q, record)
  BY <1>5, <1>9, <1>10 DEF DayPart, ListsPrefix
<1>. QED
  BY <1>7, <1>8, <1>11 DEF q

\* The effect of a changed week settles the week, whatever was there.
LEMMA WeekEffectSound ==
  ASSUME NEW p, ShapePart(p)
  PROVE  LET q == WeekEffect(p)
         IN  /\ ShapePart(q) /\ SameUrl(p, q) /\ SameMonthPart(p, q) /\ SameDayPart(p, q)
             /\ WeekPart(q)
<1> DEFINE b == Abort(p, {"week"})
           a == [b EXCEPT !.weekDetail = NoKey, !.weekError = FALSE]
           q == WeekEffect(p)
<1>1. /\ DOMAIN b = PanelFields /\ b.flight = {r \in p.flight : r.kind \notin {"week"}}
      /\ \A f \in PanelFields \ {"flight"} : b[f] = p[f]
  BY AbortKeeps DEF ShapePart
<1>2. q = IF a.week = NoKey \/ a.date # NoKey THEN a ELSE SendRead(a, "week", a.week, 0)
  <2>1. a.week = p.week /\ a.date = p.date
    BY <1>1 DEF PanelFields
  <2>. QED
    BY <2>1 DEF WeekEffect
<1> HIDE DEF b, q
<1>3. /\ DOMAIN a = PanelFields /\ a.flight = {r \in p.flight : r.kind \notin {"week"}}
      /\ \A f \in PanelFields \ {"flight", "weekDetail", "weekError"} : a[f] = p[f]
  BY <1>1 DEF PanelFields
<1> HIDE DEF a
<1>4. ShapePart(a)
  BY <1>3 DEF ShapePart
<1>5. CASE a.week = NoKey \/ a.date # NoKey
  <2>1. SameUrl(p, a) /\ SameMonthPart(p, a) /\ SameDayPart(p, a)
    BY <1>3 DEF SameUrl, SameMonthPart, SameDayPart, Reads, PanelFields
  <2>2. WeekPart(a)
    BY <1>3, <1>5 DEF WeekPart, Reads
  <2>. QED
    BY <1>2, <1>4, <1>5, <2>1, <2>2 DEF q
<1>6. CASE ~ (a.week = NoKey \/ a.date # NoKey)
  <2> DEFINE week == a.week
  <2>1. q = SendRead(a, "week", week, 0)
    BY <1>2, <1>6
  <2> HIDE DEF week
  <2>2. PICK r : /\ q = [a EXCEPT !.flight = @ \cup {r}]
                 /\ DOMAIN r = ReadFields /\ r.kind = "week" /\ r.key = week
    BY <1>4, <2>1, SendReadAdds
  <2>3. /\ DOMAIN q = PanelFields /\ q.flight = a.flight \cup {r}
        /\ \A f \in PanelFields \ {"flight"} : q[f] = a[f]
    BY <1>3, <2>2 DEF PanelFields
  <2>4. ShapePart(q)
    BY <1>4, <2>2, <2>3 DEF ShapePart
  <2>5. SameUrl(p, q) /\ SameMonthPart(p, q) /\ SameDayPart(p, q)
    BY <1>3, <2>2, <2>3 DEF SameUrl, SameMonthPart, SameDayPart, Reads, PanelFields
  <2>6. q.week = week /\ q.date = NoKey
    BY <1>6, <2>3 DEF PanelFields, week
  <2>7. WeekPart(q)
    BY <1>3, <2>2, <2>3, <2>6 DEF WeekPart, Reads, AwaitsRead
  <2>. QED
    BY <2>4, <2>5, <2>7 DEF q
<1>. QED
  BY <1>5, <1>6

LEMMA MonthEffectSound ==
  ASSUME NEW p, ShapePart(p), NEW old, p.month = old => MonthPart(p)
  PROVE  LET q == MonthEffect(p, old)
         IN  /\ ShapePart(q) /\ SameUrl(p, q) /\ SameWeekPart(p, q) /\ SameDayPart(p, q)
             /\ MonthPart(q)
<1> DEFINE b == Abort(p, {"month"})
           a == [b EXCEPT !.requested = @ \ {old}, !.monthLoading = FALSE]
           q == MonthEffect(p, old)
<1>1. /\ DOMAIN b = PanelFields /\ b.flight = {r \in p.flight : r.kind \notin {"month"}}
      /\ \A f \in PanelFields \ {"flight"} : b[f] = p[f]
  BY AbortKeeps DEF ShapePart
<1>2. q = IF p.month = old THEN p
          ELSE IF p.month \in a.requested THEN a ELSE LoadMonth(a, p.month)
  BY DEF MonthEffect
<1> HIDE DEF b, q
<1>3. /\ DOMAIN a = PanelFields /\ a.flight = {r \in p.flight : r.kind \notin {"month"}}
      /\ \A f \in PanelFields \ {"flight", "requested", "monthLoading"} : a[f] = p[f]
      /\ ~ a.monthLoading
  BY <1>1 DEF PanelFields
<1> HIDE DEF a
<1>4. ShapePart(a) /\ MonthPart(a)
  BY <1>3 DEF ShapePart, MonthPart
<1>5. SameUrl(p, a) /\ SameWeekPart(p, a) /\ SameDayPart(p, a)
  BY <1>3 DEF SameUrl, SameWeekPart, SameDayPart, Reads, PanelFields
<1>6. CASE p.month = old
  BY <1>2, <1>6 DEF q, SameUrl, SameWeekPart, SameDayPart
<1>7. CASE p.month # old /\ p.month \in a.requested
  BY <1>2, <1>4, <1>5, <1>7 DEF q
<1>8. CASE p.month # old /\ p.month \notin a.requested
  <2> DEFINE month == p.month
  <2>1. q = LoadMonth(a, month)
    BY <1>2, <1>8
  <2> HIDE DEF month
  <2>2. /\ ShapePart(q) /\ SameUrl(a, q) /\ SameWeekPart(a, q) /\ SameDayPart(a, q)
        /\ AwaitsRead(q, "month", month)
    BY <1>4, <2>1, LoadMonthSound
  <2>3. SameUrl(p, q) /\ SameWeekPart(p, q) /\ SameDayPart(p, q)
    BY <1>5, <2>2 DEF SameUrl, SameWeekPart, SameDayPart
  <2>4. MonthPart(q)
    BY <2>2, <2>3 DEF MonthPart, SameUrl, month
  <2>. QED
    BY <2>2, <2>3, <2>4 DEF q
<1>. QED
  BY <1>6, <1>7, <1>8

LEMMA DayEffectSound ==
  ASSUME NEW p, ShapePart(p), NEW old, NEW record, p.date = old => DayPart(p, record)
  PROVE  LET q == DayEffect(p, old)
         IN  /\ ShapePart(q) /\ SameUrl(p, q) /\ SameMonthPart(p, q) /\ SameWeekPart(p, q)
             /\ DayPart(q, record)
<1> DEFINE b == Abort(p, {"day", "more"})
           a == [b EXCEPT !.day = NoDay, !.dayError = FALSE, !.dayLoading = FALSE]
           date == p.date
           q == DayEffect(p, old)
<1>1. /\ DOMAIN b = PanelFields /\ b.flight = {r \in p.flight : r.kind \notin {"day", "more"}}
      /\ \A f \in PanelFields \ {"flight"} : b[f] = p[f]
  BY AbortKeeps DEF ShapePart
<1>2. q = IF date = old THEN p ELSE IF date # NoKey THEN LoadDay(p, date) ELSE a
  BY DEF DayEffect
<1>3. p.date = date
  OBVIOUS
<1> HIDE DEF b, q, date
<1>4. CASE date = old
  BY <1>2, <1>3, <1>4 DEF q, SameUrl, SameMonthPart, SameWeekPart
<1>5. CASE date # old /\ date # NoKey
  <2>1. q = LoadDay(p, date)
    BY <1>2, <1>5
  <2>. QED
    BY <1>3, <1>5, <2>1, LoadDaySound DEF q
<1>6. CASE date # old /\ date = NoKey
  <2>1. q = a
    BY <1>2, <1>6
  <2>2. /\ DOMAIN q = PanelFields /\ q.flight = {r \in p.flight : r.kind \notin {"day", "more"}}
        /\ \A f \in PanelFields \ {"flight", "day", "dayError", "dayLoading"} : q[f] = p[f]
        /\ q.day = NoDay
    BY <1>1, <2>1 DEF PanelFields
  <2> HIDE DEF a
  <2>3. ShapePart(q) /\ SameUrl(p, q) /\ SameMonthPart(p, q) /\ SameWeekPart(p, q)
    BY <2>2 DEF ShapePart, SameUrl, SameMonthPart, SameWeekPart, Reads, PanelFields
  <2>4. q.date = NoKey /\ Reads(q, {"day", "more"}) = {} /\ Reads(q, {"more"}) = {}
    BY <1>3, <1>6, <2>2 DEF Reads, PanelFields
  <2>5. DayPart(q, record)
    BY <2>2, <2>4 DEF DayPart, ListsPrefix
  <2>. QED
    BY <2>3, <2>5 DEF q
<1>. QED
  BY <1>4, <1>5, <1>6

-----------------------------------------------------------------------------
LEMMA KeysAre == JournalDates = UNION {DatesOf[m] : m \in Months} /\ NoKey \notin JournalDates
BY JournalAssumption DEF JournalDates

LEMMA InitPanelSound == JournalInit => PanelSound
<1> SUFFICES ASSUME NEW date, NEW week, NEW failed, JournalOn(date, week, failed)
             PROVE  PanelSound
  BY DEF JournalInit
<1> DEFINE u == ParseUrl(FirstMonth, date, week)
           p == [month |-> u.month, date |-> u.date, week |-> u.week,
                 months |-> IF failed THEN <<>> ELSE <<FirstMonth>>, requested |-> {FirstMonth},
                 monthLoading |-> FALSE, monthError |-> failed,
                 day |-> NoDay, dayLoading |-> FALSE, dayError |-> FALSE,
                 moreLoading |-> FALSE, moreError |-> FALSE,
                 weekDetail |-> NoKey, weekError |-> FALSE, flight |-> {}]
           q == WeekEffect(p)
<1>1. journal = DayEffect(q, NoKey) /\ recorded = [d \in JournalDates |-> 1]
  BY DEF JournalOn
<1>2. u.month \in Months /\ u.date \in JournalDates \cup {NoKey}
  BY JournalAssumption DEF ParseUrl, JournalDates
<1>3. /\ DOMAIN p = PanelFields /\ p.month = u.month /\ p.date = u.date /\ p.flight = {}
      /\ p.day = NoDay /\ ~ p.monthLoading
  BY DEF PanelFields
<1> HIDE DEF u, p, q
<1>4. ShapePart(p) /\ MonthPart(p) /\ (p.date = NoKey => DayPart(p, recorded))
  BY <1>3 DEF ShapePart, MonthPart, DayPart, Reads, ListsPrefix
<1>5. /\ ShapePart(q) /\ SameUrl(p, q) /\ SameMonthPart(p, q) /\ SameDayPart(p, q)
      /\ WeekPart(q)
  BY <1>4, WeekEffectSound DEF q
<1>6. MonthPart(q) /\ (q.date = NoKey => DayPart(q, recorded))
  BY <1>4, <1>5, MonthPartKept, DayPartKept DEF SameUrl
<1>7. /\ ShapePart(journal) /\ SameUrl(q, journal) /\ SameMonthPart(q, journal)
      /\ SameWeekPart(q, journal) /\ DayPart(journal, recorded)
  BY <1>1, <1>5, <1>6, DayEffectSound
<1>8. MonthPart(journal) /\ WeekPart(journal)
  BY <1>5, <1>6, <1>7, MonthPartKept, WeekPartKept DEF SameUrl
<1>9. UrlPart(journal)
  BY <1>2, <1>3, <1>5, <1>7 DEF SameUrl, UrlPart
<1>10. recorded \in [JournalDates -> Nat]
  BY <1>1
<1>. QED
  BY <1>7, <1>8, <1>9, <1>10 DEF PanelSound, PanelHolds

\* Any address of the tab, reached by a click, Back or Forward.
LEMMA GoSound ==
  ASSUME PanelSound, NEW m \in Months, NEW date, NEW week, Go(m, date, week)
  PROVE  PanelSound'
<1> DEFINE u == ParseUrl(m, date, week)
           p == [journal EXCEPT !.month = u.month, !.date = u.date, !.week = u.week]
           weekChanged == u.week # journal.week \/ u.date # journal.date
           q == MonthEffect(p, journal.month)
           w == IF weekChanged THEN WeekEffect(q) ELSE q
<1>1. journal' = DayEffect(w, journal.date) /\ recorded' = recorded
  BY DEF Go
<1>2. u.month \in Months /\ u.date \in JournalDates \cup {NoKey}
  BY DEF ParseUrl, JournalDates
<1> HIDE DEF u
<1>3. /\ ShapePart(journal) /\ MonthPart(journal) /\ WeekPart(journal)
      /\ DayPart(journal, recorded)
  BY DEF PanelSound, PanelHolds
<1>4. /\ DOMAIN p = PanelFields /\ p.month = u.month /\ p.date = u.date /\ p.week = u.week
      /\ \A f \in PanelFields \ {"month", "date", "week"} : p[f] = journal[f]
  BY <1>3 DEF ShapePart, PanelFields
<1>5. q = MonthEffect(p, journal.month) /\ w = IF weekChanged THEN WeekEffect(q) ELSE q
  OBVIOUS
<1> HIDE DEF p, q, w
<1>6. /\ ShapePart(p) /\ SameMonthPart(journal, p) /\ SameWeekPart(journal, p)
      /\ SameDayPart(journal, p)
  BY <1>3, <1>4 DEF ShapePart, SameMonthPart, SameWeekPart, SameDayPart, Reads, PanelFields
<1>7. p.month = journal.month => MonthPart(p)
  BY <1>3, <1>6, MonthPartKept
<1>8. /\ ShapePart(q) /\ SameUrl(p, q) /\ SameWeekPart(p, q) /\ SameDayPart(p, q)
      /\ MonthPart(q)
  BY <1>5, <1>6, <1>7, MonthEffectSound
<1>9. /\ ShapePart(w) /\ SameUrl(q, w) /\ SameMonthPart(q, w) /\ SameDayPart(q, w)
      /\ WeekPart(w)
  <2>1. CASE weekChanged
    BY <1>5, <1>8, <2>1, WeekEffectSound
  <2>2. CASE ~ weekChanged
    <3>1. w = q /\ q.week = journal.week /\ q.date = journal.date
      BY <1>4, <1>5, <1>8, <2>2 DEF SameUrl
    <3>2. SameWeekPart(journal, q)
      BY <1>6, <1>8 DEF SameWeekPart
    <3>. QED
      BY <1>3, <1>8, <3>1, <3>2, WeekPartKept DEF SameUrl, SameMonthPart, SameDayPart
  <2>. QED
    BY <2>1, <2>2
<1>10. MonthPart(w)
  BY <1>8, <1>9, MonthPartKept DEF SameUrl
<1>11. w.date = journal.date => DayPart(w, recorded)
  <2>1. SameDayPart(journal, w)
    BY <1>6, <1>8, <1>9 DEF SameDayPart
  <2>. QED
    BY <1>3, <2>1, DayPartKept
<1>12. /\ ShapePart(journal') /\ SameUrl(w, journal') /\ SameMonthPart(w, journal')
       /\ SameWeekPart(w, journal') /\ DayPart(journal', recorded)
  BY <1>1, <1>9, <1>11, DayEffectSound
<1>13. MonthPart(journal') /\ WeekPart(journal')
  BY <1>9, <1>10, <1>12, MonthPartKept, WeekPartKept DEF SameUrl
<1>14. UrlPart(journal')
  BY <1>2, <1>4, <1>8, <1>9, <1>12 DEF SameUrl, UrlPart
<1>15. recorded' \in [JournalDates -> Nat]
  BY <1>1 DEF PanelSound
<1>. QED
  BY <1>1, <1>12, <1>13, <1>14, <1>15 DEF PanelSound, PanelHolds

\* The reads that a user repeats.
LEMMA LoadMonthHolds ==
  ASSUME NEW p, NEW record, PanelHolds(p, record)
  PROVE  PanelHolds(LoadMonth(p, p.month), record)
<1> DEFINE month == p.month
           q == LoadMonth(p, month)
<1>1. month = p.month
  OBVIOUS
<1> HIDE DEF month
<1>2. /\ ShapePart(q) /\ SameUrl(p, q) /\ SameWeekPart(p, q) /\ SameDayPart(p, q)
      /\ AwaitsRead(q, "month", month)
  BY LoadMonthSound DEF PanelHolds
<1> HIDE DEF q
<1>3. MonthPart(q)
  BY <1>1, <1>2 DEF MonthPart, SameUrl
<1>4. WeekPart(q) /\ DayPart(q, record)
  BY <1>2, WeekPartKept, DayPartKept DEF PanelHolds, SameUrl
<1>. QED
  BY <1>1, <1>2, <1>3, <1>4 DEF PanelHolds, UrlPart, SameUrl, q

LEMMA LoadDayHolds ==
  ASSUME NEW p, NEW record, PanelHolds(p, record), p.date # NoKey
  PROVE  PanelHolds(LoadDay(p, p.date), record) /\ LoadDay(p, p.date).date = p.date
<1> DEFINE date == p.date
           q == LoadDay(p, date)
<1>1. date = p.date
  OBVIOUS
<1> HIDE DEF date
<1>2. /\ ShapePart(q) /\ SameUrl(p, q) /\ SameMonthPart(p, q) /\ SameWeekPart(p, q)
      /\ DayPart(q, record)
  BY <1>1, LoadDaySound DEF PanelHolds
<1> HIDE DEF q
<1>3. MonthPart(q) /\ WeekPart(q)
  BY <1>2, WeekPartKept, MonthPartKept DEF PanelHolds, SameUrl
<1>. QED
  BY <1>1, <1>2, <1>3 DEF PanelHolds, UrlPart, SameUrl, q

LEMMA WeekEffectHolds ==
  ASSUME NEW p, NEW record, PanelHolds(p, record)
  PROVE  PanelHolds(WeekEffect(p), record)
<1> DEFINE q == WeekEffect(p)
<1>1. /\ ShapePart(q) /\ SameUrl(p, q) /\ SameMonthPart(p, q) /\ SameDayPart(p, q)
      /\ WeekPart(q)
  BY WeekEffectSound DEF PanelHolds
<1> HIDE DEF q
<1>2. MonthPart(q) /\ DayPart(q, record)
  BY <1>1, MonthPartKept, DayPartKept DEF PanelHolds, SameUrl
<1>. QED
  BY <1>1, <1>2 DEF PanelHolds, UrlPart, SameUrl, q

\* Numbers counted up to k, and from there on up to n.
LEMMA CountingContinues ==
  ASSUME NEW k \in Nat, NEW n \in Nat, k <= n
  PROVE  [i \in 1..k |-> i] \o [i \in 1..(n - k) |-> k + i] = [i \in 1..n |-> i]
<1> DEFINE first == [i \in 1..k |-> i]
           more == [i \in 1..(n - k) |-> k + i]
<1>1. first \in Seq(Nat) /\ Len(first) = k /\ \A i \in 1..k : first[i] = i
  OBVIOUS
<1>2. more \in Seq(Nat) /\ Len(more) = n - k /\ \A i \in 1..(n - k) : more[i] = k + i
  OBVIOUS
<1> HIDE DEF first, more
<1>3. /\ first \o more \in Seq(Nat) /\ Len(first \o more) = k + (n - k)
      /\ \A i \in 1..(k + (n - k)) :
           (first \o more)[i] = IF i <= k THEN first[i] ELSE more[i - k]
  <2>1. /\ first \o more \in Seq(Nat) /\ Len(first \o more) = Len(first) + Len(more)
        /\ \A i \in 1..(Len(first) + Len(more)) :
             (first \o more)[i] = IF i <= Len(first) THEN first[i] ELSE more[i - Len(first)]
    BY <1>1, <1>2, ConcatProperties
  <2>. QED
    BY <1>1, <1>2, <2>1
<1>4. \A i \in 1..n : (first \o more)[i] = i
  BY <1>1, <1>2, <1>3
<1>5. Len(first \o more) = n
  BY <1>3
<1>6. PICK count : count = [i \in 1..n |-> i]
  OBVIOUS
<1>7. count \in Seq(Nat) /\ Len(count) = n /\ \A i \in 1..n : count[i] = i
  BY <1>6
<1>8. first \o more = count
  BY <1>3, <1>4, <1>5, <1>7, SeqEqual
<1>. QED
  BY <1>6, <1>8 DEF first, more

\* The API's page continues a list of the day's first trades.
LEMMA PageContinues ==
  ASSUME recorded \in [JournalDates -> Nat], NEW date \in JournalDates,
         NEW k \in Nat, k <= recorded[date]
  PROVE  /\ DOMAIN DayPage(date, k) = DayFields /\ DayPage(date, k).date = date
         /\ \E n \in Nat : /\ k <= n /\ n <= recorded[date]
                           /\ DayPage(date, k).executions = [i \in 1..(n - k) |-> k + i]
<1> DEFINE last == IF k + PageLimit < recorded[date] THEN k + PageLimit ELSE recorded[date]
<1>1. last \in Nat /\ k <= last /\ last <= recorded[date]
  BY JournalAssumption
<1>2. /\ DOMAIN DayPage(date, k) = DayFields /\ DayPage(date, k).date = date
      /\ DayPage(date, k).executions = [i \in 1..(last - k) |-> k + i]
  BY DEF DayPage, DayFields
<1>. QED
  BY <1>1, <1>2

\* The requests that are left when one has been answered.
LEMMA AnsweredReads ==
  ASSUME NEW p, ShapePart(p), NEW r \in p.flight
  PROVE  LET q == [p EXCEPT !.flight = @ \ {r}]
         IN  /\ ShapePart(q) /\ q.flight = p.flight \ {r}
             /\ \A f \in PanelFields \ {"flight"} : q[f] = p[f]
BY DEF ShapePart, PanelFields

\* The month and the week, when their requests end well or not.
LEMMA MonthOrWeekAnswered ==
  ASSUME PanelSound, NEW r \in journal.flight, r.kind \in {"month", "week"}, JournalAnswer(r)
  PROVE  PanelSound'
<1> DEFINE p == [journal EXCEPT !.flight = @ \ {r}]
<1>1. /\ ShapePart(journal) /\ MonthPart(journal) /\ WeekPart(journal) /\ UrlPart(journal)
      /\ DayPart(journal, recorded)
  BY DEF PanelSound, PanelHolds
<1>2. /\ DOMAIN p = PanelFields /\ ShapePart(p) /\ p.flight = journal.flight \ {r}
      /\ \A f \in PanelFields \ {"flight"} : p[f] = journal[f]
  BY <1>1, AnsweredReads DEF ShapePart
<1>3. journal' \in {Landed(p, r), Failed(p, r)} /\ recorded' = recorded
  BY DEF JournalAnswer
<1> HIDE DEF p
<1>4. CASE r.kind = "month"
  <2>1. \/ journal' = [p EXCEPT !.months = Keep(@, r.key), !.monthLoading = FALSE]
        \/ journal' = [p EXCEPT !.requested = @ \ {r.key}, !.monthError = TRUE,
                                !.monthLoading = FALSE]
    BY <1>3, <1>4 DEF Landed, Failed
  <2>2. /\ DOMAIN journal' = PanelFields /\ journal'.flight = journal.flight \ {r}
        /\ \A f \in PanelFields \ {"flight", "months", "requested", "monthError", "monthLoading"} :
             journal'[f] = journal[f]
        /\ ~ journal'.monthLoading
    BY <1>2, <2>1 DEF PanelFields
  <2>3. /\ ShapePart(journal') /\ SameUrl(journal, journal') /\ SameWeekPart(journal, journal')
        /\ SameDayPart(journal, journal') /\ MonthPart(journal')
    BY <1>1, <1>4, <2>2
       DEF ShapePart, SameUrl, SameWeekPart, SameDayPart, Reads, PanelFields, MonthPart
  <2>4. WeekPart(journal') /\ DayPart(journal', recorded) /\ UrlPart(journal')
    BY <1>1, <2>3, WeekPartKept, DayPartKept DEF SameUrl, UrlPart
  <2>. QED
    BY <1>3, <2>3, <2>4 DEF PanelSound, PanelHolds
<1>5. CASE r.kind = "week"
  <2>1. \/ journal' = [p EXCEPT !.weekDetail = r.key]
        \/ journal' = [p EXCEPT !.weekError = TRUE]
    BY <1>3, <1>5 DEF Landed, Failed
  <2>2. /\ DOMAIN journal' = PanelFields /\ journal'.flight = journal.flight \ {r}
        /\ \A f \in PanelFields \ {"flight", "weekDetail", "weekError"} : journal'[f] = journal[f]
        /\ journal'.weekDetail = r.key \/ journal'.weekError
    BY <1>2, <2>1 DEF PanelFields
  <2>3. /\ ShapePart(journal') /\ SameUrl(journal, journal') /\ SameMonthPart(journal, journal')
        /\ SameDayPart(journal, journal')
    BY <1>1, <1>5, <2>2
       DEF ShapePart, SameUrl, SameMonthPart, SameDayPart, Reads, PanelFields
  <2>4. r.key = journal.week
    BY <1>1, <1>5 DEF WeekPart, Reads
  <2>5. WeekPart(journal')
    BY <1>1, <2>2, <2>3, <2>4 DEF WeekPart, SameUrl, Reads
  <2>6. MonthPart(journal') /\ DayPart(journal', recorded) /\ UrlPart(journal')
    BY <1>1, <2>3, MonthPartKept, DayPartKept DEF SameUrl, UrlPart
  <2>. QED
    BY <1>3, <2>3, <2>5, <2>6 DEF PanelSound, PanelHolds
<1>. QED
  BY <1>4, <1>5

\* The day and its further pages.
LEMMA DayAnswered ==
  ASSUME PanelSound, NEW r \in journal.flight, r.kind \in {"day", "more"}, JournalAnswer(r)
  PROVE  PanelSound'
<1> DEFINE p == [journal EXCEPT !.flight = @ \ {r}]
           day == journal.day
<1>1. /\ ShapePart(journal) /\ MonthPart(journal) /\ WeekPart(journal) /\ UrlPart(journal)
      /\ DayPart(journal, recorded)
  BY DEF PanelSound, PanelHolds
<1>2. /\ DOMAIN p = PanelFields /\ ShapePart(p) /\ p.flight = journal.flight \ {r}
      /\ \A f \in PanelFields \ {"flight"} : p[f] = journal[f]
  BY <1>1, AnsweredReads DEF ShapePart
<1>3. journal' \in {Landed(p, r), Failed(p, r)} /\ recorded' = recorded
  BY DEF JournalAnswer
<1> HIDE DEF p
<1>4. /\ journal.date = r.key /\ r.key # NoKey /\ r.key \in JournalDates
      /\ \A s \in Reads(journal, {"day", "more"}) : s = r
      /\ r.kind = "more" => r.key = day.date /\ r.offset = Len(day.executions)
  BY <1>1 DEF DayPart, UrlPart, Reads
<1>5. /\ r.kind = "day" => ~ journal.moreLoading
      /\ r.kind = "more" => ~ journal.dayLoading
  BY <1>1, <1>4 DEF DayPart, AwaitsRead, Reads
<1>6. recorded \in [JournalDates -> Nat]
  BY DEF PanelSound
<1>7. ASSUME NEW new, ListsPrefix(new, recorded),
             DOMAIN journal' = PanelFields, journal'.flight = p.flight,
             \A f \in PanelFields \ {"flight", "day", "dayLoading", "dayError", "moreLoading", "moreError"} :
               journal'[f] = p[f],
             journal'.day = new, ~ journal'.dayLoading, ~ journal'.moreLoading,
             journal'.dayError \/ new.date = r.key
      PROVE  PanelSound'
  <2>1. /\ ShapePart(journal') /\ SameUrl(journal, journal') /\ SameMonthPart(journal, journal')
        /\ SameWeekPart(journal, journal')
    BY <1>1, <1>2, <1>7
       DEF ShapePart, SameUrl, SameMonthPart, SameWeekPart, Reads, PanelFields
  <2>2. Reads(journal', {"day", "more"}) = {} /\ Reads(journal', {"more"}) = {}
    BY <1>2, <1>4, <1>7 DEF Reads
  <2>3. DayPart(journal', recorded)
    BY <1>4, <1>7, <2>1, <2>2 DEF DayPart, SameUrl
  <2>4. MonthPart(journal') /\ WeekPart(journal') /\ UrlPart(journal')
    BY <1>1, <2>1, MonthPartKept, WeekPartKept DEF SameUrl, UrlPart
  <2>. QED
    BY <1>3, <1>6, <2>1, <2>3, <2>4 DEF PanelSound, PanelHolds
<1>8. CASE r.kind = "day"
  <2> DEFINE page == DayPage(r.key, 0)
  <2>1. \/ journal' = [p EXCEPT !.day = page, !.dayLoading = FALSE]
        \/ journal' = [p EXCEPT !.dayError = TRUE, !.dayLoading = FALSE]
    BY <1>3, <1>8 DEF Landed, Failed
  <2>2. page.date = r.key /\ ListsPrefix(page, recorded)
    <3>1. 0 \in Nat /\ 0 <= recorded[r.key]
      BY <1>4, <1>6
    <3>2. /\ DOMAIN page = DayFields /\ page.date = r.key
          /\ \E n \in Nat : /\ 0 <= n /\ n <= recorded[r.key]
                            /\ page.executions = [i \in 1..(n - 0) |-> 0 + i]
      BY <1>4, <1>6, <3>1, PageContinues
    <3> HIDE DEF page
    <3>3. PICK n \in Nat : n <= recorded[r.key] /\ page.executions = [i \in 1..(n - 0) |-> 0 + i]
      BY <3>2
    <3>4. [i \in 1..(n - 0) |-> 0 + i] = [i \in 1..n |-> i]
      OBVIOUS
    <3>. QED
      BY <1>4, <3>2, <3>3, <3>4 DEF ListsPrefix
  <2> HIDE DEF page
  <2>3. CASE journal' = [p EXCEPT !.day = page, !.dayLoading = FALSE]
    BY <1>2, <1>5, <1>7, <1>8, <2>2, <2>3 DEF PanelFields
  <2>4. CASE journal' = [p EXCEPT !.dayError = TRUE, !.dayLoading = FALSE]
    <3>1. ListsPrefix(day, recorded)
      BY <1>1 DEF DayPart
    <3>2. p.day = day
      BY <1>2 DEF PanelFields
    <3> HIDE DEF day
    <3>. QED
      BY <1>2, <1>5, <1>7, <1>8, <2>4, <3>1, <3>2 DEF PanelFields
  <2>. QED
    BY <2>1, <2>3, <2>4
<1>9. CASE r.kind = "more"
  <2> DEFINE page == DayPage(r.key, r.offset)
             new == [page EXCEPT !.executions = day.executions \o @]
  <2>1. p.day = day /\ ListsPrefix(day, recorded)
    BY <1>1, <1>2 DEF DayPart, PanelFields
  <2>2. \/ journal' = [p EXCEPT !.moreLoading = FALSE, !.day = new]
        \/ journal' = [p EXCEPT !.moreError = TRUE, !.moreLoading = FALSE]
    BY <1>2, <1>3, <1>4, <1>9, <2>1 DEF Landed, Failed, PanelFields
  <2>3. new.date = r.key /\ ListsPrefix(new, recorded)
    <3>1. NoDay.date = NoKey
      BY DEF NoDay
    <3>2. PICK k \in Nat : k <= recorded[r.key] /\ day.executions = [i \in 1..k |-> i]
      BY <1>4, <1>9, <2>1, <3>1 DEF ListsPrefix
    <3>3. r.offset = k
      BY <1>4, <1>9, <3>2
    <3>4. /\ DOMAIN page = DayFields /\ page.date = r.key
          /\ \E n \in Nat : /\ k <= n /\ n <= recorded[r.key]
                            /\ page.executions = [i \in 1..(n - k) |-> k + i]
      <4>1. page = DayPage(r.key, k)
        BY <3>3
      <4> HIDE DEF page
      <4>2. /\ DOMAIN DayPage(r.key, k) = DayFields /\ DayPage(r.key, k).date = r.key
            /\ \E n \in Nat : /\ k <= n /\ n <= recorded[r.key]
                              /\ DayPage(r.key, k).executions = [i \in 1..(n - k) |-> k + i]
        BY <1>4, <1>6, <3>2, PageContinues
      <4>. QED
        BY <4>1, <4>2
    <3> HIDE DEF page, day
    <3>5. PICK n \in Nat : /\ k <= n /\ n <= recorded[r.key]
                           /\ page.executions = [i \in 1..(n - k) |-> k + i]
      BY <3>4
    <3>6. DOMAIN new = DayFields /\ new.date = r.key
          /\ new.executions = day.executions \o page.executions
      BY <3>4 DEF DayFields
    <3>7. new.executions = [i \in 1..n |-> i]
      BY <3>2, <3>5, <3>6, CountingContinues
    <3> HIDE DEF new
    <3>. QED
      BY <1>4, <3>5, <3>6, <3>7 DEF ListsPrefix
  <2> HIDE DEF new
  <2>4. CASE journal' = [p EXCEPT !.moreLoading = FALSE, !.day = new]
    BY <1>2, <1>5, <1>7, <1>9, <2>3, <2>4 DEF PanelFields
  <2>5. CASE journal' = [p EXCEPT !.moreError = TRUE, !.moreLoading = FALSE]
    <3> HIDE DEF day
    <3>. QED
      BY <1>2, <1>4, <1>5, <1>7, <1>9, <2>1, <2>5 DEF PanelFields
  <2>. QED
    BY <2>2, <2>4, <2>5
<1>. QED
  BY <1>8, <1>9

\* A further page is asked for where the list ends.
LEMMA LoadMoreSound ==
  ASSUME PanelSound, LoadMore
  PROVE  PanelSound'
<1> DEFINE date == journal.day.date
           offset == Len(journal.day.executions)
           b == Abort(journal, {"day", "more"})
           a == [b EXCEPT !.moreLoading = TRUE, !.moreError = FALSE]
<1>1. /\ ShapePart(journal) /\ MonthPart(journal) /\ WeekPart(journal) /\ UrlPart(journal)
      /\ DayPart(journal, recorded) /\ recorded \in [JournalDates -> Nat]
  BY DEF PanelSound, PanelHolds
<1>2. date = journal.date /\ date # NoKey /\ ~ journal.dayError /\ ~ journal.dayLoading
  <2>1. InspectorDay # NoDay
    BY DEF LoadMore, NoDay
  <2>2. journal.date # NoKey /\ ~ journal.dayError /\ ~ InspectorLoading
    BY DEF LoadMore, InspectorShows, InspectorTarget
  <2>. QED
    BY <2>1, <2>2 DEF InspectorDay, InspectorLoading
<1>3. journal' = SendRead(a, "more", date, offset) /\ recorded' = recorded
  BY DEF LoadMore
<1>4. /\ DOMAIN b = PanelFields /\ b.flight = {r \in journal.flight : r.kind \notin {"day", "more"}}
      /\ \A f \in PanelFields \ {"flight"} : b[f] = journal[f]
  BY <1>1, AbortKeeps DEF ShapePart
<1> HIDE DEF b
<1>5. /\ DOMAIN a = PanelFields /\ a.flight = {r \in journal.flight : r.kind \notin {"day", "more"}}
      /\ \A f \in PanelFields \ {"flight", "moreLoading", "moreError"} : a[f] = journal[f]
  BY <1>4 DEF PanelFields
<1> HIDE DEF a
<1>6. ShapePart(a)
  BY <1>1, <1>5 DEF ShapePart
<1> HIDE DEF date, offset
<1>7. PICK r : /\ journal' = [a EXCEPT !.flight = @ \cup {r}]
               /\ DOMAIN r = ReadFields /\ r.kind = "more" /\ r.key = date /\ r.offset = offset
  BY <1>3, <1>6, SendReadAdds
<1>8. /\ DOMAIN journal' = PanelFields /\ journal'.flight = a.flight \cup {r}
      /\ \A f \in PanelFields \ {"flight"} : journal'[f] = a[f]
  BY <1>5, <1>7 DEF PanelFields
<1>9. ShapePart(journal')
  BY <1>6, <1>7, <1>8 DEF ShapePart
<1>10. SameUrl(journal, journal') /\ SameMonthPart(journal, journal') /\ SameWeekPart(journal, journal')
  BY <1>5, <1>7, <1>8 DEF SameUrl, SameMonthPart, SameWeekPart, Reads, PanelFields
<1>11. MonthPart(journal') /\ WeekPart(journal') /\ UrlPart(journal')
  BY <1>1, <1>10, MonthPartKept, WeekPartKept DEF SameUrl, UrlPart
<1>12. /\ \A s \in Reads(journal', {"day", "more"}) : s = r
       /\ \A s \in Reads(journal', {"more"}) : s = r
       /\ AwaitsRead(journal', "more", date)
  BY <1>5, <1>7, <1>8 DEF Reads, AwaitsRead
<1>13. /\ journal'.date = date /\ journal'.day = journal.day /\ ~ journal'.dayLoading
       /\ journal'.day.date = date /\ offset = Len(journal'.day.executions)
  BY <1>2, <1>5, <1>8 DEF PanelFields, date, offset
<1>14. ListsPrefix(journal'.day, recorded)
  BY <1>1, <1>13 DEF DayPart
<1>15. DayPart(journal', recorded)
  BY <1>2, <1>7, <1>12, <1>13, <1>14 DEF DayPart
<1>. QED
  BY <1>1, <1>3, <1>9, <1>11, <1>15 DEF PanelSound, PanelHolds

\* A trade that closes later leaves the listed ones the first.
LEMMA TradeClosedSound ==
  ASSUME PanelSound, TradeClosed
  PROVE  PanelSound'
<1>1. PICK d \in JournalDates : recorded' = [recorded EXCEPT ![d] = @ + 1] /\ journal' = journal
  BY DEF TradeClosed
<1>2. recorded \in [JournalDates -> Nat] /\ PanelHolds(journal, recorded)
  BY DEF PanelSound
<1>3. recorded' \in [JournalDates -> Nat] /\ \A e \in JournalDates : recorded[e] <= recorded'[e]
  BY <1>1, <1>2
<1>4. \A day : ListsPrefix(day, recorded) => ListsPrefix(day, recorded')
  <2> SUFFICES ASSUME NEW day, ListsPrefix(day, recorded), day # NoDay
               PROVE  ListsPrefix(day, recorded')
    BY DEF ListsPrefix
  <2>1. PICK k \in Nat : k <= recorded[day.date] /\ day.executions = [i \in 1..k |-> i]
    BY DEF ListsPrefix
  <2>2. DOMAIN day = DayFields /\ day.date \in JournalDates
    BY DEF ListsPrefix
  <2>3. k <= recorded'[day.date]
    BY <1>2, <1>3, <2>1, <2>2
  <2>. QED
    BY <2>1, <2>2, <2>3 DEF ListsPrefix
<1>5. DayPart(journal, recorded')
  BY <1>2, <1>4 DEF PanelHolds, DayPart
<1>. QED
  BY <1>1, <1>2, <1>3, <1>5 DEF PanelSound, PanelHolds

LEMMA StepPanelSound == PanelSound /\ [JournalNext]_journalVars => PanelSound'
<1> SUFFICES ASSUME PanelSound, [JournalNext]_journalVars PROVE PanelSound'
  OBVIOUS
<1>1. /\ PanelHolds(journal, recorded) /\ recorded \in [JournalDates -> Nat]
      /\ journal.month \in Months
  BY DEF PanelSound, PanelHolds, UrlPart
<1>2. ASSUME NEW m \in Months, NEW date, NEW week, Go(m, date, week) PROVE PanelSound'
  BY <1>2, GoSound
<1>3. CASE OpenDay \/ OpenWeek \/ CloseInspector \/ ChangeMonth \/ Traverse
  BY <1>1, <1>2, <1>3 DEF OpenDay, OpenWeek, CloseInspector, ChangeMonth, Traverse
<1>4. ASSUME PanelHolds(journal', recorded), recorded' = recorded PROVE PanelSound'
  BY <1>1, <1>4 DEF PanelSound
<1>5. CASE Refresh
  <2> DEFINE p == LoadMonth(journal, journal.month)
             q == IF p.date # NoKey THEN LoadDay(p, p.date) ELSE p
  <2>1. journal' = WeekEffect(q) /\ recorded' = recorded
    BY <1>5 DEF Refresh
  <2>2. PanelHolds(p, recorded)
    BY <1>1, LoadMonthHolds
  <2> HIDE DEF p
  <2>3. PanelHolds(q, recorded)
    BY <2>2, LoadDayHolds
  <2> HIDE DEF q
  <2>. QED
    BY <1>4, <2>1, <2>3, WeekEffectHolds
<1>6. CASE RetryMonth
  BY <1>1, <1>4, <1>6, LoadMonthHolds DEF RetryMonth
<1>7. CASE RetryDay
  <2>1. journal.date # NoKey
    BY <1>7 DEF RetryDay, InspectorShows, InspectorLoading
  <2>. QED
    BY <1>1, <1>4, <1>7, <2>1, LoadDayHolds DEF RetryDay
<1>8. CASE RetryWeek
  BY <1>1, <1>4, <1>8, WeekEffectHolds DEF RetryWeek
<1>9. ASSUME NEW r \in journal.flight, JournalAnswer(r) PROVE PanelSound'
  <2>1. r.kind \in {"month", "week"} \/ r.kind \in {"day", "more"}
    BY <1>1 DEF PanelHolds, ShapePart
  <2>. QED
    BY <1>9, <2>1, MonthOrWeekAnswered, DayAnswered
<1>10. CASE UNCHANGED journalVars
  BY <1>1, <1>4, <1>10 DEF journalVars
<1>. QED
  BY <1>3, <1>5, <1>6, <1>7, <1>8, <1>9, <1>10, LoadMoreSound, TradeClosedSound
     DEF JournalNext

\* Nothing that the inspector draws as loading is without its request.
LEMMA SoundLoadingHasRequest == PanelSound => LoadingHasRequest
<1> SUFFICES ASSUME PanelSound PROVE LoadingHasRequest
  OBVIOUS
<1>1. MonthPart(journal) /\ WeekPart(journal) /\ DayPart(journal, recorded) /\ UrlPart(journal)
  BY DEF PanelSound, PanelHolds
<1>2. InspectorShows = "skeleton" => AwaitsRead(journal, "day", journal.date)
  <2> SUFFICES ASSUME InspectorShows = "skeleton" PROVE AwaitsRead(journal, "day", journal.date)
    OBVIOUS
  <2>1. InspectorLoading /\ ~ journal.dayError
    BY DEF InspectorShows, InspectorLoading
  <2>. QED
    BY <1>1, <2>1 DEF InspectorLoading, DayPart
<1>3. InspectorShows = "week loading" => AwaitsRead(journal, "week", journal.week)
  <2> SUFFICES ASSUME InspectorShows = "week loading" PROVE AwaitsRead(journal, "week", journal.week)
    OBVIOUS
  <2>1. InspectorTarget = "week" /\ ~ journal.weekError /\ journal.weekDetail # journal.week
    BY DEF InspectorShows
  <2>2. journal.date = NoKey /\ journal.week \in WeeksOf[journal.month]
    BY <2>1 DEF InspectorTarget
  <2>3. journal.week # NoKey
    <3>1. journal.month \in Months
      BY <1>1 DEF UrlPart
    <3>2. journal.week \in DatesOf[journal.month]
      BY <2>2, <3>1, JournalAssumption
    <3>3. journal.week \in JournalDates
      BY <3>1, <3>2 DEF JournalDates
    <3>. QED
      BY <3>3, JournalAssumption
  <2>. QED
    BY <1>1, <2>1, <2>2, <2>3 DEF WeekPart
<1>4. InspectorShows = "day" /\ journal.moreLoading => AwaitsRead(journal, "more", journal.date)
  <2> SUFFICES ASSUME InspectorShows = "day", journal.moreLoading
               PROVE  AwaitsRead(journal, "more", journal.date)
    OBVIOUS
  <2>1. journal.date # NoKey
    BY DEF InspectorShows, InspectorTarget
  <2>. QED
    BY <1>1, <2>1 DEF DayPart
<1>. QED
  BY <1>1, <1>2, <1>3, <1>4 DEF LoadingHasRequest, AwaitsRead, MonthPart

LEMMA SoundListsPrefix == PanelSound => ListedTradesArePrefix
<1> SUFFICES ASSUME PanelSound, InspectorDay # NoDay
             PROVE  /\ Len(InspectorDay.executions) <= recorded[journal.date]
                    /\ \A i \in DOMAIN InspectorDay.executions : InspectorDay.executions[i] = i
  BY DEF ListedTradesArePrefix
<1>1. ListsPrefix(journal.day, recorded)
  BY DEF PanelSound, PanelHolds, DayPart
<1>2. InspectorDay = journal.day /\ journal.day.date = journal.date /\ journal.day # NoDay
  BY DEF InspectorDay
<1>3. PICK k \in Nat : k <= recorded[journal.date] /\ journal.day.executions = [i \in 1..k |-> i]
  BY <1>1, <1>2 DEF ListsPrefix
<1>. QED
  BY <1>2, <1>3

\* For any calendar, any record of trades and any order of clicks, Back and Forward, refreshes,
\* retries and answers, the panel loads what is open and lists what it has loaded.
THEOREM PanelSafe == JournalSpec => []PanelIsSound
<1>1. PanelSound => PanelIsSound
  BY SoundLoadingHasRequest, SoundListsPrefix DEF PanelIsSound
<1>. QED
  BY <1>1, InitPanelSound, StepPanelSound, PTL DEF JournalSpec

-----------------------------------------------------------------------------
(* Loops over the positions of a sequence.                                   *)

\* What holds of 0 and passes from each number to the next holds up to n.
LEMMA UpTo ==
  ASSUME NEW n \in Nat, NEW good, 0 \in good,
         \A i \in 1..n : i - 1 \in good => i \in good
  PROVE  \A i \in 0..n : i \in good
<1> DEFINE less == {ss \in Nat \X Nat : ss[1] < ss[2]}
           bad == {i \in 0..n : i \notin good}
<1> SUFFICES ASSUME bad # {} PROVE FALSE
  OBVIOUS
<1>1. IsWellFoundedOn(less, Nat)
  BY NatLessThanWellFounded, Zenon DEF OpToRel
<1>2. PICK i \in bad : \A j \in bad : <<j, i>> \notin less
  <2>1. bad \subseteq Nat
    OBVIOUS
  <2> HIDE DEF less, bad
  <2>. QED BY <1>1, <2>1, WFMin
<1>3. i \in 1..n /\ i - 1 \in bad
  OBVIOUS
<1>4. <<i - 1, i>> \in less
  BY <1>3
<1>. QED
  BY <1>2, <1>3, <1>4

\* A loop over the positions of a sequence, whose step is given as a function, has a run.
IsRun(run, n, S, base, step) ==
  /\ run \in [0..n -> S] /\ run[0] = base
  /\ \A i \in 1..n : run[i] = step[<<i, run[i - 1]>>]

LEMMA LoopRuns ==
  ASSUME NEW n \in Nat, NEW S, NEW base \in S, NEW step \in [(1..n) \X S -> S]
  PROVE  \E run : IsRun(run, n, S, base, step)
<1> DEFINE Runs(k) == {run \in [0..k -> S] :
                         /\ run[0] = base
                         /\ \A i \in 1..k : run[i] = step[<<i, run[i - 1]>>]}
           good == {k \in 0..n : Runs(k) # {}}
<1>1. 0 \in good
  <2>1. [i \in 0..0 |-> base] \in Runs(0)
    OBVIOUS
  <2>. QED
    BY <2>1
<1>2. ASSUME NEW k \in 1..n, k - 1 \in good PROVE k \in good
  <2>1. PICK run \in Runs(k - 1) : TRUE
    BY <1>2
  <2> DEFINE longer == [i \in 0..k |-> IF i = k THEN step[<<k, run[k - 1]>>] ELSE run[i]]
  <2>2. run[k - 1] \in S /\ step[<<k, run[k - 1]>>] \in S
    BY <2>1
  <2>3. longer \in [0..k -> S]
    BY <2>1, <2>2
  <2>4. longer[0] = base
    BY <2>1
  <2>5. ASSUME NEW i \in 1..k PROVE longer[i] = step[<<i, longer[i - 1]>>]
    <3>1. CASE i = k
      <4>1. longer[k] = step[<<k, run[k - 1]>>] /\ longer[k - 1] = run[k - 1]
        BY <2>1
      <4> HIDE DEF longer
      <4>. QED
        BY <3>1, <4>1
    <3>2. CASE i # k
      BY <2>1, <3>2
    <3>. QED
      BY <3>1, <3>2
  <2> HIDE DEF longer
  <2>6. longer \in Runs(k)
    BY <2>3, <2>4, <2>5
  <2>. QED
    BY <2>6
<1>3. n \in good
  <2> HIDE DEF good
  <2>. QED
    BY <1>1, <1>2, UpTo
<1>4. PICK run \in Runs(n) : TRUE
  BY <1>3
<1>5. IsRun(run, n, S, base, step)
  BY <1>4 DEF IsRun
<1>. QED
  BY <1>5

\* A sequence without repetitions.
Unrepeated(seq) == \A i, j \in 1..Len(seq) : seq[i] = seq[j] => i = j

\* Filtering keeps members of the set only, and what has no others stays.  After i positions:
Filtered(seq, T, S, i, s) ==
  /\ s \in Seq(T \cap S) /\ Len(s) <= i
  /\ \A j \in 1..Len(s) : \E p \in 1..i : s[j] = seq[p]
  /\ Unrepeated(seq) => Unrepeated(s)
  /\ seq \in Seq(S) => Len(s) = i /\ \A j \in 1..i : s[j] = seq[j]

LEMMA FilterStep ==
  ASSUME NEW T, NEW seq \in Seq(T), NEW S, NEW i \in 1..Len(seq), NEW old,
         Filtered(seq, T, S, i - 1, old)
  PROVE  /\ seq[i] \in S => Filtered(seq, T, S, i, Append(old, seq[i]))
         /\ seq[i] \notin S => Filtered(seq, T, S, i, old)
<1> DEFINE new == Append(old, seq[i])
<1>1. /\ old \in Seq(T \cap S) /\ Len(old) \in Nat /\ Len(old) <= i - 1
      /\ \A j \in 1..Len(old) : \E p \in 1..(i - 1) : old[j] = seq[p]
      /\ Unrepeated(seq) => Unrepeated(old)
      /\ seq \in Seq(S) => Len(old) = i - 1 /\ \A j \in 1..(i - 1) : old[j] = seq[j]
  BY DEF Filtered
<1>2. seq[i] \in T /\ i \in Nat /\ Len(seq) \in Nat /\ i <= Len(seq)
  OBVIOUS
<1>3. ASSUME seq[i] \in S PROVE Filtered(seq, T, S, i, new)
  <2>1. seq[i] \in T \cap S
    BY <1>2, <1>3
  <2>2. /\ new \in Seq(T \cap S) /\ Len(new) = Len(old) + 1
        /\ \A j \in 1..Len(old) : new[j] = old[j]
        /\ new[Len(old) + 1] = seq[i]
    BY <1>1, <2>1, AppendProperties
  <2> HIDE DEF new
  <2>3. ASSUME NEW j \in 1..Len(new) PROVE \E p \in 1..i : new[j] = seq[p]
    <3>1. CASE j = Len(old) + 1
      BY <2>2, <3>1
    <3>2. CASE j # Len(old) + 1
      <4>1. j \in 1..Len(old)
        BY <1>1, <2>2, <3>2
      <4>2. PICK p \in 1..(i - 1) : old[j] = seq[p]
        BY <1>1, <4>1
      <4>. QED
        BY <1>2, <2>2, <4>1, <4>2
    <3>. QED
      BY <3>1, <3>2
  <2>4. ASSUME Unrepeated(seq) PROVE Unrepeated(new)
    <3>1. ASSUME NEW j \in 1..Len(new), NEW k \in 1..Len(new), j < k, new[j] = new[k]
          PROVE  FALSE
      <4>1. j \in 1..Len(old) /\ new[j] = old[j]
        BY <1>1, <2>2, <3>1
      <4>2. CASE k = Len(old) + 1
        <5>1. PICK p \in 1..(i - 1) : old[j] = seq[p]
          BY <1>1, <4>1
        <5>2. seq[p] = seq[i]
          BY <2>2, <3>1, <4>1, <4>2, <5>1
        <5>3. p \in 1..Len(seq) /\ p # i
          BY <1>2
        <5>. QED
          BY <2>4, <5>2, <5>3 DEF Unrepeated
      <4>3. CASE k # Len(old) + 1
        <5>1. k \in 1..Len(old)
          BY <1>1, <2>2, <4>3
        <5>2. old[j] = old[k]
          BY <2>2, <3>1, <4>1, <5>1
        <5>. QED
          BY <1>1, <2>4, <3>1, <4>1, <5>1, <5>2 DEF Unrepeated
      <4>. QED
        BY <4>2, <4>3
    <3>2. Len(new) \in Nat
      BY <1>1, <2>2
    <3>. QED
      BY <3>1, <3>2 DEF Unrepeated
  <2>5. ASSUME seq \in Seq(S) PROVE Len(new) = i /\ \A j \in 1..i : new[j] = seq[j]
    <3>1. Len(old) = i - 1
      BY <1>1, <2>5
    <3>2. ASSUME NEW j \in 1..i PROVE new[j] = seq[j]
      <4>1. CASE j = i
        BY <1>2, <2>2, <3>1, <4>1
      <4>2. CASE j # i
        <5>1. j \in 1..(i - 1)
          BY <1>2, <4>2
        <5>. QED
          BY <1>1, <2>2, <2>5, <3>1, <5>1
      <4>. QED
        BY <4>1, <4>2
    <3>. QED
      BY <1>2, <2>2, <3>1, <3>2
  <2>6. Len(new) <= i
    BY <1>1, <1>2, <2>2
  <2>. QED
    BY <2>2, <2>3, <2>4, <2>5, <2>6 DEF Filtered
<1>4. ASSUME seq[i] \notin S PROVE Filtered(seq, T, S, i, old)
  <2>1. seq \notin Seq(S)
    BY <1>4
  <2>2. Len(old) <= i /\ 1..(i - 1) \subseteq 1..i
    BY <1>1, <1>2
  <2>. QED
    BY <1>1, <2>1, <2>2 DEF Filtered
<1>. QED
  BY <1>3, <1>4

LEMMA OnlyInIs ==
  ASSUME NEW T, NEW seq \in Seq(T), NEW S
  PROVE  /\ OnlyIn(seq, S) \in Seq(T \cap S)
         /\ Len(OnlyIn(seq, S)) <= Len(seq)
         /\ Unrepeated(seq) => Unrepeated(OnlyIn(seq, S))
         /\ seq \in Seq(S) => OnlyIn(seq, S) = seq
<1> DEFINE n == Len(seq)
           kept == CHOOSE k : k = [i \in 0..n |-> IF i = 0 THEN <<>>
                                     ELSE IF seq[i] \in S THEN Append(k[i - 1], seq[i])
                                     ELSE k[i - 1]]
           R == Seq(T)
           base == <<>>
           next == [p \in (1..n) \X R |->
                      IF seq[p[1]] \in S THEN Append(p[2], seq[p[1]]) ELSE p[2]]
<1>1. n \in Nat /\ (\A i \in 1..n : seq[i] \in T) /\ base \in R
  OBVIOUS
<1>2. OnlyIn(seq, S) = kept[n]
  BY DEF OnlyIn
<1> HIDE DEF n
<1>3. next \in [(1..n) \X R -> R]
  <2> SUFFICES ASSUME NEW i \in 1..n, NEW s \in Seq(T)
               PROVE  (IF seq[i] \in S THEN Append(s, seq[i]) ELSE s) \in Seq(T)
    OBVIOUS
  <2>. QED
    BY <1>1
<1>4. \A i \in 1..n : \A s \in R : next[<<i, s>>] = IF seq[i] \in S THEN Append(s, seq[i]) ELSE s
  OBVIOUS
<1> HIDE DEF next, R
<1>5. PICK run : IsRun(run, n, R, base, next)
  <2> HIDE DEF base, kept
  <2>. QED
    BY <1>1, <1>3, LoopRuns
<1>6. \A i \in 1..n : next[<<i, run[i - 1]>>] =
                        IF seq[i] \in S THEN Append(run[i - 1], seq[i]) ELSE run[i - 1]
  <2>1. \A i \in 1..n : run[i - 1] \in R
    BY <1>1, <1>5 DEF IsRun
  <2>. QED
    BY <1>4, <2>1
<1>7. run = [i \in 0..n |-> IF i = 0 THEN <<>>
                            ELSE IF seq[i] \in S THEN Append(run[i - 1], seq[i])
                            ELSE run[i - 1]]
  <2>1. \A i \in 0..n : i # 0 => i \in 1..n
    BY <1>1
  <2>. QED
    BY <1>5, <1>6, <2>1 DEF IsRun
<1>8. kept = [i \in 0..n |-> IF i = 0 THEN <<>>
                             ELSE IF seq[i] \in S THEN Append(kept[i - 1], seq[i])
                             ELSE kept[i - 1]]
  BY <1>7
<1> HIDE DEF kept
<1>9. kept[0] = <<>>
  BY <1>1, <1>8
<1>10. ASSUME NEW i \in 1..n
       PROVE  kept[i] = IF seq[i] \in S THEN Append(kept[i - 1], seq[i]) ELSE kept[i - 1]
  <2>1. i \in 0..n /\ i # 0
    BY <1>1
  <2>. QED
    BY <1>8, <2>1
<1> DEFINE good == {i \in 0..n : Filtered(seq, T, S, i, kept[i])}
<1>11. 0 \in good
  <2> DEFINE none == <<>>
  <2>1. none \in Seq(T \cap S) /\ Len(none) = 0
    OBVIOUS
  <2> HIDE DEF none
  <2>2. Filtered(seq, T, S, 0, none)
    BY <2>1 DEF Filtered, Unrepeated
  <2>. QED
    BY <1>1, <1>9, <2>2 DEF none
<1>12. ASSUME NEW i \in 1..n, i - 1 \in good PROVE i \in good
  <2>1. Filtered(seq, T, S, i - 1, kept[i - 1]) /\ i \in 0..n
    BY <1>1, <1>12
  <2> HIDE DEF good
  <2>2. Filtered(seq, T, S, i, kept[i])
    BY <1>10, <2>1, FilterStep DEF n
  <2>. QED
    BY <2>1, <2>2 DEF good
<1>13. n \in good
  <2> HIDE DEF good
  <2>1. \A i \in 0..n : i \in good
    BY <1>1, <1>11, <1>12, UpTo
  <2>. QED
    BY <1>1, <2>1
<1>14. Filtered(seq, T, S, n, kept[n])
  BY <1>13
<1> HIDE DEF good
<1>15. seq \in Seq(S) => kept[n] = seq
  <2> SUFFICES ASSUME seq \in Seq(S) PROVE kept[n] = seq
    OBVIOUS
  <2>1. kept[n] \in Seq(T) /\ Len(kept[n]) = n /\ \A j \in 1..n : kept[n][j] = seq[j]
    BY <1>14 DEF Filtered
  <2>. QED
    BY <2>1, SeqEqual DEF n
<1>. QED
  BY <1>2, <1>14, <1>15 DEF n, Filtered

\* A member is taken where it first occurs.  After i positions:
Gathered(seq, T, i, s) ==
  /\ s \in Seq(T) /\ Unrepeated(s)
  /\ Unrepeated(seq) => Len(s) = i /\ \A j \in 1..i : s[j] = seq[j]

LEMMA GatherStep ==
  ASSUME NEW T, NEW seq \in Seq(T), NEW i \in 1..Len(seq), NEW old, Gathered(seq, T, i - 1, old)
  PROVE  /\ Contains(old, seq[i]) => Gathered(seq, T, i, old)
         /\ ~ Contains(old, seq[i]) => Gathered(seq, T, i, Append(old, seq[i]))
<1> DEFINE new == Append(old, seq[i])
<1>1. /\ old \in Seq(T) /\ Len(old) \in Nat /\ Unrepeated(old)
      /\ Unrepeated(seq) => Len(old) = i - 1 /\ \A j \in 1..(i - 1) : old[j] = seq[j]
  BY DEF Gathered
<1>2. seq[i] \in T /\ i \in Nat /\ Len(seq) \in Nat /\ i <= Len(seq)
  OBVIOUS
<1>3. ASSUME Contains(old, seq[i]) PROVE Gathered(seq, T, i, old)
  <2>1. ASSUME Unrepeated(seq) PROVE FALSE
    <3>1. PICK j \in 1..Len(old) : old[j] = seq[i]
      BY <1>3 DEF Contains
    <3>2. j \in 1..(i - 1) /\ seq[j] = seq[i]
      BY <1>1, <2>1, <3>1
    <3>. QED
      BY <1>2, <2>1, <3>2 DEF Unrepeated
  <2>. QED
    BY <1>1, <2>1 DEF Gathered
<1>4. ASSUME ~ Contains(old, seq[i]) PROVE Gathered(seq, T, i, new)
  <2>1. \A j \in 1..Len(old) : old[j] # seq[i]
    BY <1>4 DEF Contains
  <2>2. /\ new \in Seq(T) /\ Len(new) = Len(old) + 1
        /\ \A j \in 1..Len(old) : new[j] = old[j]
        /\ new[Len(old) + 1] = seq[i]
    BY <1>1, <1>2, AppendProperties
  <2> HIDE DEF new
  <2>3. \A j \in 1..Len(new) : j \in 1..Len(old) \/ j = Len(old) + 1
    BY <1>1, <2>2
  <2>4. Unrepeated(new)
    <3> SUFFICES ASSUME NEW j \in 1..Len(new), NEW k \in 1..Len(new), new[j] = new[k]
                 PROVE  j = k
      BY DEF Unrepeated
    <3>1. CASE j \in 1..Len(old) /\ k \in 1..Len(old)
      BY <1>1, <2>2, <3>1 DEF Unrepeated
    <3>2. CASE j = Len(old) + 1 \/ k = Len(old) + 1
      BY <2>1, <2>2, <2>3, <3>2
    <3>. QED
      BY <2>3, <3>1, <3>2
  <2>5. ASSUME Unrepeated(seq) PROVE Len(new) = i /\ \A j \in 1..i : new[j] = seq[j]
    <3>1. Len(old) = i - 1
      BY <1>1, <2>5
    <3>2. ASSUME NEW j \in 1..i PROVE new[j] = seq[j]
      <4>1. CASE j = i
        BY <1>2, <2>2, <3>1, <4>1
      <4>2. CASE j # i
        <5>1. j \in 1..(i - 1)
          BY <1>2, <4>2
        <5>. QED
          BY <1>1, <2>2, <2>5, <3>1, <5>1
      <4>. QED
        BY <4>1, <4>2
    <3>. QED
      BY <1>2, <2>2, <3>1, <3>2
  <2>. QED
    BY <2>2, <2>4, <2>5 DEF Gathered
<1>. QED
  BY <1>3, <1>4

\* The distinct members of a sequence come without repetitions, and all of one without them.
LEMMA DistinctIs ==
  ASSUME NEW T, NEW seq \in Seq(T)
  PROVE  /\ Distinct(seq) \in Seq(T) /\ Unrepeated(Distinct(seq))
         /\ Unrepeated(seq) => Distinct(seq) = seq
<1> DEFINE n == Len(seq)
           kept == CHOOSE k : k = [i \in 0..n |-> IF i = 0 THEN <<>>
                                     ELSE IF Contains(k[i - 1], seq[i]) THEN k[i - 1]
                                     ELSE Append(k[i - 1], seq[i])]
           R == Seq(T)
           base == <<>>
           next == [p \in (1..n) \X R |->
                      IF Contains(p[2], seq[p[1]]) THEN p[2] ELSE Append(p[2], seq[p[1]])]
<1>1. n \in Nat /\ (\A i \in 1..n : seq[i] \in T) /\ base \in R
  OBVIOUS
<1>2. Distinct(seq) = kept[n]
  BY DEF Distinct
<1> HIDE DEF n
<1>3. next \in [(1..n) \X R -> R]
  <2> SUFFICES ASSUME NEW i \in 1..n, NEW s \in Seq(T)
               PROVE  (IF Contains(s, seq[i]) THEN s ELSE Append(s, seq[i])) \in Seq(T)
    OBVIOUS
  <2>. QED
    BY <1>1
<1>4. \A i \in 1..n : \A s \in R :
        next[<<i, s>>] = IF Contains(s, seq[i]) THEN s ELSE Append(s, seq[i])
  OBVIOUS
<1> HIDE DEF next, R
<1>5. PICK run : IsRun(run, n, R, base, next)
  <2> HIDE DEF base, kept
  <2>. QED
    BY <1>1, <1>3, LoopRuns
<1>6. \A i \in 1..n : next[<<i, run[i - 1]>>] =
                        IF Contains(run[i - 1], seq[i]) THEN run[i - 1]
                        ELSE Append(run[i - 1], seq[i])
  <2>1. \A i \in 1..n : run[i - 1] \in R
    BY <1>1, <1>5 DEF IsRun
  <2>. QED
    BY <1>4, <2>1
<1>7. run = [i \in 0..n |-> IF i = 0 THEN <<>>
                            ELSE IF Contains(run[i - 1], seq[i]) THEN run[i - 1]
                            ELSE Append(run[i - 1], seq[i])]
  <2>1. \A i \in 0..n : i # 0 => i \in 1..n
    BY <1>1
  <2>. QED
    BY <1>5, <1>6, <2>1 DEF IsRun
<1>8. kept = [i \in 0..n |-> IF i = 0 THEN <<>>
                             ELSE IF Contains(kept[i - 1], seq[i]) THEN kept[i - 1]
                             ELSE Append(kept[i - 1], seq[i])]
  BY <1>7
<1> HIDE DEF kept
<1>9. kept[0] = <<>>
  BY <1>1, <1>8
<1>10. ASSUME NEW i \in 1..n
       PROVE  kept[i] = IF Contains(kept[i - 1], seq[i]) THEN kept[i - 1]
                        ELSE Append(kept[i - 1], seq[i])
  <2>1. i \in 0..n /\ i # 0
    BY <1>1
  <2>. QED
    BY <1>8, <2>1
<1> DEFINE good == {i \in 0..n : Gathered(seq, T, i, kept[i])}
<1>11. 0 \in good
  <2> DEFINE none == <<>>
  <2>1. none \in Seq(T) /\ Len(none) = 0
    OBVIOUS
  <2> HIDE DEF none
  <2>2. Gathered(seq, T, 0, none)
    BY <2>1 DEF Gathered, Unrepeated
  <2>. QED
    BY <1>1, <1>9, <2>2 DEF none
<1>12. ASSUME NEW i \in 1..n, i - 1 \in good PROVE i \in good
  <2>1. Gathered(seq, T, i - 1, kept[i - 1]) /\ i \in 0..n
    BY <1>1, <1>12
  <2> HIDE DEF good
  <2>2. Gathered(seq, T, i, kept[i])
    BY <1>10, <2>1, GatherStep DEF n
  <2>. QED
    BY <2>1, <2>2 DEF good
<1>13. n \in good
  <2> HIDE DEF good
  <2>1. \A i \in 0..n : i \in good
    BY <1>1, <1>11, <1>12, UpTo
  <2>. QED
    BY <1>1, <2>1
<1>14. Gathered(seq, T, n, kept[n])
  BY <1>13
<1> HIDE DEF good
<1>15. Unrepeated(seq) => kept[n] = seq
  <2> SUFFICES ASSUME Unrepeated(seq) PROVE kept[n] = seq
    OBVIOUS
  <2>1. kept[n] \in Seq(T) /\ Len(kept[n]) = n /\ \A j \in 1..n : kept[n][j] = seq[j]
    BY <1>14 DEF Gathered
  <2>. QED
    BY <2>1, SeqEqual DEF n
<1>. QED
  BY <1>2, <1>14, <1>15 DEF n, Gathered

-----------------------------------------------------------------------------
(* The comparison workspace.                                                 *)

\* A basket, which an address of the page spells out and reading it gives back.
IsBasket(b) == b \in Seq(Universe) /\ Len(b) <= CompareMax /\ Unrepeated(b)

LEMMA ParsedIsBasket ==
  ASSUME NEW words \in Seq(DOMAIN Spelled)
  PROVE  IsBasket(ParseTickers(words))
<1> DEFINE spelled == [i \in DOMAIN words |-> Spelled[words[i]]]
           tickers == OnlyIn(spelled, Universe)
           kept == Distinct(tickers)
           last == IF Len(kept) < CompareMax THEN Len(kept) ELSE CompareMax
<1>1. spelled \in Seq(Universe \cup {Blank})
  <2>1. \A i \in 1..Len(words) : Spelled[words[i]] \in Universe \cup {Blank}
    BY CompareAssumption
  <2>. QED
    BY <2>1
<1> HIDE DEF spelled
<1>2. tickers \in Seq((Universe \cup {Blank}) \cap Universe)
  BY <1>1, OnlyInIs
<1>3. (Universe \cup {Blank}) \cap Universe = Universe
  OBVIOUS
<1>4. tickers \in Seq(Universe)
  BY <1>2, <1>3
<1> HIDE DEF tickers
<1>5. kept \in Seq(Universe) /\ Unrepeated(kept)
  BY <1>4, DistinctIs
<1>6. ParseTickers(words) = SubSeq(kept, 1, last)
  BY DEF ParseTickers, kept, tickers, spelled, last
<1> HIDE DEF kept
<1>7. last \in Nat /\ last <= Len(kept) /\ last <= CompareMax
  BY <1>5, CompareAssumption
<1> HIDE DEF last
<1>8. \A i \in 1..last : kept[i] \in Universe
  BY <1>5, <1>7
<1> DEFINE front == SubSeq(kept, 1, last)
<1>9. /\ front \in Seq(Universe) /\ Len(front) = last
      /\ \A i \in 1..last : front[i] = kept[i]
  <2>1. 1 \in Int /\ last \in Int
    BY <1>7
  <2>2. /\ front \in Seq(Universe)
        /\ Len(front) = IF 1 <= last THEN last - 1 + 1 ELSE 0
        /\ \A i \in 1..(last - 1 + 1) : front[i] = kept[1 + i - 1]
    BY <1>8, <2>1, SubSeqProperties
  <2> HIDE DEF front
  <2>. QED
    BY <1>7, <2>2
<1> HIDE DEF front
<1>10. Unrepeated(front)
  BY <1>5, <1>7, <1>9 DEF Unrepeated
<1>. QED
  BY <1>6, <1>7, <1>9, <1>10 DEF IsBasket, front

LEMMA BasketReadsBack ==
  ASSUME NEW b, IsBasket(b)
  PROVE  ParseTickers(b) = b /\ b \in Seq(DOMAIN Spelled)
<1>1. b \in Seq(Universe) /\ Len(b) <= CompareMax /\ Unrepeated(b) /\ Len(b) \in Nat
  BY DEF IsBasket
<1> DEFINE spelled == [i \in DOMAIN b |-> Spelled[b[i]]]
<1>2. spelled = b
  BY <1>1, CompareAssumption
<1>3. b \in Seq(DOMAIN Spelled)
  <2>1. Universe \subseteq DOMAIN Spelled
    BY CompareAssumption
  <2>. QED
    BY <1>1, <2>1
<1> HIDE DEF spelled
<1>4. OnlyIn(b, Universe) = b
  BY <1>1, OnlyInIs
<1>5. Distinct(b) = b
  BY <1>1, DistinctIs
<1> DEFINE last == IF Len(b) < CompareMax THEN Len(b) ELSE CompareMax
<1>6. last = Len(b)
  BY <1>1, CompareAssumption
<1>7. ParseTickers(b) = SubSeq(b, 1, last)
  <2>1. ParseTickers(b) =
          LET kept == Distinct(OnlyIn(spelled, Universe))
          IN  SubSeq(kept, 1, IF Len(kept) < CompareMax THEN Len(kept) ELSE CompareMax)
    BY DEF ParseTickers, spelled
  <2>. QED
    BY <1>2, <1>4, <1>5, <2>1
<1> HIDE DEF last
<1>8. SubSeq(b, 1, Len(b)) = b
  BY <1>1
<1>. QED
  BY <1>3, <1>6, <1>7, <1>8

\* The presses of the picker make baskets of baskets.
LEMMA AddedIsBasket ==
  ASSUME NEW b, IsBasket(b), NEW t \in Universe, ~ Contains(b, t), CompareMax - Len(b) > 0
  PROVE  IsBasket(Append(b, t))
<1> DEFINE new == Append(b, t)
<1>1. /\ b \in Seq(Universe) /\ Unrepeated(b) /\ Len(b) \in Nat
      /\ \A i \in 1..Len(b) : b[i] # t
  BY DEF IsBasket, Contains
<1>2. /\ new \in Seq(Universe) /\ Len(new) = Len(b) + 1
      /\ \A i \in 1..Len(b) : new[i] = b[i]
      /\ new[Len(b) + 1] = t
  BY <1>1, AppendProperties
<1> HIDE DEF new
<1>3. \A i \in 1..Len(new) : i \in 1..Len(b) \/ i = Len(b) + 1
  BY <1>1, <1>2
<1>4. Unrepeated(new)
  <2> SUFFICES ASSUME NEW i \in 1..Len(new), NEW j \in 1..Len(new), new[i] = new[j]
               PROVE  i = j
    BY DEF Unrepeated
  <2>1. CASE i \in 1..Len(b) /\ j \in 1..Len(b)
    BY <1>1, <1>2, <2>1 DEF Unrepeated
  <2>2. CASE i = Len(b) + 1 \/ j = Len(b) + 1
    BY <1>1, <1>2, <1>3, <2>2
  <2>. QED
    BY <1>3, <2>1, <2>2
<1>5. Len(new) <= CompareMax
  BY <1>1, <1>2, CompareAssumption
<1>. QED
  BY <1>2, <1>4, <1>5 DEF IsBasket, new

LEMMA FilteredOfUniverse ==
  ASSUME NEW seq \in Seq(Universe), NEW S
  PROVE  OnlyIn(seq, S) \in Seq(Universe)
<1>1. OnlyIn(seq, S) \in Seq(Universe \cap S)
  BY OnlyInIs
<1>. QED
  BY <1>1

LEMMA RemovedIsBasket ==
  ASSUME NEW b, IsBasket(b), NEW S
  PROVE  IsBasket(OnlyIn(b, S))
<1> DEFINE new == OnlyIn(b, S)
<1>1. b \in Seq(Universe) /\ Unrepeated(b) /\ Len(b) <= CompareMax /\ Len(b) \in Nat
  BY DEF IsBasket
<1>2. new \in Seq(Universe) /\ Unrepeated(new) /\ Len(new) <= Len(b)
  BY <1>1, OnlyInIs, FilteredOfUniverse
<1> HIDE DEF new
<1>3. Len(new) \in Nat /\ Len(new) <= CompareMax
  BY <1>1, <1>2, CompareAssumption
<1>. QED
  BY <1>2, <1>3 DEF IsBasket, new

\* The page draws a basket, and an address on its way is of one.
PickerFields == {"query", "results", "status", "focused", "universe"}

CompareSound ==
  /\ IsBasket(compared.tickers) /\ compared.bars \in [ToSet(compared.tickers) -> Histories]
  /\ pushed # NoPush => IsBasket(pushed.tickers)
  /\ DOMAIN picker = PickerFields /\ picker.results \in Seq(Universe)
  /\ \A a \in asked : a.query \in DOMAIN Typed

LEMMA InitCompareSound == CompareInit => CompareSound
<1> SUFFICES ASSUME CompareInit PROVE CompareSound
  OBVIOUS
<1>1. PICK words \in Addresses, w \in Windows : \E bars \in Series(ParseTickers(words)) :
        CompareOn(ParseTickers(words), w, bars)
  BY DEF CompareInit
<1>2. PICK bars \in Series(ParseTickers(words)) : CompareOn(ParseTickers(words), w, bars)
  BY <1>1
<1>3. words \in Seq(DOMAIN Spelled)
  BY CompareAssumption
<1>4. IsBasket(compared.tickers) /\ compared.bars \in [ToSet(compared.tickers) -> Histories]
  BY <1>2, <1>3, ParsedIsBasket DEF CompareOn, Series
<1>. QED
  BY <1>2, <1>4 DEF CompareOn, CompareSound, PickerFields

LEMMA StepCompareSound == CompareSound /\ [CompareNext]_compareVars => CompareSound'
<1> SUFFICES ASSUME CompareSound, [CompareNext]_compareVars PROVE CompareSound'
  OBVIOUS
<1>1. CASE Land
  <2>1. pushed.tickers \in Seq(DOMAIN Spelled)
    BY <1>1, BasketReadsBack DEF Land, CompareSound
  <2>2. IsBasket(ParseTickers(pushed.tickers))
    BY <2>1, ParsedIsBasket
  <2>3. /\ compared'.tickers = ParseTickers(pushed.tickers)
        /\ compared'.bars \in [ToSet(compared'.tickers) -> Histories]
    BY <1>1 DEF Land, Series
  <2>. QED
    BY <1>1, <2>2, <2>3 DEF Land, CompareSound
<1>2. ASSUME NEW b, NEW w, IsBasket(b), Push(b, w), UNCHANGED <<compared, asked>>,
             DOMAIN picker' = PickerFields, picker'.results \in Seq(Universe)
      PROVE  CompareSound'
  BY <1>2 DEF Push, CompareSound
<1>3. CASE LoadSample
  <2>1. IsBasket(SampleTickers)
    BY CompareAssumption DEF IsBasket, Unrepeated
  <2>. QED
    BY <1>2, <1>3, <2>1 DEF LoadSample, CompareSound
<1>4. ASSUME NEW w \in Windows, ChooseWindow(w) PROVE CompareSound'
  BY <1>2, <1>4 DEF ChooseWindow, CompareSound
<1>5. ASSUME UNCHANGED <<compared, pushed>>, DOMAIN picker' = PickerFields,
             picker'.results \in Seq(Universe), \A a \in asked' : a.query \in DOMAIN Typed
      PROVE  CompareSound'
  BY <1>5 DEF CompareSound
<1>6. CASE FocusInput \/ BlurInput \/ UniverseLoaded
  <2>1. DOMAIN picker' = PickerFields /\ picker'.results = picker.results
    BY <1>6 DEF FocusInput, BlurInput, UniverseLoaded, CompareSound, PickerFields
  <2>. QED
    BY <1>5, <1>6, <2>1 DEF FocusInput, BlurInput, UniverseLoaded, CompareSound
<1>7. ASSUME NEW q \in DOMAIN Typed \cup {NoQuery}, TypeQuery(q) PROVE CompareSound'
  <2>1. DOMAIN picker' = PickerFields /\ picker'.results \in {picker.results, <<>>}
    BY <1>7 DEF TypeQuery, CompareSound, PickerFields
  <2>2. \A a \in asked' : a.query \in DOMAIN Typed
    BY <1>7 DEF TypeQuery, CompareSound
  <2>3. picker'.results \in Seq(Universe)
    <3>1. <<>> \in Seq(Universe) /\ picker.results \in Seq(Universe)
      BY DEF CompareSound
    <3>. QED
      BY <2>1, <3>1
  <2>. QED
    BY <1>5, <1>7, <2>1, <2>2, <2>3 DEF TypeQuery
<1>8. ASSUME NEW a \in asked, QueryAnswered(a) \/ QueryFailed(a) PROVE CompareSound'
  <2>1. Typed[a.query] \in Seq(Universe)
    BY CompareAssumption DEF CompareSound
  <2>2. NewTo(a.basket, Typed[a.query]) \in Seq(Universe)
    BY <2>1, FilteredOfUniverse DEF NewTo
  <2>3. /\ DOMAIN picker' = PickerFields
        /\ picker'.results \in {NewTo(a.basket, Typed[a.query]), <<>>}
    BY <1>8 DEF QueryAnswered, QueryFailed, CompareSound, PickerFields
  <2>4. asked' \subseteq asked
    BY <1>8 DEF QueryAnswered, QueryFailed
  <2>5. picker'.results \in Seq(Universe)
    <3>1. <<>> \in Seq(Universe)
      OBVIOUS
    <3>. QED
      BY <2>2, <2>3, <3>1
  <2>6. \A b \in asked' : b.query \in DOMAIN Typed
    BY <2>4 DEF CompareSound
  <2>. QED
    BY <1>5, <1>8, <2>3, <2>5, <2>6 DEF QueryAnswered, QueryFailed
<1>9. ASSUME NEW t \in Universe, AddTicker(t) PROVE CompareSound'
  <2>1. IsBasket(Append(compared.tickers, t))
    BY <1>9, AddedIsBasket DEF AddTicker, Remaining, CompareSound
  <2>2. DOMAIN picker' = PickerFields /\ picker'.results = <<>>
    BY <1>9 DEF AddTicker, CompareSound, PickerFields
  <2>. QED
    BY <1>2, <1>9, <2>1, <2>2 DEF AddTicker
<1>10. CASE PickRow
  <2>1. BrowseRows \in Seq(Universe)
    BY FilteredOfUniverse, CompareAssumption DEF BrowseRows, NewTo
  <2>2. VisibleRows \in Seq(Universe)
    BY <2>1 DEF VisibleRows, CompareSound
  <2>3. PICK i \in DOMAIN VisibleRows : AddTicker(VisibleRows[i])
    BY <1>10 DEF PickRow
  <2>4. VisibleRows[i] \in Universe
    BY <2>2
  <2>. QED
    BY <1>9, <2>3, <2>4
<1>11. CASE PickWatched
  <2>1. PICK i \in DOMAIN Watched : AddTicker(Watched[i])
    BY <1>11 DEF PickWatched
  <2>2. Watched[i] \in Universe
    BY CompareAssumption
  <2>. QED
    BY <1>9, <2>1, <2>2
<1>12. ASSUME NEW t \in Universe, RemoveTicker(t) PROVE CompareSound'
  <2>1. IsBasket(OnlyIn(compared.tickers, Universe \ {t}))
    BY RemovedIsBasket DEF CompareSound
  <2>. QED
    BY <1>2, <1>12, <2>1 DEF RemoveTicker, CompareSound
<1>13. CASE UNCHANGED compareVars
  BY <1>13 DEF compareVars, CompareSound
<1>. QED
  BY <1>1, <1>3, <1>4, <1>6, <1>7, <1>8, <1>10, <1>11, <1>12, <1>13 DEF CompareNext

-----------------------------------------------------------------------------
\* Shares are compared by their cross products.
IsShare(a) == a.num \in Int /\ a.den \in Nat \ {0}

LEMMA AboveIsAnOrder ==
  ASSUME NEW a, NEW b, NEW c, IsShare(a), IsShare(b), IsShare(c)
  PROVE  /\ ~ Above(a, a)
         /\ Above(a, b) => ~ Above(b, a)
         /\ ~ Above(a, b) /\ ~ Above(b, c) => ~ Above(a, c)
<1>1. \A x, y, z \in Int : y <= z /\ x >= 0 => x * y <= x * z
  OBVIOUS
<1>2. \A x, y, z \in Int : x > 0 /\ x * y <= x * z => y <= z
  OBVIOUS
<1>3. ASSUME ~ Above(a, b), ~ Above(b, c) PROVE ~ Above(a, c)
  <2>1. a.num * b.den <= b.num * a.den /\ b.num * c.den <= c.num * b.den
    BY <1>3 DEF Above, IsShare
  <2>2. c.den * (a.num * b.den) <= c.den * (b.num * a.den)
    BY <1>1, <2>1 DEF IsShare
  <2>3. a.den * (b.num * c.den) <= a.den * (c.num * b.den)
    BY <1>1, <2>1 DEF IsShare
  <2>4. b.den * (a.num * c.den) <= b.den * (c.num * a.den)
    BY <2>2, <2>3 DEF IsShare
  <2>5. a.num * c.den <= c.num * a.den
    BY <1>2, <2>4 DEF IsShare
  <2>. QED
    BY <2>5 DEF Above, IsShare
<1>. QED
  BY <1>3 DEF Above, IsShare

\* The first i closes: their peak, and the worst fall among them.
Fall(c, p, q) == [num |-> c[p] - c[q], den |-> c[p]]

Drawn(c, i, r) ==
  /\ r.peak \in Nat /\ IsShare(r.worst) /\ r.worst.num >= 0
  /\ \E p \in 1..Len(c) : r.peak = c[p] /\ (p <= i \/ p = 1)
  /\ \A p \in 1..i : c[p] <= r.peak
  /\ \A p, q \in 1..i : p <= q /\ c[p] > 0 => ~ Above(Fall(c, p, q), r.worst)
  /\ r.worst.num > 0 => \E p, q \in 1..i : p <= q /\ c[p] > 0 /\ r.worst = Fall(c, p, q)

PeakNext(c, i, r) == IF c[i] > r.peak THEN c[i] ELSE r.peak
FallNext(c, i, r) == [num |-> PeakNext(c, i, r) - c[i], den |-> PeakNext(c, i, r)]
DrawNext(c, i, r) ==
  [peak |-> PeakNext(c, i, r),
   worst |-> IF PeakNext(c, i, r) > 0 /\ Above(FallNext(c, i, r), r.worst)
             THEN FallNext(c, i, r) ELSE r.worst]

LEMMA DrawStep ==
  ASSUME NEW c \in Seq(Nat), NEW i \in 1..Len(c), NEW r, Drawn(c, i - 1, r)
  PROVE  Drawn(c, i, DrawNext(c, i, r))
<1> DEFINE peak == PeakNext(c, i, r)
           fall == FallNext(c, i, r)
           new == DrawNext(c, i, r)
<1>1. /\ i \in Nat /\ Len(c) \in Nat /\ i <= Len(c)
      /\ \A p \in 1..i : c[p] \in Nat
  OBVIOUS
<1>2. /\ r.peak \in Nat /\ IsShare(r.worst) /\ r.worst.num >= 0
      /\ \A p \in 1..(i - 1) : c[p] <= r.peak
      /\ \A p, q \in 1..(i - 1) : p <= q /\ c[p] > 0 => ~ Above(Fall(c, p, q), r.worst)
      /\ r.worst.num > 0 => \E p, q \in 1..(i - 1) : p <= q /\ c[p] > 0 /\ r.worst = Fall(c, p, q)
  BY DEF Drawn
<1>3. peak \in Nat /\ c[i] <= peak /\ \A p \in 1..i : c[p] <= peak
  <2>1. peak \in Nat /\ c[i] <= peak /\ r.peak <= peak
    BY <1>1, <1>2 DEF PeakNext
  <2>2. ASSUME NEW p \in 1..i PROVE c[p] <= peak
    <3>1. CASE p = i
      BY <2>1, <3>1
    <3>2. CASE p # i
      <4>1. p \in 1..(i - 1)
        BY <1>1, <3>2
      <4> HIDE DEF peak
      <4>. QED
        BY <1>1, <1>2, <2>1, <4>1
    <3>. QED
      BY <3>1, <3>2
  <2>. QED
    BY <2>1, <2>2
<1>4. PICK top \in 1..i : peak = c[top]
  <2>1. PICK p \in 1..Len(c) : r.peak = c[p] /\ (p <= i - 1 \/ p = 1)
    BY DEF Drawn
  <2>2. p \in 1..i /\ i \in 1..i
    BY <1>1, <2>1
  <2>. QED
    BY <2>1, <2>2 DEF PeakNext
<1>5. fall = [num |-> peak - c[i], den |-> peak] /\ new.peak = peak
      /\ new.worst = IF peak > 0 /\ Above(fall, r.worst) THEN fall ELSE r.worst
  BY DEF FallNext, DrawNext
<1> HIDE DEF peak, fall, new
<1>6. fall = Fall(c, top, i)
  BY <1>4, <1>5 DEF Fall
<1>7. ASSUME NEW p \in 1..i, NEW q \in 1..i, c[p] > 0 PROVE IsShare(Fall(c, p, q))
  BY <1>1, <1>7 DEF Fall, IsShare
<1>8. peak > 0 => IsShare(fall) /\ fall.num >= 0
  BY <1>1, <1>3, <1>5 DEF IsShare
\* Of the falls to the last close the one from the peak is the worst.
<1>9. ASSUME NEW p \in 1..i, c[p] > 0 PROVE peak > 0 /\ ~ Above(Fall(c, p, i), fall)
  <2>1. c[p] \in Nat /\ c[i] \in Nat /\ c[p] <= peak /\ peak > 0
    BY <1>1, <1>3, <1>9
  <2>2. \A x, y, z \in Nat : y <= z => x * y <= x * z
    OBVIOUS
  <2>3. c[i] * c[p] <= c[i] * peak
    BY <1>3, <2>1, <2>2
  <2>4. (c[p] - c[i]) * peak <= (peak - c[i]) * c[p]
    BY <1>3, <2>1, <2>3
  <2>. QED
    BY <1>3, <1>5, <2>1, <2>4 DEF Above, Fall
<1>10. ASSUME NEW p \in 1..i, NEW q \in 1..i, p <= q, c[p] > 0
       PROVE  ~ Above(Fall(c, p, q), new.worst)
  <2>1. IsShare(Fall(c, p, q)) /\ peak > 0 /\ IsShare(fall)
    BY <1>7, <1>8, <1>9, <1>10
  <2>2. q # i => ~ Above(Fall(c, p, q), r.worst)
    <3>1. q # i => p \in 1..(i - 1) /\ q \in 1..(i - 1)
      BY <1>1, <1>10
    <3>. QED
      BY <1>2, <1>10, <3>1
  <2>3. q = i => ~ Above(Fall(c, p, q), fall)
    BY <1>9, <1>10
  <2>4. CASE Above(fall, r.worst)
    <3>1. ~ Above(r.worst, fall)
      BY <1>2, <2>1, <2>4, AboveIsAnOrder
    <3>2. ~ Above(Fall(c, p, q), fall)
      BY <1>2, <2>1, <2>2, <2>3, <3>1, AboveIsAnOrder
    <3>. QED
      BY <1>5, <2>1, <2>4, <3>2
  <2>5. CASE ~ Above(fall, r.worst)
    <3>1. ~ Above(Fall(c, p, q), r.worst)
      BY <1>2, <2>1, <2>2, <2>3, <2>5, AboveIsAnOrder
    <3>. QED
      BY <1>5, <2>5, <3>1
  <2>. QED
    BY <2>4, <2>5
<1>11. new.worst.num > 0 => \E p, q \in 1..i : p <= q /\ c[p] > 0 /\ new.worst = Fall(c, p, q)
  <2>1. CASE peak > 0 /\ Above(fall, r.worst)
    <3>1. top <= i /\ c[top] > 0 /\ new.worst = Fall(c, top, i) /\ i \in 1..i
      BY <1>1, <1>4, <1>5, <1>6, <2>1
    <3>. QED
      BY <3>1
  <2>2. CASE ~ (peak > 0 /\ Above(fall, r.worst))
    <3>1. new.worst = r.worst /\ 1..(i - 1) \subseteq 1..i
      BY <1>1, <1>5, <2>2
    <3>. QED
      BY <1>2, <3>1
  <2>. QED
    BY <2>1, <2>2
<1>12. IsShare(new.worst) /\ new.worst.num >= 0
  BY <1>2, <1>5, <1>8
<1>13. \E p \in 1..Len(c) : new.peak = c[p] /\ (p <= i \/ p = 1)
  BY <1>1, <1>4, <1>5
<1>. QED
  BY <1>3, <1>5, <1>10, <1>11, <1>12, <1>13 DEF Drawn, new

LEMMA DrawdownIsWorst ==
  ASSUME NEW c \in Seq(Nat), Len(c) >= 2
  PROVE  LET worst == MaxDrawdown(c)
         IN  /\ \A p, q \in 1..Len(c) : p <= q /\ c[p] > 0 => ~ Above(Fall(c, p, q), worst)
             /\ worst.num > 0 =>
                  \E p, q \in 1..Len(c) : p <= q /\ c[p] > 0 /\ worst = Fall(c, p, q)
             /\ IsShare(worst)
<1> DEFINE n == Len(c)
           base == [peak |-> c[1], worst |-> [num |-> 0, den |-> 1]]
           run == CHOOSE f : f = [i \in 0..n |-> IF i = 0 THEN base ELSE DrawNext(c, i, f[i - 1])]
           R == [peak : Nat, worst : [num : Nat, den : Nat]]
           next == [p \in (1..n) \X R |-> DrawNext(c, p[1], p[2])]
<1>1. n \in Nat /\ n >= 2 /\ \A i \in 1..n : c[i] \in Nat
  OBVIOUS
<1>2. MaxDrawdown(c) = run[n].worst
  BY <1>1 DEF MaxDrawdown, DrawNext, PeakNext, FallNext
<1>3. base \in R
  BY <1>1
<1> HIDE DEF n, base
<1>4. \A i \in 1..n : \A r \in R : DrawNext(c, i, r) \in R
  <2> SUFFICES ASSUME NEW i \in 1..n, NEW r \in R PROVE DrawNext(c, i, r) \in R
    OBVIOUS
  <2>1. c[i] \in Nat /\ r.peak \in Nat /\ r.worst \in [num : Nat, den : Nat]
    BY <1>1
  <2>2. PeakNext(c, i, r) \in Nat /\ c[i] <= PeakNext(c, i, r)
    BY <2>1 DEF PeakNext
  <2>3. FallNext(c, i, r) \in [num : Nat, den : Nat]
    BY <2>1, <2>2 DEF FallNext
  <2>. QED
    BY <2>1, <2>2, <2>3 DEF DrawNext
<1> HIDE DEF R
<1>5. next \in [(1..n) \X R -> R]
  BY <1>4
<1>6. \A i \in 1..n : \A r \in R : next[<<i, r>>] = DrawNext(c, i, r)
  OBVIOUS
<1> HIDE DEF next
<1>7. PICK f : IsRun(f, n, R, base, next)
  <2> HIDE DEF run
  <2>. QED
    BY <1>1, <1>3, <1>5, LoopRuns
<1>8. f = [i \in 0..n |-> IF i = 0 THEN base ELSE DrawNext(c, i, f[i - 1])]
  <2>1. \A i \in 0..n : i # 0 => i \in 1..n
    BY <1>1
  <2>2. \A i \in 1..n : f[i - 1] \in R
    BY <1>1, <1>7 DEF IsRun
  <2>3. \A i \in 1..n : f[i] = DrawNext(c, i, f[i - 1])
    BY <1>6, <1>7, <2>2 DEF IsRun
  <2>. QED
    BY <1>7, <2>1, <2>3 DEF IsRun
<1>9. run = [i \in 0..n |-> IF i = 0 THEN base ELSE DrawNext(c, i, run[i - 1])]
  BY <1>8
<1> HIDE DEF run
<1>10. run[0] = base
  BY <1>1, <1>9
<1>11. ASSUME NEW i \in 1..n PROVE run[i] = DrawNext(c, i, run[i - 1])
  <2>1. i \in 0..n /\ i # 0
    BY <1>1
  <2>. QED
    BY <1>9, <2>1
<1> DEFINE good == {i \in 0..n : Drawn(c, i, run[i])}
<1>12. 0 \in good
  <2>1. 1 \in 1..Len(c) /\ c[1] \in Nat
    BY <1>1 DEF n
  <2>2. base.peak = c[1] /\ base.worst = [num |-> 0, den |-> 1]
    BY DEF base
  <2>3. Drawn(c, 0, base)
    BY <2>1, <2>2 DEF Drawn, IsShare
  <2>. QED
    BY <1>1, <1>10, <2>3
<1>13. ASSUME NEW i \in 1..n, i - 1 \in good PROVE i \in good
  <2>1. Drawn(c, i - 1, run[i - 1]) /\ i \in 0..n
    BY <1>1, <1>13
  <2> HIDE DEF good
  <2>2. Drawn(c, i, run[i])
    BY <1>11, <2>1, DrawStep DEF n
  <2>. QED
    BY <2>1, <2>2 DEF good
<1>14. n \in good
  <2> HIDE DEF good
  <2>1. \A i \in 0..n : i \in good
    BY <1>1, <1>12, <1>13, UpTo
  <2>. QED
    BY <1>1, <2>1
<1>15. Drawn(c, n, run[n])
  BY <1>14
<1>. QED
  BY <1>2, <1>15 DEF n, Drawn

-----------------------------------------------------------------------------
\* Of the rows with a return one is ranked before all others.
LEMMA LeaderRanksFirst ==
  ASSUME NEW n \in Nat, NEW rows, DOMAIN rows = 1..n, Ranked(rows) # {},
         \A i \in Ranked(rows) : IsShare(rows[i].returnPct)
  PROVE  /\ Leader(rows) \in Ranked(rows)
         /\ \A j \in Ranked(rows) :
              ~ Above(rows[j].returnPct, rows[Leader(rows)].returnPct)
<1> DEFINE W == Ranked(rows)
           First(k, i) == i \in W /\ i <= k /\ \A j \in W \ {i} : j <= k => RanksBefore(rows, i, j)
           good == {k \in 0..n : (\E j \in W : j <= k) => \E i \in W : First(k, i)}
<1>1. W \subseteq 1..n /\ W # {} /\ \A i \in W : IsShare(rows[i].returnPct)
  BY DEF Ranked
<1> HIDE DEF W
<1>2. 0 \in good
  BY <1>1
<1>3. ASSUME NEW k \in 1..n, k - 1 \in good PROVE k \in good
  <2>1. (\E j \in W : j <= k - 1) => \E i \in W : First(k - 1, i)
    BY <1>3
  <2>2. \A j \in W : j \in Nat /\ (j <= k => j <= k - 1 \/ j = k)
    BY <1>1
  <2> SUFFICES ASSUME NEW w \in W, w <= k PROVE \E i \in W : First(k, i)
    OBVIOUS
  <2>3. CASE k \notin W
    <3>1. w <= k - 1 /\ \A j \in W : j <= k => j <= k - 1
      BY <2>2, <2>3
    <3>2. PICK i \in W : First(k - 1, i)
      BY <2>1, <3>1
    <3>3. First(k, i)
      BY <2>2, <3>1, <3>2
    <3>. QED
      BY <3>3
  <2>4. CASE k \in W /\ \A j \in W : ~ (j <= k - 1)
    <3>1. First(k, k)
      BY <2>2, <2>4
    <3>. QED
      BY <2>4, <3>1
  <2>5. CASE k \in W /\ \E j \in W : j <= k - 1
    <3>1. PICK i \in W : First(k - 1, i)
      BY <2>1, <2>5
    <3>2. i < k
      BY <2>2, <3>1
    <3>3. CASE RanksBefore(rows, i, k)
      <4>1. First(k, i)
        BY <2>2, <3>1, <3>2, <3>3
      <4>. QED
        BY <4>1
    <3>4. CASE ~ RanksBefore(rows, i, k)
      <4>1. Above(rows[k].returnPct, rows[i].returnPct)
        BY <3>2, <3>4 DEF RanksBefore
      <4>2. ASSUME NEW j \in W \ {k}, j <= k PROVE RanksBefore(rows, k, j)
        <5>1. CASE j = i
          BY <4>1, <5>1 DEF RanksBefore
        <5>2. CASE j # i
          <6>1. RanksBefore(rows, i, j)
            BY <2>2, <3>1, <4>2, <5>2
          <6>2. ~ Above(rows[j].returnPct, rows[i].returnPct)
            BY <1>1, <6>1, AboveIsAnOrder DEF RanksBefore
          <6>3. Above(rows[k].returnPct, rows[j].returnPct)
            BY <1>1, <2>5, <4>1, <6>2, AboveIsAnOrder
          <6>. QED
            BY <6>3 DEF RanksBefore
        <5>. QED
          BY <5>1, <5>2
      <4>3. First(k, k)
        BY <2>5, <4>2
      <4>. QED
        BY <2>5, <4>3
    <3>. QED
      BY <3>3, <3>4
  <2>. QED
    BY <2>3, <2>4, <2>5
<1>4. n \in good
  <2> HIDE DEF good
  <2>1. \A k \in 0..n : k \in good
    BY <1>2, <1>3, UpTo
  <2>. QED
    BY <2>1
<1>5. PICK i \in W : \A j \in W \ {i} : RanksBefore(rows, i, j)
  <2>1. \A j \in W : j <= n
    BY <1>1
  <2>2. PICK i \in W : First(n, i)
    BY <1>1, <1>4, <2>1
  <2>. QED
    BY <2>1, <2>2
<1> DEFINE first == Leader(rows)
<1>6. first \in W /\ \A j \in W \ {first} : RanksBefore(rows, first, j)
  BY <1>5 DEF Leader, W
<1> HIDE DEF first
<1>7. ASSUME NEW j \in W PROVE ~ Above(rows[j].returnPct, rows[first].returnPct)
  <2>1. CASE j = first
    BY <1>1, <2>1, AboveIsAnOrder
  <2>2. CASE j # first
    BY <1>1, <1>6, <2>2, AboveIsAnOrder DEF RanksBefore
  <2>. QED
    BY <2>1, <2>2
<1>. QED
  BY <1>6, <1>7 DEF W, first

\* A symbol that gained more ends higher in the chart.
LEMMA ReturnsRankChartEnds ==
  ASSUME NEW c \in Seq(Nat), NEW d \in Seq(Nat), RangeReturn(d) # NoValue, Len(c) > 1,
         RangeReturn(c) # NoValue => ~ Above(RangeReturn(c), RangeReturn(d))
  PROVE  ~ Above(ChartEnd(c), ChartEnd(d))
<1> DEFINE dFirst == d[1]
           dLast == d[Len(d)]
           cFirst == c[1]
           cLast == c[Len(c)]
<1>1. Len(d) >= 2 /\ dFirst # 0
  BY DEF RangeReturn
<1>2. dFirst \in Nat \ {0} /\ dLast \in Nat /\ cFirst \in Nat /\ cLast \in Nat /\ d # <<>> /\ c # <<>>
  BY <1>1
<1>3. ChartEnd(d) = [num |-> dLast, den |-> dFirst] /\ RangeReturn(d) = [num |-> dLast - dFirst, den |-> dFirst]
  BY <1>1, <1>2 DEF ChartEnd, RangeReturn
<1>4. CASE cFirst = 0
  <2>1. ChartEnd(c) = [num |-> 0, den |-> 0]
    BY <1>4 DEF ChartEnd, NoValue
  <2> HIDE DEF dFirst, dLast
  <2>. QED
    BY <1>2, <1>3, <2>1 DEF Above
<1>5. CASE cFirst # 0
  <2>1. ChartEnd(c) = [num |-> cLast, den |-> cFirst] /\ RangeReturn(c) = [num |-> cLast - cFirst, den |-> cFirst]
    BY <1>2, <1>5 DEF ChartEnd, RangeReturn
  <2>2. RangeReturn(c) # NoValue
    BY <1>5, <2>1 DEF NoValue
  <2> HIDE DEF dFirst, dLast, cFirst, cLast
  <2>3. ~ ((cLast - cFirst) * dFirst > (dLast - dFirst) * cFirst)
    BY <1>3, <2>1, <2>2 DEF Above
  <2>4. cLast * dFirst <= dLast * cFirst
    BY <1>2, <2>3
  <2>. QED
    BY <1>2, <1>3, <2>1, <2>4 DEF Above
<1>. QED
  BY <1>4, <1>5

LEMMA SoundFactsAgree == CompareSound => WindowFactsAgree
<1> SUFFICES ASSUME CompareSound PROVE WindowFactsAgree
  OBVIOUS
<1> DEFINE tickers == compared.tickers
           n == Len(tickers)
           bars == compared.bars
           rows == MetricsTable
<1>1. /\ tickers \in Seq(Universe) /\ n \in Nat /\ ToSet(tickers) = {tickers[i] : i \in 1..n}
      /\ \A t \in ToSet(tickers) : bars[t] \in Seq(Nat)
  BY CompareAssumption DEF CompareSound, IsBasket, ToSet
<1>2. ASSUME NEW t \in ToSet(tickers)
      PROVE  LET c == bars[t]
                 falls == {[num |-> c[p[1]] - c[p[2]], den |-> c[p[1]]] :
                             p \in {q \in (DOMAIN c) \X (DOMAIN c) : q[1] <= q[2] /\ c[q[1]] > 0}}
                 worst == MaxDrawdown(c)
             IN  worst # NoValue =>
                   /\ \A f \in falls : ~ Above(f, worst)
                   /\ worst.num > 0 => \E f \in falls : ~ Above(worst, f)
  <2> DEFINE c == bars[t]
             falls == {[num |-> c[p[1]] - c[p[2]], den |-> c[p[1]]] :
                         p \in {q \in (DOMAIN c) \X (DOMAIN c) : q[1] <= q[2] /\ c[q[1]] > 0}}
             worst == MaxDrawdown(c)
  <2> SUFFICES ASSUME worst # NoValue
               PROVE  /\ \A f \in falls : ~ Above(f, worst)
                      /\ worst.num > 0 => \E f \in falls : ~ Above(worst, f)
    OBVIOUS
  <2>1. c \in Seq(Nat) /\ DOMAIN c = 1..Len(c)
    BY <1>1, <1>2
  <2> HIDE DEF c
  <2>2. Len(c) >= 2
    BY <2>1 DEF MaxDrawdown
  <2>3. /\ \A p, q \in 1..Len(c) : p <= q /\ c[p] > 0 => ~ Above(Fall(c, p, q), worst)
        /\ worst.num > 0 =>
             \E p, q \in 1..Len(c) : p <= q /\ c[p] > 0 /\ worst = Fall(c, p, q)
        /\ IsShare(worst)
    BY <2>1, <2>2, DrawdownIsWorst
  <2> HIDE DEF worst
  <2>4. \A f : f \in falls <=> \E p, q \in 1..Len(c) : p <= q /\ c[p] > 0 /\ f = Fall(c, p, q)
    <3>1. ASSUME NEW f \in falls
          PROVE  \E p, q \in 1..Len(c) : p <= q /\ c[p] > 0 /\ f = Fall(c, p, q)
      <4>1. PICK p \in (DOMAIN c) \X (DOMAIN c) :
              p[1] <= p[2] /\ c[p[1]] > 0 /\ f = Fall(c, p[1], p[2])
        BY DEF Fall
      <4>2. p[1] \in 1..Len(c) /\ p[2] \in 1..Len(c)
        BY <2>1
      <4>. QED
        BY <4>1, <4>2
    <3>2. ASSUME NEW p \in 1..Len(c), NEW q \in 1..Len(c), p <= q, c[p] > 0
          PROVE  Fall(c, p, q) \in falls
      <4>1. <<p, q>> \in {s \in (DOMAIN c) \X (DOMAIN c) : s[1] <= s[2] /\ c[s[1]] > 0}
        BY <2>1, <3>2
      <4>. QED
        BY <4>1 DEF Fall
    <3> HIDE DEF falls
    <3>. QED
      BY <3>1, <3>2
  <2> HIDE DEF falls
  <2>5. ~ Above(worst, worst)
    BY <2>3, AboveIsAnOrder
  <2>. QED
    BY <2>3, <2>4, <2>5
<1>3. /\ DOMAIN rows = 1..n
      /\ \A i \in 1..n : /\ rows[i].ticker = tickers[i]
                         /\ rows[i].returnPct = RangeReturn(bars[tickers[i]])
  BY <1>1 DEF MetricsTable
<1>4. \A i \in 1..n : tickers[i] \in ToSet(tickers) /\ bars[tickers[i]] \in Seq(Nat)
  BY <1>1
<1>5. ASSUME Insights.leader # Blank
      PROVE  \A t \in {s \in ToSet(tickers) : Len(bars[s]) > 1} :
               ~ Above(ChartEnd(bars[t]), ChartEnd(bars[Insights.leader]))
  <2>1. Ranked(rows) # {} /\ Insights.leader = rows[Leader(rows)].ticker
    BY <1>5 DEF Insights
  <2> HIDE DEF rows, tickers, bars, n
  <2>2. ASSUME NEW i \in Ranked(rows) PROVE i \in 1..n /\ IsShare(rows[i].returnPct)
    <3>1. i \in 1..n /\ RangeReturn(bars[tickers[i]]) # NoValue
      BY <1>3 DEF Ranked
    <3> DEFINE c == bars[tickers[i]]
    <3>2. c \in Seq(Nat)
      BY <1>4, <3>1
    <3> HIDE DEF c
    <3>3. Len(c) >= 2 /\ c[1] # 0 /\ RangeReturn(c) = [num |-> c[Len(c)] - c[1], den |-> c[1]]
      BY <3>1, <3>2 DEF RangeReturn, c
    <3>4. c[1] \in Nat /\ c[Len(c)] \in Nat
      BY <3>2, <3>3
    <3>5. IsShare(RangeReturn(c))
      BY <3>3, <3>4 DEF IsShare
    <3>. QED
      BY <1>3, <3>1, <3>5 DEF c
  <2> DEFINE first == Leader(rows)
  <2>3. /\ first \in Ranked(rows)
        /\ \A j \in Ranked(rows) : ~ Above(rows[j].returnPct, rows[first].returnPct)
    BY <1>1, <1>3, <2>1, <2>2, LeaderRanksFirst DEF n
  <2> HIDE DEF first
  <2>4. first \in 1..n /\ RangeReturn(bars[tickers[first]]) # NoValue /\ Insights.leader = tickers[first]
    BY <1>3, <2>1, <2>2, <2>3 DEF Ranked, first
  <2>5. ASSUME NEW t \in ToSet(tickers), Len(bars[t]) > 1
        PROVE  ~ Above(ChartEnd(bars[t]), ChartEnd(bars[tickers[first]]))
    <3>1. PICK j \in 1..n : t = tickers[j]
      BY <1>1
    <3>2. RangeReturn(bars[t]) # NoValue => j \in Ranked(rows)
      BY <1>3, <3>1 DEF Ranked
    <3>3. RangeReturn(bars[t]) # NoValue =>
            ~ Above(RangeReturn(bars[t]), RangeReturn(bars[tickers[first]]))
      BY <1>3, <2>3, <2>4, <3>1, <3>2
    <3>. QED
      BY <1>4, <2>4, <2>5, <3>1, <3>3, ReturnsRankChartEnds
  <2>. QED
    BY <2>4, <2>5
<1>. QED
  BY <1>2, <1>5 DEF WindowFactsAgree

\* For any universe, addresses, watchlist, answers and histories, an address the page pushes
\* reads back as its basket, and the table, the chart and the observations of a window agree.
THEOREM ComparisonSafe == CompareSpec => []ComparisonIsRight
<1>1. CompareSound => PushReadsBack
  BY BasketReadsBack DEF CompareSound, PushReadsBack
<1>2. CompareSound => ComparisonIsRight
  BY <1>1, SoundFactsAgree DEF ComparisonIsRight
<1>. QED
  BY <1>2, InitCompareSound, StepCompareSound, PTL DEF CompareSpec

-----------------------------------------------------------------------------
(* The calendar of the trading journal.                                      *)

\* A month as its year and its place in it, and the month after it.
LEMMA MonthDigits ==
  ASSUME NEW m \in Int
  PROVE  m \div 12 \in Int /\ m % 12 \in 0..11 /\ m = 12 * (m \div 12) + (m % 12)
OBVIOUS

LEMMA NextMonthDigits ==
  ASSUME NEW m \in Int
  PROVE  /\ m % 12 # 11 => (m + 1) \div 12 = m \div 12 /\ (m + 1) % 12 = (m % 12) + 1
         /\ m % 12 = 11 => (m + 1) \div 12 = m \div 12 + 1 /\ (m + 1) % 12 = 0
OBVIOUS

\* A leap year has one day more, by the years that the count of days counts.
LEMMA LeapDays ==
  ASSUME NEW y \in Int
  PROVE  y \div 4 - y \div 100 + y \div 400
           = (y - 1) \div 4 - (y - 1) \div 100 + (y - 1) \div 400 + (IF IsLeap(y) THEN 1 ELSE 0)
<1>1. y \div 4 - (y - 1) \div 4 = IF y % 4 = 0 THEN 1 ELSE 0
  OBVIOUS
<1>2. y \div 100 - (y - 1) \div 100 = IF y % 100 = 0 THEN 1 ELSE 0
  OBVIOUS
<1>3. y \div 400 - (y - 1) \div 400 = IF y % 400 = 0 THEN 1 ELSE 0
  OBVIOUS
<1>4. (y % 400 = 0 => y % 100 = 0) /\ (y % 100 = 0 => y % 4 = 0)
  OBVIOUS
<1>5. /\ y \div 4 \in Int /\ y \div 100 \in Int /\ y \div 400 \in Int
      /\ (y - 1) \div 4 \in Int /\ (y - 1) \div 100 \in Int /\ (y - 1) \div 400 \in Int
  OBVIOUS
<1>6. CASE y % 400 = 0
  BY ONLY <1>1, <1>2, <1>3, <1>4, <1>5, <1>6 DEF IsLeap
<1>7. CASE y % 400 # 0 /\ y % 100 = 0
  BY ONLY <1>1, <1>2, <1>3, <1>4, <1>5, <1>7 DEF IsLeap
<1>8. CASE y % 100 # 0
  BY ONLY <1>1, <1>2, <1>3, <1>4, <1>5, <1>8 DEF IsLeap
<1>. QED
  BY <1>6, <1>7, <1>8

\* What the calendar's numbers are.
LEMMA MonthSizes ==
  ASSUME NEW m \in Int
  PROVE  FirstDay(m) \in Int /\ DaysInMonth(m) \in 28..31 /\ DaysBefore(m) \in Int
<1>1. m % 12 \in 0..11 /\ m \div 12 \in Int
  BY MonthDigits
<1> DEFINE table == <<0, 31, 59, 90, 120, 151, 181, 212, 243, 273, 304, 334>>
<1>2. \A k \in 1..12 : table[k] \in Int
  OBVIOUS
<1>3. DaysBefore(m) \in Int
  BY <1>1, <1>2 DEF DaysBefore
<1>4. DaysInMonth(m) \in 28..31
  BY <1>1 DEF DaysInMonth
<1> DEFINE y == m \div 12 - 1
<1>5. FirstDay(m) = 365 * y + y \div 4 - y \div 100 + y \div 400 + 1 + DaysBefore(m)
  BY DEF FirstDay
<1>6. y \in Int
  BY <1>1
<1> HIDE DEF y
<1>7. FirstDay(m) \in Int
  BY <1>3, <1>5, <1>6
<1>. QED
  BY <1>3, <1>4, <1>7

\* A month ends where the next one begins: the last day the browser asks the Date of is the
\* one month_bounds subtracts its way to.
LEMMA MonthsMeet ==
  ASSUME NEW m \in Int
  PROVE  MonthEnd(m) = LastDay(m)
<1> DEFINE y == m \div 12
           month == m % 12
           leap == IF IsLeap(y) THEN 1 ELSE 0
           Before(z) == 365 * z + z \div 4 - z \div 100 + z \div 400 + 1
<1>1. y \in Int /\ month \in 0..11
  BY MonthDigits
<1>2. FirstDay(m) = Before(y - 1) + DaysBefore(m)
  BY DEF FirstDay
<1>3. CASE month # 11
  <2>1. (m + 1) \div 12 = y /\ (m + 1) % 12 = month + 1
    BY <1>3, NextMonthDigits
  <2>2. FirstDay(m + 1) = Before(y - 1) + DaysBefore(m + 1)
    BY <2>1 DEF FirstDay
  <2>3. DaysBefore(m + 1) = DaysBefore(m) + DaysInMonth(m)
    <3>1. \/ month = 0 \/ month = 1 \/ month = 2 \/ month = 3 \/ month = 4 \/ month = 5
          \/ month = 6 \/ month = 7 \/ month = 8 \/ month = 9 \/ month = 10
      BY <1>1, <1>3
    <3>. QED
      BY <2>1, <3>1 DEF DaysBefore, DaysInMonth
  <2>4. Before(y - 1) \in Int /\ DaysBefore(m) \in Int /\ DaysInMonth(m) \in Int
    BY <1>1, MonthSizes
  <2> HIDE DEF Before
  <2>. QED
    BY <1>2, <2>2, <2>3, <2>4 DEF MonthEnd, LastDay
<1>4. CASE month = 11
  <2>1. (m + 1) \div 12 = y + 1 /\ (m + 1) % 12 = 0
    BY <1>4, NextMonthDigits
  <2>2. FirstDay(m + 1) = Before(y) + DaysBefore(m + 1)
    BY <1>1, <2>1 DEF FirstDay
  <2>3. DaysBefore(m + 1) = 0 /\ DaysBefore(m) = 334 + leap /\ DaysInMonth(m) = 31
    BY <1>4, <2>1 DEF DaysBefore, DaysInMonth
  <2>4. Before(y) = Before(y - 1) + 365 + leap
    BY <1>1, LeapDays
  <2>5. Before(y - 1) \in Int /\ leap \in Int
    BY <1>1
  <2> HIDE DEF Before, leap
  <2>. QED
    BY <1>2, <2>2, <2>3, <2>4, <2>5 DEF MonthEnd, LastDay
<1>. QED
  BY <1>3, <1>4

\* The Monday of the i-th row of days first..last, and how many rows there are.
Monday(first, i) == first - Weekday(first) + 7 * (i - 1)
WeekCount(first, last) == (Weekday(first) + (last - first + 1) + 6) \div 7
Spans(first, last) ==
  [i \in 1..WeekCount(first, last) |->
     [start |-> Most(first, Monday(first, i)), end |-> Least(Monday(first, i) + 6, last)]]

\* Both programs number the days of a week alike, and its Monday is a Monday.
LEMMA WeekdayFacts ==
  ASSUME NEW d \in Int
  PROVE  /\ Weekday(d) \in 0..6 /\ WeekdayIndex(d) = Weekday(d)
         /\ (d - Weekday(d)) % 7 = 1
BY DEF Weekday, WeekdayIndex

LEMMA WeekdayAfter ==
  ASSUME NEW monday \in Int, monday % 7 = 1, NEW k \in 0..6
  PROVE  Weekday(monday + k) = k
BY DEF Weekday

\* Every row holds a day of first..last.
LEMMA RowsReach ==
  ASSUME NEW first \in Int, NEW last \in Int, first <= last, NEW i \in 1..WeekCount(first, last)
  PROVE  /\ Monday(first, i) \in Int /\ Monday(first, i) % 7 = 1
         /\ Monday(first, i) <= last /\ Monday(first, i) + 6 >= first
         /\ WeekCount(first, last) \in Nat
<1> DEFINE w == Weekday(first)
<1>1. w \in 0..6 /\ (first - w) % 7 = 1
  BY WeekdayFacts
<1>2. WeekCount(first, last) = (w + (last - first + 1) + 6) \div 7 /\ Monday(first, i) = first - w + 7 * (i - 1)
  BY DEF WeekCount, Monday
<1> HIDE DEF w
<1>3. WeekCount(first, last) \in Nat /\ i \in Int /\ 7 * i <= w + (last - first + 1) + 6 /\ i >= 1
  BY <1>1, <1>2
<1>4. (first - w + 7 * (i - 1)) % 7 = 1
  BY <1>1, <1>3
<1>. QED
  BY ONLY <1>1, <1>2, <1>3, <1>4, first \in Int, last \in Int

\* What is left of the rows behind the first one.
LEMMA RowsOfRest ==
  ASSUME NEW first \in Int, NEW last \in Int, first <= last,
         NEW end, end = Least(first + 6 - Weekday(first), last)
  PROVE  /\ end \in first..last
         /\ end = last => WeekCount(first, last) = 1
         /\ end # last =>
              /\ WeekCount(first, last) = WeekCount(end + 1, last) + 1
              /\ WeekCount(end + 1, last) \in Nat /\ WeekCount(first, last) \in Nat
              /\ \A i \in Int : Monday(end + 1, i) = Monday(first, i + 1)
<1> DEFINE w == Weekday(first)
<1>1. w \in 0..6 /\ (first - w) % 7 = 1
  BY WeekdayFacts
<1>2. end = IF first + 6 - w < last THEN first + 6 - w ELSE last
  BY DEF Least
<1>3. WeekCount(first, last) = (w + (last - first + 1) + 6) \div 7
  BY DEF WeekCount
<1>4. \A i \in Int : Monday(first, i) = first - w + 7 * (i - 1)
  BY DEF Monday
<1> HIDE DEF w
<1>5. end \in first..last
  BY <1>1, <1>2
<1>6. end = last => WeekCount(first, last) = 1
  BY <1>1, <1>2, <1>3
<1>7. ASSUME end # last
      PROVE  /\ WeekCount(first, last) = WeekCount(end + 1, last) + 1
             /\ WeekCount(end + 1, last) \in Nat /\ WeekCount(first, last) \in Nat
             /\ \A i \in Int : Monday(end + 1, i) = Monday(first, i + 1)
  <2>1. end + 1 = first - w + 7 /\ end < last
    BY <1>1, <1>2, <1>7
  <2>2. (first - w + 7) % 7 = 1
    BY <1>1
  <2>3. Weekday(end + 1) = 0
    <3>1. end + 1 \in Int /\ (end + 1) % 7 = 1
      BY <1>5, <2>1, <2>2
    <3>2. Weekday((end + 1) + 0) = 0
      BY ONLY <3>1, WeekdayAfter
    <3>. QED
      BY <3>1, <3>2
  <2>4. WeekCount(end + 1, last) = (0 + (last - (end + 1) + 1) + 6) \div 7
    BY <2>3 DEF WeekCount
  <2>5. \A i \in Int : Monday(end + 1, i) = end + 1 + 7 * (i - 1)
    BY <1>5, <2>3 DEF Monday
  <2>6. \A i \in Int : Monday(end + 1, i) = Monday(first, i + 1)
    BY <1>1, <1>4, <2>1, <2>5
  <2>7. /\ WeekCount(first, last) = WeekCount(end + 1, last) + 1
        /\ WeekCount(end + 1, last) \in Nat /\ WeekCount(first, last) \in Nat
    BY <1>1, <1>3, <1>5, <2>1, <2>4
  <2>. QED
    BY <2>6, <2>7
<1>. QED
  BY <1>5, <1>6, <1>7

\* What follows the first week of days first..last is the weeks of the days after it.
LEMMA SpansOfRest ==
  ASSUME NEW first \in Int, NEW last \in Int, first <= last,
         NEW end, end = Least(first + 6 - Weekday(first), last)
  PROVE  Spans(first, last) = <<[start |-> first, end |-> end]>> \o
                              (IF end + 1 > last THEN <<>> ELSE Spans(end + 1, last))
<1>1. end \in first..last
  BY RowsOfRest
<1> DEFINE rest == IF end + 1 > last THEN <<>> ELSE Spans(end + 1, last)
           one == <<[start |-> first, end |-> end]>>
           Week(i) == [start |-> Most(first, Monday(first, i)), end |-> Least(Monday(first, i) + 6, last)]
           k == IF end = last THEN 0 ELSE WeekCount(end + 1, last)
<1>2. k \in Nat /\ WeekCount(first, last) = k + 1
  BY RowsOfRest
<1>3. Spans(first, last) = [i \in 1..(k + 1) |-> Week(i)]
  BY <1>2 DEF Spans
<1>4. rest \in Seq([start : Int, end : Int]) /\ Len(rest) = k /\ \A i \in 1..k : rest[i] = Week(i + 1)
  <2>1. CASE end = last
    <3>1. rest = <<>> /\ k = 0
      BY <1>1, <2>1
    <3> HIDE DEF rest, k, Week
    <3>2. 1..k = {}
      BY <3>1
    <3>3. rest \in Seq([start : Int, end : Int]) /\ Len(rest) = 0
      BY <3>1
    <3>. QED
      BY <3>1, <3>2, <3>3
  <2>2. CASE end # last
    <3>1. rest = Spans(end + 1, last) /\ k = WeekCount(end + 1, last) /\ end + 1 \in Int /\ end + 1 <= last
      BY <1>1, <2>2
    <3>2. ASSUME NEW i \in 1..k
          PROVE  /\ Monday(end + 1, i) = Monday(first, i + 1) /\ Monday(end + 1, i) \in Int
                 /\ Monday(end + 1, i) >= end + 1
      <4>1. Monday(end + 1, i) = Monday(first, i + 1) /\ end + 1 = first - Weekday(first) + 7
        <5>0. \A j \in Int : Monday(end + 1, j) = Monday(first, j + 1)
          BY <2>2, RowsOfRest
        <5>1. end = first + 6 - Weekday(first) /\ Weekday(first) \in 0..6
          BY <2>2, WeekdayFacts DEF Least
        <5>. QED
          BY <1>1, <1>2, <5>0, <5>1
      <4>2. Monday(first, i + 1) = first - Weekday(first) + 7 * i /\ Weekday(first) \in 0..6 /\ i >= 1 /\ i \in Int
        BY <1>2, WeekdayFacts DEF Monday
      <4>. QED
        BY <1>1, <4>1, <4>2
    <3>3. ASSUME NEW i \in 1..k
          PROVE  rest[i] = Week(i + 1) /\ rest[i] \in [start : Int, end : Int]
      <4>1. rest[i] = [start |-> Most(end + 1, Monday(end + 1, i)), end |-> Least(Monday(end + 1, i) + 6, last)]
        BY <3>1 DEF Spans
      <4>2. Most(end + 1, Monday(end + 1, i)) = Monday(first, i + 1)
        BY <1>1, <3>2 DEF Most
      <4>3. Most(first, Monday(first, i + 1)) = Monday(first, i + 1)
        BY <1>1, <3>2 DEF Most
      <4>4. Least(Monday(first, i + 1) + 6, last) \in Int /\ Monday(first, i + 1) \in Int
        BY <3>2 DEF Least
      <4>5. rest[i] = [start |-> Monday(first, i + 1), end |-> Least(Monday(first, i + 1) + 6, last)]
        BY <3>2, <4>1, <4>2
      <4>. QED
        BY <4>3, <4>4, <4>5
    <3>4. rest = [i \in 1..k |-> rest[i]]
      BY <3>1 DEF Spans
    <3> HIDE DEF rest, k, Week
    <3>5. rest \in [1..k -> [start : Int, end : Int]]
      BY <3>3, <3>4
    <3>6. rest \in Seq([start : Int, end : Int])
      BY <1>2, <3>5, SeqDef
    <3>7. Len(rest) = k
      BY <1>2, <3>5, <3>6, LenProperties
    <3>. QED
      BY <3>3, <3>6, <3>7
  <2>. QED
    BY <2>1, <2>2
<1>5. Week(1) = [start |-> first, end |-> end] /\ first \in Int /\ end \in Int
  <2>1. Weekday(first) \in 0..6 /\ Monday(first, 1) = first - Weekday(first)
    BY WeekdayFacts DEF Monday
  <2>2. Most(first, Monday(first, 1)) = first /\ Least(Monday(first, 1) + 6, last) = end
    BY <2>1 DEF Most, Least
  <2>. QED
    BY <1>1, <2>2
<1>6. one \in Seq([start : Int, end : Int]) /\ Len(one) = 1 /\ one[1] = Week(1)
  BY <1>5
<1> HIDE DEF rest, k, Week, one
<1>7. /\ one \o rest \in Seq([start : Int, end : Int]) /\ Len(one \o rest) = k + 1
      /\ \A i \in 1..(k + 1) : (one \o rest)[i] = IF i <= 1 THEN one[i] ELSE rest[i - 1]
  <2> DEFINE R == [start : Int, end : Int]
  <2>1. one \in Seq(R) /\ rest \in Seq(R)
    BY <1>4, <1>6
  <2> HIDE DEF R
  <2>2. /\ one \o rest \in Seq(R) /\ Len(one \o rest) = Len(one) + Len(rest)
        /\ \A i \in 1..(Len(one) + Len(rest)) :
             (one \o rest)[i] = IF i <= Len(one) THEN one[i] ELSE rest[i - Len(one)]
    BY <2>1, ConcatProperties
  <2>3. Len(one) = 1 /\ Len(rest) = k /\ Len(one) + Len(rest) = k + 1
    BY <1>2, <1>4, <1>6
  <2>4. /\ one \o rest \in Seq(R) /\ Len(one \o rest) = k + 1
        /\ \A i \in 1..(k + 1) : (one \o rest)[i] = IF i <= 1 THEN one[i] ELSE rest[i - 1]
    BY ONLY <2>2, <2>3
  <2>. QED
    BY <2>4 DEF R
<1>8. ASSUME NEW i \in 1..(k + 1) PROVE (one \o rest)[i] = Week(i)
  <2>1. CASE i = 1
    BY <1>6, <1>7, <2>1
  <2>2. CASE i # 1
    <3>1. i - 1 \in 1..k /\ (i - 1) + 1 = i /\ ~ (i <= 1)
      BY <1>2, <2>2
    <3>. QED
      BY <1>4, <1>7, <3>1
  <2>. QED
    BY <2>1, <2>2
<1>9. one \o rest = [i \in 1..(k + 1) |-> (one \o rest)[i]]
  <2> DEFINE R == [start : Int, end : Int]
           whole == one \o rest
  <2>1. whole \in Seq(R) /\ Len(whole) = k + 1
    BY <1>7
  <2> HIDE DEF R, whole
  <2>2. whole \in [1..(k + 1) -> R]
    BY <2>1, LenProperties
  <2>3. whole = [i \in 1..(k + 1) |-> whole[i]]
    BY <2>2
  <2>. QED
    BY <2>3 DEF whole
<1>10. one \o rest = Spans(first, last)
  BY <1>3, <1>8, <1>9
<1>. QED
  BY <1>10 DEF one, rest

\* The API's loop cuts the days into the weeks of the formula.
LEMMA LoopCutsWeeks ==
  ASSUME NEW first \in Int, NEW last \in Int, first <= last
  PROVE  WeekSpans(first, last) = Spans(first, last)
<1> DEFINE D == first..(last + 1)
           End(c) == Least(c + 6 - Weekday(c), last)
           W == [c \in D |-> IF c > last THEN <<>> ELSE Spans(c, last)]
           IsSpan(f) == f = [c \in D |-> IF c > last THEN <<>>
                                         ELSE <<[start |-> c, end |-> End(c)]>> \o f[End(c) + 1]]
           span == CHOOSE f : IsSpan(f)
           n == last + 1 - first
<1>1. ASSUME NEW c \in D, ~ (c > last)
      PROVE  End(c) + 1 \in D /\ End(c) + 1 > c /\ c <= last
  <2>1. c \in Int /\ c <= last /\ c >= first
    BY <1>1
  <2>2. End(c) \in c..last
    BY ONLY <2>1, RowsOfRest, last \in Int
  <2>. QED
    BY <2>1, <2>2
<1>2. ASSUME NEW c \in D, ~ (c > last)
      PROVE  W[c] = <<[start |-> c, end |-> End(c)]>> \o W[End(c) + 1]
  <2>1. c \in Int /\ c <= last /\ End(c) + 1 \in D
    BY <1>1, <1>2
  <2>2. W[c] = Spans(c, last) /\ W[End(c) + 1] = IF End(c) + 1 > last THEN <<>> ELSE Spans(End(c) + 1, last)
    BY <1>2, <2>1
  <2> DEFINE e == End(c)
  <2>3. e = Least(c + 6 - Weekday(c), last)
    OBVIOUS
  <2> HIDE DEF e, W
  <2>4. Spans(c, last) = <<[start |-> c, end |-> e]>> \o (IF e + 1 > last THEN <<>> ELSE Spans(e + 1, last))
    BY <2>1, <2>3, SpansOfRest
  <2>. QED
    BY <2>2, <2>4 DEF e
<1>3. IsSpan(W)
  <2>1. ASSUME NEW c \in D
        PROVE  W[c] = IF c > last THEN <<>> ELSE <<[start |-> c, end |-> End(c)]>> \o W[End(c) + 1]
    <3>1. CASE c > last
      BY <3>1
    <3>2. CASE ~ (c > last)
      <4> HIDE DEF W, End
      <4>. QED
        BY <1>2, <3>2
    <3>. QED
      BY <3>1, <3>2
  <2>2. W = [c \in D |-> W[c]]
    OBVIOUS
  <2> HIDE DEF W, End, D
  <2>. QED
    BY <2>1, <2>2
<1> HIDE DEF IsSpan
<1>4. IsSpan(span)
  BY <1>3
<1>5. ASSUME NEW c \in D
      PROVE  span[c] = IF c > last THEN <<>> ELSE <<[start |-> c, end |-> End(c)]>> \o span[End(c) + 1]
  <2> HIDE DEF span, End, D
  <2>. QED
    BY <1>4 DEF IsSpan
<1>6. WeekSpans(first, last) = span[first]
  BY DEF WeekSpans, IsSpan
<1> DEFINE good == {j \in 0..n : \A c \in D : c >= last + 1 - j => span[c] = W[c]}
<1>7. n \in Nat
  OBVIOUS
<1>8. \A c \in D : c > last => span[c] = W[c]
  <2> SUFFICES ASSUME NEW c \in D, c > last PROVE span[c] = W[c]
    OBVIOUS
  <2>1. W[c] = <<>>
    OBVIOUS
  <2> HIDE DEF span, W, D
  <2>. QED
    BY <1>5, <2>1
<1> HIDE DEF span, W, End
<1>9. 0 \in good
  BY <1>7, <1>8
<1>10. ASSUME NEW j \in 1..n, j - 1 \in good PROVE j \in good
  <2>1. ASSUME NEW c \in D, c >= last + 1 - j PROVE span[c] = W[c]
    <3>1. CASE c > last
      BY <1>8, <3>1
    <3>2. CASE ~ (c > last)
      <4>1. End(c) + 1 \in D /\ End(c) + 1 > c
        BY <1>1, <3>2
      <4>2. End(c) + 1 >= last + 1 - (j - 1)
        BY <1>7, <2>1, <4>1
      <4>3. span[End(c) + 1] = W[End(c) + 1]
        BY <1>10, <4>1, <4>2
      <4> HIDE DEF D, good
      <4>. QED
        BY <1>2, <1>5, <3>2, <4>3
    <3>. QED
      BY <3>1, <3>2
  <2>2. j \in 0..n
    BY <1>7
  <2>. QED
    BY <2>1, <2>2
<1>11. n \in good
  <2> HIDE DEF good, n
  <2>1. \A i \in 0..n : i \in good
    BY <1>7, <1>9, <1>10, UpTo
  <2>. QED
    BY <1>7, <2>1
<1>12. span[first] = W[first]
  BY <1>11
<1>13. W[first] = Spans(first, last)
  BY DEF W
<1>. QED
  BY <1>6, <1>12, <1>13

\* The browser's rows are those weeks, padded.
LEMMA GridCutsWeeks ==
  ASSUME NEW m \in Int
  PROVE  LET first == FirstDay(m)  last == LastDay(m)  rows == BuildCalendar(m)
         IN  /\ first \in Int /\ last \in Int /\ first <= last
             /\ DOMAIN rows = 1..WeekCount(first, last) /\ Len(rows) = WeekCount(first, last)
             /\ \A i \in 1..WeekCount(first, last) :
                  /\ rows[i].key = Most(first, Monday(first, i))
                  /\ DaysOf(rows[i], m) = Most(first, Monday(first, i))..Least(Monday(first, i) + 6, last)
<1> DEFINE first == FirstDay(m)
           last == LastDay(m)
           rows == BuildCalendar(m)
           k == WeekCount(first, last)
           InMonth(date) == first <= date /\ date <= last
           Days(i) == [offset \in 1..7 |-> first - WeekdayIndex(first) + 7 * (i - 1) + offset - 1]
           IsFirst(days, o) == InMonth(days[o]) /\ \A j \in 1..(o - 1) : ~ InMonth(days[j])
           Key(days) == IF \E o \in 1..7 : InMonth(days[o])
                        THEN days[CHOOSE o \in 1..7 : IsFirst(days, o)] ELSE days[1]
<1>1. first \in Int /\ last \in Int /\ first <= last /\ last = first + DaysInMonth(m) - 1
  BY MonthSizes DEF LastDay
<1>2. WeekdayIndex(first) = Weekday(first) /\ Weekday(first) \in 0..6
  BY <1>1, WeekdayFacts
<1>3. k = (WeekdayIndex(first) + DaysInMonth(m) + 6) \div 7 /\ k \in Nat
  <2>1. last - first + 1 = DaysInMonth(m) /\ DaysInMonth(m) \in Int
    BY <1>1, MonthSizes
  <2> HIDE DEF last, first
  <2>2. k = (Weekday(first) + (last - first + 1) + 6) \div 7
    BY DEF WeekCount
  <2>. QED
    BY <1>1, <1>2, <2>1, <2>2
<1>4. rows = [i \in 1..k |-> [key |-> Key(Days(i)), days |-> Days(i)]]
  BY <1>3 DEF BuildCalendar
<1> HIDE DEF first, last, rows, k
<1>5. ASSUME NEW i \in 1..k
      PROVE  /\ rows[i].key = Most(first, Monday(first, i))
             /\ DaysOf(rows[i], m) = Most(first, Monday(first, i))..Least(Monday(first, i) + 6, last)
  <2> DEFINE monday == Monday(first, i)
             days == Days(i)
  <2>1. monday \in Int /\ monday <= last /\ monday + 6 >= first
    BY <1>1, RowsReach DEF k
  <2>2. \A o \in 1..7 : days[o] = monday + o - 1
    <3>1. monday = first - Weekday(first) + 7 * (i - 1)
      BY DEF Monday
    <3>. QED
      BY <1>1, <1>2, <1>3, <3>1
  <2>3. rows[i].days = days /\ rows[i].key = Key(days)
    BY <1>4
  <2> HIDE DEF monday, days, Days
  <2>4. PICK o \in 1..7 : o = IF monday >= first THEN 1 ELSE first - monday + 1
    BY <1>1, <2>1
  <2>5. InMonth(days[o]) /\ days[o] = Most(first, monday) /\ \A j \in 1..(o - 1) : ~ InMonth(days[j])
    BY <1>1, <2>1, <2>2, <2>4 DEF Most
  <2>6. \A p \in 1..7 : IsFirst(days, p) => p = o
    BY <2>5
  <2>7. (CHOOSE p \in 1..7 : IsFirst(days, p)) = o
    BY <2>5, <2>6
  <2>8. Key(days) = Most(first, monday)
    <3> HIDE DEF IsFirst
    <3>1. \E p \in 1..7 : InMonth(days[p])
      BY <2>5
    <3> HIDE DEF InMonth
    <3>. QED
      BY <2>5, <2>7, <3>1
  <2>9. DaysOf(rows[i], m) = {days[p] : p \in 1..7} \cap (first..last)
    BY <2>3 DEF DaysOf, first, last
  <2>10. {days[p] : p \in 1..7} = monday..(monday + 6)
    <3>1. ASSUME NEW d \in monday..(monday + 6) PROVE d \in {days[p] : p \in 1..7}
      <4>1. d - monday + 1 \in 1..7 /\ days[d - monday + 1] = d
        BY <2>1, <2>2
      <4>. QED
        BY <4>1
    <3>2. \A p \in 1..7 : days[p] \in monday..(monday + 6)
      BY <2>1, <2>2
    <3>. QED
      BY <3>1, <3>2
  <2>11. (monday..(monday + 6)) \cap (first..last) = Most(first, monday)..Least(monday + 6, last)
    BY <1>1, <2>1 DEF Most, Least
  <2>. QED
    BY <2>3, <2>8, <2>9, <2>10, <2>11 DEF monday
<1>6. DOMAIN rows = 1..k /\ Len(rows) = k
  BY <1>3, <1>4
<1>. QED
  BY <1>1, <1>5, <1>6 DEF first, last, rows, k

\* Grid and loop give the same rows.
LEMMA RowsMatch ==
  ASSUME monthKey \in Int
  PROVE  RowsMatchWeeks
<1> DEFINE first == FirstDay(monthKey)
           last == LastDay(monthKey)
           rows == BuildCalendar(monthKey)
           weeks == WeekSpans(first, MonthEnd(monthKey))
<1>1. /\ first \in Int /\ last \in Int /\ first <= last
      /\ DOMAIN rows = 1..WeekCount(first, last) /\ Len(rows) = WeekCount(first, last)
      /\ \A i \in 1..WeekCount(first, last) :
           /\ rows[i].key = Most(first, Monday(first, i))
           /\ DaysOf(rows[i], monthKey) = Most(first, Monday(first, i))..Least(Monday(first, i) + 6, last)
  BY GridCutsWeeks
<1>2. MonthEnd(monthKey) = last
  BY MonthsMeet
<1> HIDE DEF first, last, rows
<1>3. weeks = Spans(first, last)
  BY <1>1, <1>2, LoopCutsWeeks
<1>4. WeekCount(first, last) \in Nat
  BY <1>1, WeekdayFacts DEF WeekCount
<1>5. /\ Len(weeks) = WeekCount(first, last)
      /\ \A i \in 1..WeekCount(first, last) :
           /\ weeks[i].start = Most(first, Monday(first, i))
           /\ weeks[i].end = Least(Monday(first, i) + 6, last)
  BY <1>3, <1>4 DEF Spans
<1>. QED
  BY <1>1, <1>5 DEF RowsMatchWeeks, first, rows

\* Home and End lead to the ends of the row that holds the focus.
LEMMA KeysFollow ==
  ASSUME monthKey \in Int, focused # 0, focused \in FirstDay(monthKey)..LastDay(monthKey)
  PROVE  KeysFollowRows
<1> DEFINE first == FirstDay(monthKey)
           last == LastDay(monthKey)
           rows == BuildCalendar(monthKey)
           k == WeekCount(first, last)
           i == (focused - first + Weekday(first)) \div 7 + 1
           monday == Monday(first, i)
<1>1. /\ first \in Int /\ last \in Int /\ first <= last /\ DOMAIN rows = 1..k
      /\ \A j \in 1..k :
           DaysOf(rows[j], monthKey) = Most(first, Monday(first, j))..Least(Monday(first, j) + 6, last)
  BY GridCutsWeeks
<1>2. last = first + DaysInMonth(monthKey) - 1 /\ DaysInMonth(monthKey) \in Int
  BY MonthSizes DEF LastDay
<1> HIDE DEF first, last, rows
<1>3. focused \in Int /\ first <= focused /\ focused <= last
  BY <1>1 DEF first, last
<1>4. Weekday(first) \in 0..6
  BY <1>1, WeekdayFacts
<1> DEFINE w == Weekday(first)
           q == (focused - first + w) \div 7
<1>5. k = (w + (last - first + 1) + 6) \div 7 /\ monday = first - w + 7 * (i - 1) /\ i = q + 1
  BY DEF WeekCount, Monday
<1>6. /\ q \in Nat /\ 7 * q <= focused - first + w /\ focused - first + w <= 7 * q + 6
       /\ q + 1 <= (w + (last - first + 1) + 6) \div 7 /\ w \in 0..6
  <2>1. w \in 0..6
    BY <1>4
  <2> DEFINE x == focused - first + w
             y == w + (last - first + 1) + 6
  <2>2. x \in Nat /\ y \in Int /\ x + 7 <= y
    BY <1>1, <1>3, <2>1
  <2> HIDE DEF w, x, y
  <2>3. x \div 7 \in Nat /\ 7 * (x \div 7) <= x /\ x <= 7 * (x \div 7) + 6 /\ x \div 7 + 1 <= y \div 7
    BY ONLY <2>2
  <2>. QED
    BY <2>1, <2>3 DEF x, y
<1> HIDE DEF w, q, k, i, monday
<1>7. i \in 1..k
  <2>1. k \in Int
    BY <1>1, <1>5, <1>6
  <2>. QED
    BY <1>5, <1>6, <2>1
<1>8. monday \in Int /\ monday <= focused /\ focused <= monday + 6
  <2>1. monday = first - w + 7 * q
    BY <1>1, <1>5, <1>6
  <2>. QED
    BY <1>1, <1>3, <1>6, <2>1
<1>9. monday % 7 = 1 /\ monday <= last /\ monday + 6 >= first
  BY <1>1, <1>7, RowsReach DEF k, monday
<1>10. WeekdayIndex(focused) = focused - monday
  <2>1. focused - monday \in 0..6 /\ monday + (focused - monday) = focused
    BY <1>3, <1>8
  <2>2. Weekday(focused) = focused - monday
    BY <1>8, <1>9, <2>1, WeekdayAfter
  <2>. QED
    BY <1>3, <2>2, WeekdayFacts
<1>11. KeyTarget(monthKey, focused, "Home")
        = first + Most(0, Least(DaysInMonth(monthKey) - 1, focused - first - WeekdayIndex(focused)))
  BY DEF KeyTarget, first
<1>12. KeyTarget(monthKey, focused, "End")
        = first + Most(0, Least(DaysInMonth(monthKey) - 1, focused - first - WeekdayIndex(focused) + 6))
  BY DEF KeyTarget, first
<1>13. KeyTarget(monthKey, focused, "Home") = Most(first, monday)
  BY <1>1, <1>2, <1>3, <1>8, <1>9, <1>10, <1>11 DEF Most, Least
<1>14. KeyTarget(monthKey, focused, "End") = Least(monday + 6, last)
  BY <1>1, <1>2, <1>3, <1>8, <1>9, <1>10, <1>12 DEF Most, Least
<1>15. DaysOf(rows[i], monthKey) = Most(first, monday)..Least(monday + 6, last)
  BY <1>1, <1>7 DEF monday
<1>16. focused \in Most(first, monday)..Least(monday + 6, last)
  BY <1>1, <1>3, <1>8 DEF Most, Least
<1>. QED
  BY <1>1, <1>7, <1>13, <1>14, <1>15, <1>16 DEF KeysFollowRows, rows

\* The month on the screen is one of the calendar's, and the focus is on one of its days.
CalendarSound ==
  /\ monthKey \in MinMonth..MaxMonth
  /\ focused = 0 \/ focused \in FirstDay(monthKey)..LastDay(monthKey)

LEMMA StepCalendarSound == CalendarSound /\ [CalendarNext]_calendarVars => CalendarSound'
<1> SUFFICES ASSUME CalendarSound, [CalendarNext]_calendarVars PROVE CalendarSound'
  OBVIOUS
<1>0. MinMonth \in Int /\ MaxMonth \in Int /\ monthKey \in Int /\ MinMonth <= MaxMonth
  BY CalendarAssumption DEF CalendarSound
<1>1. CASE TurnMonth
  BY <1>0, <1>1 DEF TurnMonth, CalendarSound, ShiftMonth, Most, Least
<1>2. CASE PickMonth
  BY <1>2 DEF PickMonth, CalendarSound
<1>3. CASE FocusDay
  BY <1>3 DEF FocusDay, CalendarSound
<1>4. CASE MoveFocus
  <2>1. PICK key \in CalendarKeys : focused' = KeyTarget(monthKey, focused, key)
    BY <1>4 DEF MoveFocus
  <2>2. monthKey' = monthKey /\ focused # 0
    BY <1>4 DEF MoveFocus
  <2>3. /\ FirstDay(monthKey) \in Int /\ DaysInMonth(monthKey) \in 28..31
        /\ LastDay(monthKey) = FirstDay(monthKey) + DaysInMonth(monthKey) - 1
    BY <1>0, MonthSizes DEF LastDay
  <2>4. focused \in Int /\ WeekdayIndex(focused) \in Int
    BY <2>2, <2>3, WeekdayFacts DEF CalendarSound
  <2>5. PICK target \in Int :
          focused' = FirstDay(monthKey) + Most(0, Least(DaysInMonth(monthKey) - 1, target))
    BY <2>1, <2>3, <2>4 DEF KeyTarget, CalendarKeys
  <2>6. focused' \in FirstDay(monthKey)..LastDay(monthKey)
    BY <2>3, <2>5 DEF Most, Least
  <2>. QED
    BY <2>2, <2>6 DEF CalendarSound
<1>5. CASE UNCHANGED calendarVars
  BY <1>5 DEF calendarVars, CalendarSound
<1>. QED
  BY <1>1, <1>2, <1>3, <1>4, <1>5 DEF CalendarNext

\* For every month the browser's rows are the API's weeks, and Home and End stay in the row of
\* the day that has the focus.
THEOREM CalendarSafe == CalendarSpec => []CalendarRowsMatchWeeks
<1>1. CalendarInit => CalendarSound
  BY DEF CalendarInit, CalendarOn, CalendarSound
<1>2. CalendarSound => CalendarRowsMatchWeeks
  <2> SUFFICES ASSUME CalendarSound PROVE CalendarRowsMatchWeeks
    OBVIOUS
  <2>1. monthKey \in Int
    BY CalendarAssumption DEF CalendarSound
  <2>2. CASE focused = 0
    BY <2>1, <2>2, RowsMatch DEF KeysFollowRows, CalendarRowsMatchWeeks
  <2>3. CASE focused # 0
    BY <2>1, <2>3, RowsMatch, KeysFollow DEF CalendarSound, CalendarRowsMatchWeeks
  <2>. QED
    BY <2>2, <2>3
<1>. QED
  BY <1>1, <1>2, StepCalendarSound, PTL DEF CalendarSpec

=============================================================================
