--------------------------- MODULE ReplaySession ---------------------------
(***************************************************************************)
(* A replay session (apps/api/src/stockviz/services/replay): an isolated    *)
(* cash book over a frozen range of stored daily bars, stepped one bar at a *)
(* time, and its decision journal, whose thesis freezes at the first fill.  *)
(*                                                                          *)
(* Advance, cancel and order requests load the session row, take its lock   *)
(* (SELECT ... FOR UPDATE, with a refresh) and commit once.  Journal reads  *)
(* and edits take no lock on the session: each database read and each       *)
(* commit of theirs is a step of its own.  Meanwhile ingestion stores and   *)
(* corrects bars.  Any request may be cut short and roll back.              *)
(***************************************************************************)
EXTENDS Naturals, Sequences, FiniteSets, Tally

CONSTANTS
  Clients,      \* concurrent requests to the session
  Free,         \* the session row is not locked
  Times,        \* timestamps a daily bar may have
  NoTime,       \* no timestamp
  Closes,       \* Closes[t]: the closes that a bar at t may be stored with
  NoBar,        \* no bar stored at that time
  Orders,       \* orders that may be submitted
  Theses,       \* thesis texts (with the other fields that freeze with it)
  Blank,        \* the fields of a new journal row
  None,         \* no order
  StartCash,    \* starting_cash
  MaxFills      \* bound: orders are submitted while there are fewer fills

ASSUME TimesAssumption ==
  /\ Times \subseteq Nat
  /\ IsFiniteSet(Times)
  /\ NoTime \notin Times

ASSUME PricesAssumption ==
  /\ Closes \in [Times -> SUBSET (Nat \ {0})]
  /\ \A t \in Times : NoBar \notin Closes[t]

ASSUME OrdersAssumption ==
  /\ None \notin Orders
  /\ \A o \in Orders :
       /\ o.side \in {"buy", "sell"}
       /\ o.type \in {"market", "limit", "stop_loss", "take_profit"}
       /\ o.qty \in Nat \ {0}
       /\ o.limit \in Nat

ASSUME BookAssumption ==
  /\ StartCash \in Nat \ {0}
  /\ MaxFills \in Nat
  /\ Free \notin Clients
  /\ Blank \in Theses

VARIABLES
  bars,         \* bars[t]: the stored close at t, or NoBar
  sess,         \* the replay_sessions row with its position's quantity
  fills,        \* the replay_fills rows, in id order
  journal,      \* the replay_journals row
  lock,         \* who holds the session row's lock
  req           \* req[c]: the request that client c is running

vars == <<bars, sess, fills, journal, lock, req>>

-----------------------------------------------------------------------------
(* Stored bars and the clock. *)

Prices == UNION {Closes[t] : t \in Times}

Stored == {t \in Times : bars[t] # NoBar}

Earliest(S) == CHOOSE t \in S : \A u \in S : t <= u
Latest(S) == CHOOSE t \in S : \A u \in S : u <= t

\* Mutation: the horizon moves with later ingestion.
NextBarUnclipped(s) ==
  LET later == {t \in Stored : s.current < t}
  IN  IF later = {} THEN NoTime ELSE Earliest(later)

\* get_next_session_bar: the next stored bar after the clock, within the range.
Upcoming(s) == {t \in Stored : s.current < t /\ t <= s.end}
NextBar(s) == IF Upcoming(s) = {} THEN NoTime ELSE Earliest(Upcoming(s))

\* The list view's has_next, which looks at no bar.
CanAdvance(s) == s.status = "active" /\ s.current < s.end

\* Mutation: the journal locks at the session's clock, not at the fill.
ClockAfterFill == IF fills = <<>> THEN NoTime ELSE sess.current

\* The instant of the first fill: the smallest evaluated_at.
FirstFillAt ==
  IF fills = <<>> THEN NoTime ELSE Earliest({fills[i].at : i \in DOMAIN fills})

-----------------------------------------------------------------------------
(* Orders against the current bar: the legacy_close profile. *)

ShouldFill(o, close) ==
  CASE o.type = "market" -> TRUE
    [] o.type = "limit" -> IF o.side = "buy" THEN close <= o.limit ELSE close >= o.limit
    [] o.type = "stop_loss" -> o.side = "sell" /\ close <= o.limit
    [] o.type = "take_profit" -> o.side = "sell" /\ close >= o.limit

\* Mutation: sell what is not held.
CoversBuysOnly(s, o, close) == o.side = "buy" => close * o.qty <= s.cash

\* A buy fits in the cash, a sell in the position.
Covers(s, o, close) ==
  IF o.side = "buy" THEN close * o.qty <= s.cash ELSE o.qty <= s.qty

\* Mutation: the cash of a sale never arrives.
BookedWithoutProceeds(s, o, close) ==
  IF o.side = "buy"
    THEN [s EXCEPT !.cash = @ - close * o.qty, !.qty = @ + o.qty]
    ELSE [s EXCEPT !.qty = @ - o.qty]

Booked(s, o, close) ==
  IF o.side = "buy"
    THEN [s EXCEPT !.cash = @ - close * o.qty, !.qty = @ + o.qty]
    ELSE [s EXCEPT !.cash = @ + close * o.qty, !.qty = @ - o.qty]

-----------------------------------------------------------------------------
Absent == [status |-> "absent", start |-> NoTime, current |-> NoTime, end |-> NoTime,
           cash |-> StartCash, qty |-> 0]

NoJournal == [exists |-> FALSE, thesis |-> Blank, locked |-> NoTime]

\* seen and row are the request's copies of the session and the journal; time is the
\* instant it has read (next bar or first fill); close the price its order fills at;
\* freezes: the fill is to lock the journal row.
Idle == [op |-> "none", stage |-> "idle", order |-> None, thesis |-> Blank, seen |-> Absent,
         row |-> NoJournal, time |-> NoTime, close |-> NoBar, freezes |-> FALSE]

Locking == {"advance", "cancel", "submit"}
Journaling == {"get", "put"}

Init ==
  /\ bars \in {b \in [Times -> Prices \cup {NoBar}] : \A t \in Times : b[t] \in Closes[t] \cup {NoBar}}
  /\ sess = Absent
  /\ fills = <<>>
  /\ journal = NoJournal
  /\ lock = Free
  /\ req = [c \in Clients |-> Idle]

\* Ingestion stores a bar or corrects one; it deletes none.
StoreBar(t, close) ==
  /\ bars[t] # close
  /\ bars' = [bars EXCEPT ![t] = close]
  /\ UNCHANGED <<sess, fills, journal, lock, req>>

\* create_replay_session snaps the requested range to stored bars and freezes it.
Create(from, to) ==
  LET starts == {t \in Stored : from <= t}
      ends == {t \in Stored : to # NoTime => t <= to}
  IN  /\ sess.status = "absent"
      /\ starts # {} /\ ends # {}
      /\ Cardinality({t \in Stored : Earliest(starts) <= t /\ t <= Latest(ends)}) >= 2
      /\ sess' = [Absent EXCEPT !.status = "active", !.start = Earliest(starts),
                                !.current = Earliest(starts), !.end = Latest(ends)]
      /\ UNCHANGED <<bars, fills, journal, lock, req>>

\* The request ends without a change: the transaction, if any, rolls back.
End(c) ==
  /\ req' = [req EXCEPT ![c] = Idle]
  /\ lock' = IF lock = c THEN Free ELSE lock

\* The router loads the session row; the journal's requests need only its id.
Load(c, r) ==
  /\ req[c].stage = "idle"
  /\ sess.status # "absent"
  /\ r.op = "submit" => Len(fills) < MaxFills
  /\ req' = [req EXCEPT ![c] = [r EXCEPT !.stage = "loaded",
                                  !.seen = IF r.op \in Locking THEN sess ELSE @]]
  /\ UNCHANGED <<bars, sess, fills, journal, lock>>

\* Mutation: the copy loaded before the lock is used under it.
LoadedCopy(c) == req[c].seen

\* refresh(with_for_update) reads the row again once the lock is granted.
LockedCopy(c) == sess

LockSession(c) ==
  /\ req[c].stage = "loaded" /\ req[c].op \in Locking
  /\ lock = Free
  /\ lock' = c
  /\ req' = [req EXCEPT ![c].stage = "locked", ![c].seen = LockedCopy(c)]
  /\ UNCHANGED <<bars, sess, fills, journal>>

\* A closed session refuses every request.
Refuse(c) ==
  /\ req[c].stage = "locked"
  /\ req[c].seen.status # "active"
  /\ End(c)
  /\ UNCHANGED <<bars, sess, fills, journal>>

Serving(c, op) ==
  /\ req[c].stage = "locked"
  /\ req[c].op = op
  /\ req[c].seen.status = "active"

CancelSession(c) ==
  /\ Serving(c, "cancel")
  /\ sess' = [req[c].seen EXCEPT !.status = "cancelled"]
  /\ End(c)
  /\ UNCHANGED <<bars, fills, journal>>

\* advance_replay_session reads the next bar ...
FindNextBar(c) ==
  /\ Serving(c, "advance")
  /\ req' = [req EXCEPT ![c].stage = "found", ![c].time = NextBar(req[c].seen)]
  /\ UNCHANGED <<bars, sess, fills, journal, lock>>

Moved(s, t) == IF t = NoTime THEN s ELSE [s EXCEPT !.current = t]

\* A session with no bar ahead is complete.
Completed(s) == IF NextBar(s) = NoTime THEN [s EXCEPT !.status = "completed"] ELSE s

\* ... moves the clock to it, and completes the session when no other follows.
Advance(c) ==
  /\ req[c].stage = "found"
  /\ sess' = Completed(Moved(req[c].seen, req[c].time))
  /\ End(c)
  /\ UNCHANGED <<bars, fills, journal>>

\* submit_replay_order reads the current bar; a fill reads the journal row to freeze it.
Evaluate(c) ==
  LET s == req[c].seen
      close == bars[s.current]
  IN  /\ Serving(c, "submit")
      /\ ShouldFill(req[c].order, close)
      /\ Covers(s, req[c].order, close)
      /\ req' = [req EXCEPT ![c].stage = "filled", ![c].close = close,
                            ![c].freezes = journal.exists /\ journal.locked = NoTime]
      /\ UNCHANGED <<bars, sess, fills, journal, lock>>

NotFilled(c) ==
  LET s == req[c].seen
      close == bars[s.current]
  IN  /\ Serving(c, "submit")
      /\ ~ (ShouldFill(req[c].order, close) /\ Covers(s, req[c].order, close))
      /\ End(c)
      /\ UNCHANGED <<bars, sess, fills, journal>>

\* Mutation: the fill is stamped with the end of the range.
FillAtHorizon(c) ==
  [side |-> req[c].order.side, qty |-> req[c].order.qty, price |-> req[c].close,
   at |-> req[c].seen.end]

FillOf(c) ==
  [side |-> req[c].order.side, qty |-> req[c].order.qty, price |-> req[c].close,
   at |-> req[c].seen.current]

CommitFill(c) ==
  /\ req[c].stage = "filled"
  /\ sess' = Booked(req[c].seen, req[c].order, req[c].close)
  /\ fills' = Append(fills, FillOf(c))
  /\ journal' = IF req[c].freezes THEN [journal EXCEPT !.locked = req[c].seen.current] ELSE journal
  /\ End(c)
  /\ UNCHANGED bars

-----------------------------------------------------------------------------
(* The journal: get_replay_journal, then update_replay_journal for a put. *)

\* After get_replay_journal a get is done, a put goes on to its check.
Fetched(c, row) ==
  IF req[c].op = "get" THEN Idle ELSE [req[c] EXCEPT !.stage = "check", !.row = row]

ReadJournal(c) ==
  /\ req[c].stage = "loaded" /\ req[c].op \in Journaling
  /\ req' = [req EXCEPT ![c].stage = "read", ![c].row = journal]
  /\ UNCHANGED <<bars, sess, fills, journal, lock>>

ReadFills(c) ==
  LET row == req[c].row
      late == row.locked = NoTime /\ FirstFillAt # NoTime
  IN  /\ req[c].stage = "read"
      /\ req' = [req EXCEPT ![c] =
                   IF ~ row.exists THEN [@ EXCEPT !.stage = "make", !.time = FirstFillAt]
                   ELSE IF late THEN [@ EXCEPT !.stage = "freeze", !.time = FirstFillAt]
                   ELSE Fetched(c, row)]
      /\ UNCHANGED <<bars, sess, fills, journal, lock>>

\* The insert waits for the session row: its foreign key takes a share lock on it.
\* session_id is unique, so the loser of a race fails.
MakeRow(c) ==
  LET row == [exists |-> TRUE, thesis |-> Blank, locked |-> req[c].time]
  IN  /\ req[c].stage = "make"
      /\ lock = Free
      /\ IF journal.exists
           THEN req' = [req EXCEPT ![c] = Idle] /\ UNCHANGED journal
           ELSE journal' = row /\ req' = [req EXCEPT ![c].stage = "reread"]
      /\ UNCHANGED <<bars, sess, fills, lock>>

FreezeRow(c) ==
  /\ req[c].stage = "freeze"
  /\ journal' = [journal EXCEPT !.locked = req[c].time]
  /\ req' = [req EXCEPT ![c].stage = "reread"]
  /\ UNCHANGED <<bars, sess, fills, lock>>

\* The refresh after the commit of either.
RereadJournal(c) ==
  /\ req[c].stage = "reread"
  /\ req' = [req EXCEPT ![c] = Fetched(c, journal)]
  /\ UNCHANGED <<bars, sess, fills, journal, lock>>

ThesisIsLocked(c) == req[c].row.locked # NoTime \/ FirstFillAt # NoTime

\* A locked journal refuses a different thesis; its lock is set if it was not.
CheckThesis(c) ==
  /\ req[c].stage = "check"
  /\ req' = [req EXCEPT ![c] =
               IF ThesisIsLocked(c) /\ req[c].row.thesis # req[c].thesis THEN Idle
               ELSE [@ EXCEPT !.stage = "write",
                       !.time = IF req[c].row.locked = NoTime THEN FirstFillAt ELSE NoTime]]
  /\ UNCHANGED <<bars, sess, fills, journal, lock>>

\* The update names only the columns that differ from the row as it was read.
WriteThesis(c) ==
  /\ req[c].stage = "write"
  /\ journal' = [journal EXCEPT
                   !.thesis = IF req[c].thesis # req[c].row.thesis THEN req[c].thesis ELSE @,
                   !.locked = IF req[c].time # NoTime THEN req[c].time ELSE @]
  /\ req' = [req EXCEPT ![c] = Idle]
  /\ UNCHANGED <<bars, sess, fills, lock>>

\* The client or the server goes away; the open transaction rolls back.
Abandon(c) ==
  /\ req[c].stage # "idle"
  /\ End(c)
  /\ UNCHANGED <<bars, sess, fills, journal>>

-----------------------------------------------------------------------------
Requests ==
  {[Idle EXCEPT !.op = op] : op \in {"advance", "cancel", "get"}}
    \cup {[Idle EXCEPT !.op = "submit", !.order = o] : o \in Orders}
    \cup {[Idle EXCEPT !.op = "put", !.thesis = x] : x \in Theses}

\* The steps a request takes.
Work(c) ==
  \/ LockSession(c) \/ Refuse(c) \/ CancelSession(c) \/ FindNextBar(c) \/ Advance(c)
  \/ Evaluate(c) \/ NotFilled(c) \/ CommitFill(c)
  \/ ReadJournal(c) \/ ReadFills(c) \/ MakeRow(c) \/ FreezeRow(c) \/ RereadJournal(c)
  \/ CheckThesis(c) \/ WriteThesis(c)

Next ==
  \/ \E t \in Times : \E x \in Closes[t] : StoreBar(t, x)
  \/ \E from \in Times, to \in Times \cup {NoTime} : Create(from, to)
  \/ \E c \in Clients : \/ \E r \in Requests : Load(c, r)
                       \/ Work(c)
                       \/ Abandon(c)

Spec == Init /\ [][Next]_vars

-----------------------------------------------------------------------------
Statuses == {"absent", "active", "completed", "cancelled"}
Stages == {"idle", "loaded", "locked", "found", "filled", "read", "make", "freeze", "reread", "check", "write"}

SessionRow ==
  [status : Statuses, start : Times \cup {NoTime}, current : Times \cup {NoTime},
   end : Times \cup {NoTime}, cash : Nat, qty : Nat]

FillRow == [side : {"buy", "sell"}, qty : Nat \ {0}, price : Prices, at : Times]

JournalRow == [exists : BOOLEAN, thesis : Theses, locked : Times \cup {NoTime}]

Request ==
  [op : Locking \cup Journaling \cup {"none"}, stage : Stages, order : Orders \cup {None},
   thesis : Theses, seen : SessionRow, row : JournalRow, time : Times \cup {NoTime},
   close : Prices \cup {NoBar}, freezes : BOOLEAN]

Working == {"locked", "found", "filled"}

\* Every variable has its type: in particular cash and quantity are never negative, and a
\* request holds the session's lock exactly while it works under it.
TypeOK ==
  /\ bars \in [Times -> Prices \cup {NoBar}]
  /\ sess \in SessionRow
  /\ fills \in Seq(FillRow)
  /\ journal \in JournalRow
  /\ lock \in Clients \cup {Free}
  /\ req \in [Clients -> Request]
  /\ \A c \in Clients : lock = c <=> req[c].stage \in Working

Notional == [i \in DOMAIN fills |-> fills[i].price * fills[i].qty]
Volume == [i \in DOMAIN fills |-> fills[i].qty]
SideOf(side) == {i \in DOMAIN fills : fills[i].side = side}

\* Cash and position are what the recorded fills say: no fill is lost or booked twice when
\* orders, advances and cancels of one session overlap (session.py:78-83, ledger.py:29-113).
FillsExplainBook ==
  /\ sess.cash + Tally(Notional, SideOf("buy")) = StartCash + Tally(Notional, SideOf("sell"))
  /\ sess.qty + Tally(Volume, SideOf("sell")) = Tally(Volume, SideOf("buy"))

\* Fills follow the clock: their instants never go back, and none lies before the start of
\* the range or after the bar the session has reached (session.py:264-271, 294).
FillsFollowClock ==
  /\ \A i, j \in DOMAIN fills : i <= j => fills[i].at <= fills[j].at
  /\ \A i \in DOMAIN fills : sess.start <= fills[i].at /\ fills[i].at <= sess.current

\* The flag of the list view, computed without reading a bar, agrees with the bars: an
\* active session always has a next one, and a completed session stands at the end of its
\* frozen range, however ingestion adds bars (session.py:103-106, 209-222).
HasNextIsRight ==
  /\ CanAdvance(sess) <=> sess.status = "active" /\ NextBar(sess) # NoTime
  /\ sess.status = "active" => CanAdvance(sess)
  /\ sess.status = "completed" => sess.current = sess.end

\* A journal is only ever locked at the instant of one of the session's fills, also when it
\* is created or read while the fill is being committed (journal.py:36-55, 58-70, 100).
LockedByFill ==
  journal.locked # NoTime => \E i \in DOMAIN fills : fills[i].at = journal.locked

\* A completed or cancelled session changes no more and takes no more fills, even from a
\* request that loaded it while it was active (session.py:68-75, 234-238).
TerminalIsFinal ==
  [][sess.status \in {"completed", "cancelled"} => UNCHANGED <<sess, fills>>]_vars

\* Once the session has a fill, its thesis changes no more (docs/SIMULATION.md: "may be
\* edited until the first fill; then they lock"; journal.py:84-108).
ThesisFixedAfterFill == [][fills # <<>> => journal'.thesis = journal.thesis]_vars

=============================================================================
