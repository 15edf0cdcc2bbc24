------------------------ MODULE ReplaySessionProofs ------------------------
(***************************************************************************)
(* Theorems about replay sessions.                                          *)
(***************************************************************************)
EXTENDS ReplaySession, TallyProofs, SequenceTheorems, WellFoundedInduction

-----------------------------------------------------------------------------
(* The first and the last of a set of timestamps.                            *)

LEMMA EarliestIs ==
  ASSUME NEW S \in SUBSET Nat, S # {}
  PROVE  Earliest(S) \in S /\ \A u \in S : Earliest(S) <= u
<1> DEFINE less == {ss \in Nat \X Nat : ss[1] < ss[2]}
<1>1. IsWellFoundedOn(less, Nat)
  BY NatLessThanWellFounded, Zenon DEF OpToRel
<1>2. PICK t \in S : \A u \in S : <<u, t>> \notin less
  <2> HIDE DEF less
  <2>. QED BY <1>1, WFMin
<1>3. \A u \in S : t <= u
  <2> TAKE u \in S
  <2>1. <<u, t>> \in less <=> u < t
    OBVIOUS
  <2>. QED
    BY <1>2, <2>1
<1>. QED
  BY <1>3 DEF Earliest

LEMMA LatestIs ==
  ASSUME NEW S \in SUBSET Nat, IsFiniteSet(S), S # {}
  PROVE  Latest(S) \in S /\ \A u \in S : u <= Latest(S)
<1> DEFINE self == [x \in S |-> x]
           bounds == {n \in Nat : \A x \in S : x <= n}
<1>1. \A x \in S : self[x] \in Nat
  OBVIOUS
<1>2. Tally(self, S) \in bounds
  <2> HIDE DEF self
  <2>1. Tally(self, S) \in Nat
    BY <1>1, TallyType
  <2>2. ASSUME NEW x \in S PROVE self[x] <= Tally(self, S)
    <3>1. Tally(self, S) = Tally(self, S \ {x}) + self[x]
      BY <1>1, TallyRemove
    <3>2. IsFiniteSet(S \ {x})
      BY FS_Subset
    <3>3. Tally(self, S \ {x}) \in Nat
      BY <1>1, <3>2, TallyType
    <3>. QED
      BY <3>1, <3>3, <1>1
  <2>. QED
    BY <2>1, <2>2 DEF self
<1>3. PICK m \in bounds : \A n \in bounds : m <= n
  <2> HIDE DEF bounds
  <2>1. bounds \in SUBSET Nat /\ bounds # {}
    BY <1>2 DEF bounds
  <2>. QED
    BY <2>1, EarliestIs
<1>4. m \in S
  <2> SUFFICES ASSUME m \notin S PROVE FALSE
    OBVIOUS
  <2>1. PICK x \in S : TRUE
    OBVIOUS
  <2>2. m > 0
    BY <2>1
  <2>3. m - 1 \in bounds
    BY <2>2
  <2>. QED
    BY <1>3, <2>2, <2>3
<1>. QED
  BY <1>4 DEF Latest

-----------------------------------------------------------------------------
(* The inductive invariant.                                                  *)

FilledAt(t) == \E i \in DOMAIN fills : fills[i].at = t

\* A session that exists stands on a stored bar within its range, whose end is
\* stored as well; it is active before the end and completes at it.
SessionSound ==
  /\ sess.status = "absent" => fills = <<>>
  /\ sess.status # "absent" =>
       /\ sess.start \in Times /\ sess.current \in Times /\ sess.end \in Times
       /\ sess.start <= sess.current /\ sess.current <= sess.end
       /\ bars[sess.current] # NoBar /\ bars[sess.end] # NoBar
       /\ sess.status = "active" => sess.current < sess.end
       /\ sess.status = "completed" => sess.current = sess.end

\* What a request in flight knows: under the lock its copy is the session; the
\* bar it found is ahead and stored; the fill it is about to commit is covered; the
\* instant it may lock the journal at is that of a fill.
RequestSound(r) ==
  /\ r.stage # "idle" => sess.status # "absent"
  /\ r.op = "submit" => r.order \in Orders
  /\ r.stage \in Working => r.seen = sess
  /\ r.stage \in {"found", "filled"} => sess.status = "active"
  /\ r.stage = "found" => r.time \in Upcoming(sess)
  /\ r.stage = "filled" =>
       /\ r.order \in Orders /\ r.close \in Prices
       /\ Covers(sess, r.order, r.close)
  /\ r.stage \in {"make", "freeze", "write"} /\ r.time # NoTime => FilledAt(r.time)

ReplayInv ==
  /\ TypeOK
  /\ SessionSound
  /\ \A c \in Clients : RequestSound(req[c])
  /\ FillsFollowClock
  /\ LockedByFill

LEMMA InitInv == Init => ReplayInv
<1> SUFFICES ASSUME Init PROVE ReplayInv
  OBVIOUS
<1>1. TypeOK
  BY BookAssumption, EmptySeq
     DEF Init, TypeOK, SessionRow, Statuses, Absent, NoJournal, JournalRow, Idle, Request,
         Stages, Working, Locking, Journaling
<1>2. SessionSound /\ FillsFollowClock /\ LockedByFill
  BY DEF Init, SessionSound, FillsFollowClock, LockedByFill, Absent, NoJournal
<1>3. \A c \in Clients : RequestSound(req[c])
  BY DEF Init, RequestSound, Idle, Working
<1>. QED
  BY <1>1, <1>2, <1>3 DEF ReplayInv

\* What the invariant says of a session that exists.
LEMMA SessionTypes ==
  ASSUME TypeOK, SessionSound, sess.status # "absent"
  PROVE  /\ sess.start \in Nat /\ sess.current \in Nat /\ sess.end \in Nat
         /\ sess.cash \in Nat /\ sess.qty \in Nat
         /\ bars[sess.current] \in Prices
BY TimesAssumption DEF TypeOK, SessionSound, SessionRow

LEMMA FillRowIs ==
  ASSUME NEW fill \in FillRow
  PROVE  /\ fill.side \in {"buy", "sell"} /\ fill.at \in Nat
         /\ fill.price \in Nat /\ fill.qty \in Nat /\ fill.price * fill.qty \in Nat
<1>1. \A p \in Prices : p \in Nat
  BY PricesAssumption DEF Prices
<1>2. fill.side \in {"buy", "sell"} /\ fill.qty \in Nat /\ fill.price \in Prices /\ fill.at \in Times
  BY DEF FillRow
<1>3. fill.price \in Nat /\ fill.at \in Nat
  BY <1>1, <1>2, TimesAssumption
<1>. QED
  BY <1>2, <1>3

\* What the type says of a recorded fill.
LEMMA FillTypes ==
  ASSUME TypeOK
  PROVE  /\ Len(fills) \in Nat /\ DOMAIN fills = 1..Len(fills)
         /\ \A i \in DOMAIN fills :
              /\ fills[i].side \in {"buy", "sell"} /\ fills[i].at \in Nat
              /\ fills[i].price \in Nat /\ fills[i].qty \in Nat
<1>1. DOMAIN fills = 1..Len(fills) /\ Len(fills) \in Nat
  BY LenProperties DEF TypeOK
<1>2. \A i \in DOMAIN fills : fills[i] \in FillRow
  BY <1>1, ElementOfSeq DEF TypeOK
<1>. QED
  BY <1>1, <1>2, FillRowIs

\* Stored bars stay stored.
LEMMA StoreBarInv ==
  ASSUME ReplayInv, NEW t \in Times, NEW x \in Closes[t], StoreBar(t, x)
  PROVE  ReplayInv'
<1>1. x \in Prices /\ x # NoBar
  BY PricesAssumption DEF Prices
<1>2. Stored \subseteq Stored'
  BY <1>1, PricesAssumption DEF StoreBar, Stored, ReplayInv, TypeOK
<1>3. TypeOK'
  BY <1>1 DEF ReplayInv, TypeOK, StoreBar, Prices, SessionRow, FillRow, JournalRow, Request
<1>4. SessionSound'
  BY <1>1 DEF ReplayInv, TypeOK, SessionSound, StoreBar
<1>5. \A c \in Clients : RequestSound(req[c])'
  <2> TAKE c \in Clients
  <2>1. Upcoming(sess) \subseteq Upcoming(sess)'
    BY <1>2 DEF Upcoming, StoreBar
  <2>. QED
    BY <2>1 DEF ReplayInv, StoreBar, RequestSound, FilledAt, Covers, Prices
<1>6. FillsFollowClock' /\ LockedByFill'
  BY DEF ReplayInv, StoreBar, FillsFollowClock, LockedByFill
<1>. QED
  BY <1>3, <1>4, <1>5, <1>6 DEF ReplayInv

\* A new session starts on a stored bar with at least one more bar ahead.
LEMMA CreateInv ==
  ASSUME ReplayInv, NEW from \in Times, NEW to \in Times \cup {NoTime}, Create(from, to)
  PROVE  ReplayInv'
<1> DEFINE starts == {t \in Stored : from <= t}
           ends == {t \in Stored : to # NoTime => t <= to}
           range == {t \in Stored : Earliest(starts) <= t /\ t <= Latest(ends)}
<1>1. /\ sess.status = "absent" /\ starts # {} /\ ends # {} /\ Cardinality(range) >= 2
      /\ sess' = [Absent EXCEPT !.status = "active", !.start = Earliest(starts),
                                !.current = Earliest(starts), !.end = Latest(ends)]
      /\ UNCHANGED <<bars, fills, journal, lock, req>>
  BY DEF Create
<1>2. Stored \subseteq Times /\ IsFiniteSet(Stored) /\ Stored \subseteq Nat
  BY TimesAssumption, FS_Subset DEF Stored
<1>3. Earliest(starts) \in starts
  <2>1. starts \in SUBSET Nat
    BY <1>2
  <2> HIDE DEF starts
  <2>. QED BY <1>1, <2>1, EarliestIs
<1>4. Latest(ends) \in ends
  <2>1. ends \in SUBSET Nat /\ IsFiniteSet(ends)
    BY <1>2, FS_Subset
  <2> HIDE DEF ends
  <2>. QED BY <1>1, <2>1, LatestIs
<1>5. Earliest(starts) < Latest(ends)
  <2> DEFINE first == Earliest(starts)
             last == Latest(ends)
  <2>1. first \in Nat /\ last \in Nat
    BY <1>2, <1>3, <1>4
  <2>2. SUFFICES ASSUME ~ first < last PROVE FALSE
    OBVIOUS
  <2>3. range \subseteq {first}
    <3>1. \A t \in range : t \in Nat /\ first <= t /\ t <= last
      BY <1>2
    <3> HIDE DEF first, last, range
    <3>. QED BY <2>1, <2>2, <3>1
  <2>4. Cardinality({first}) = 1 /\ IsFiniteSet({first})
    BY FS_Singleton
  <2>5. Cardinality(range) <= 1
    <3> HIDE DEF range, first
    <3>. QED BY <2>3, <2>4, FS_Subset
  <2>6. Cardinality(range) \in Nat
    <3> HIDE DEF range, first
    <3>. QED BY <2>3, <2>4, FS_Subset, FS_CardinalityType
  <2>. QED
    <3> HIDE DEF range
    <3>. QED BY <1>1, <2>5, <2>6
<1>6. /\ Earliest(starts) \in Times /\ Latest(ends) \in Times
      /\ bars[Earliest(starts)] # NoBar /\ bars[Latest(ends)] # NoBar
      /\ Earliest(starts) \in Nat /\ Latest(ends) \in Nat
  BY <1>2, <1>3, <1>4 DEF Stored
<1> HIDE DEF starts, ends, range
<1>7. TypeOK'
  BY <1>1, <1>6, BookAssumption
     DEF ReplayInv, TypeOK, SessionRow, Statuses, Absent, FillRow, JournalRow, Request
<1>8. SessionSound'
  BY <1>1, <1>5, <1>6 DEF SessionSound, Absent
<1>9. fills' = <<>> /\ \A c \in Clients : req'[c].stage = "idle" /\ req'[c] = req[c]
  BY <1>1 DEF ReplayInv, SessionSound, RequestSound
<1>10. \A c \in Clients : RequestSound(req[c])'
  BY <1>9 DEF ReplayInv, RequestSound, Working
<1>11. FillsFollowClock' /\ LockedByFill'
  BY <1>1, <1>9 DEF ReplayInv, FillsFollowClock, LockedByFill
<1>. QED
  BY <1>7, <1>8, <1>10, <1>11 DEF ReplayInv

-----------------------------------------------------------------------------
(* Steps that change nothing but one request, and the lock.                  *)

LEMMA OnlyRequest ==
  ASSUME ReplayInv, NEW c \in Clients, NEW r \in Request, RequestSound(r),
         req' = [req EXCEPT ![c] = r], UNCHANGED <<bars, sess, fills, journal>>,
         lock' \in Clients \cup {Free},
         \A d \in Clients : lock' = d <=> req'[d].stage \in Working
  PROVE  ReplayInv'
<1>1. TypeOK'
  BY DEF ReplayInv, TypeOK, SessionRow, FillRow, JournalRow, Request, Prices
<1>2. SessionSound' /\ FillsFollowClock' /\ LockedByFill'
  BY DEF ReplayInv, SessionSound, FillsFollowClock, LockedByFill
<1>3. \A d \in Clients : RequestSound(req[d])'
  <2> TAKE d \in Clients
  <2>1. req'[d] = IF d = c THEN r ELSE req[d]
    BY DEF ReplayInv, TypeOK
  <2>. QED
    BY <2>1 DEF ReplayInv, RequestSound, FilledAt, Upcoming, Stored, Covers, Prices
<1>. QED
  BY <1>1, <1>2, <1>3 DEF ReplayInv

\* A step that neither takes nor gives up the lock.
LEMMA SameLock ==
  ASSUME ReplayInv, NEW c \in Clients, NEW r \in Request, RequestSound(r),
         req' = [req EXCEPT ![c] = r], UNCHANGED <<bars, sess, fills, journal, lock>>,
         r.stage \in Working <=> req[c].stage \in Working
  PROVE  ReplayInv'
<1>1. \A d \in Clients : lock' = d <=> req'[d].stage \in Working
  BY DEF ReplayInv, TypeOK
<1>2. lock' \in Clients \cup {Free}
  BY DEF ReplayInv, TypeOK
<1>. QED
  BY <1>1, <1>2, OnlyRequest

LEMMA IdleSound == Idle \in Request /\ RequestSound(Idle)
BY BookAssumption
   DEF Idle, Request, RequestSound, Absent, NoJournal, SessionRow, JournalRow, Statuses, Stages,
       Locking, Journaling, Working

\* The end of a request gives up the lock it holds, and no other.
LEMMA EndReleases ==
  ASSUME TypeOK, NEW c \in Clients, End(c)
  PROVE  /\ lock' \in Clients \cup {Free}
         /\ \A d \in Clients : lock' = d <=> req'[d].stage \in Working
         /\ \A d \in Clients : req'[d] = IF d = c THEN Idle ELSE req[d]
         /\ req' \in [Clients -> Request]
BY BookAssumption, IdleSound DEF TypeOK, End, Idle, Working

\* Refuse, NotFilled and Abandon.
LEMMA EndInv ==
  ASSUME ReplayInv, NEW c \in Clients, End(c), UNCHANGED <<bars, sess, fills, journal>>
  PROVE  ReplayInv'
<1>1. TypeOK
  BY DEF ReplayInv
<1>. QED
  BY <1>1, EndReleases, IdleSound, OnlyRequest DEF End

-----------------------------------------------------------------------------
(* The steps a request takes before it writes.                               *)

LEMMA NextBarIs ==
  ASSUME NEW s
  PROVE  /\ NextBar(s) = NoTime <=> Upcoming(s) = {}
         /\ NextBar(s) # NoTime => NextBar(s) \in Upcoming(s)
         /\ NextBar(s) \in Times \cup {NoTime}
<1>1. Upcoming(s) \in SUBSET Nat /\ Upcoming(s) \subseteq Times
  BY TimesAssumption DEF Upcoming, Stored
<1>2. Upcoming(s) # {} => Earliest(Upcoming(s)) \in Upcoming(s)
  BY <1>1, EarliestIs
<1>. QED
  BY <1>1, <1>2, TimesAssumption DEF NextBar

LEMMA FirstFillIs ==
  ASSUME TypeOK
  PROVE  /\ FirstFillAt \in Times \cup {NoTime}
         /\ FirstFillAt # NoTime => FilledAt(FirstFillAt)
<1> DEFINE instants == {fills[i].at : i \in DOMAIN fills}
<1>1. DOMAIN fills = 1..Len(fills) /\ Len(fills) \in Nat
  BY LenProperties DEF TypeOK
<1>2. instants \subseteq Times
  <2>1. \A i \in DOMAIN fills : fills[i] \in FillRow
    BY <1>1, ElementOfSeq DEF TypeOK
  <2>. QED
    BY <2>1 DEF FillRow
<1>3. CASE fills = <<>>
  BY <1>3 DEF FirstFillAt
<1>4. CASE fills # <<>>
  <2>1. Len(fills) # 0
    BY <1>4, EmptySeq DEF TypeOK
  <2>2. instants # {}
    <3>1. 1 \in DOMAIN fills
      BY <1>1, <2>1
    <3>. QED BY <3>1
  <2>3. Earliest(instants) \in instants
    <3>1. instants \in SUBSET Nat
      BY <1>2, TimesAssumption
    <3> HIDE DEF instants
    <3>. QED BY <2>2, <3>1, EarliestIs
  <2>. QED
    BY <1>4, <1>2, <2>3 DEF FirstFillAt, FilledAt
<1>. QED
  BY <1>3, <1>4

LEMMA LoadInv ==
  ASSUME ReplayInv, NEW c \in Clients, NEW r \in Requests, Load(c, r)
  PROVE  ReplayInv'
<1> DEFINE rr == [r EXCEPT !.stage = "loaded", !.seen = IF r.op \in Locking THEN sess ELSE @]
<1>1. r \in Request
  <2>1. Idle \in Request
    BY IdleSound
  <2>2. CASE \E op \in {"advance", "cancel", "get"} : r = [Idle EXCEPT !.op = op]
    BY <2>1, <2>2 DEF Request, Locking, Journaling
  <2>3. CASE \E o \in Orders : r = [Idle EXCEPT !.op = "submit", !.order = o]
    BY <2>1, <2>3 DEF Request, Locking
  <2>4. CASE \E x \in Theses : r = [Idle EXCEPT !.op = "put", !.thesis = x]
    BY <2>1, <2>4 DEF Request, Journaling
  <2>. QED
    BY <2>2, <2>3, <2>4 DEF Requests
<1>2. rr \in Request
  BY <1>1 DEF Request, Stages, ReplayInv, TypeOK
<1>3. r.op = "submit" => r.order \in Orders
  BY DEF Requests, Idle
<1>4. RequestSound(rr)
  BY <1>1, <1>3 DEF RequestSound, Load, Working, Request
<1>5. rr.stage = "loaded"
  BY <1>1 DEF Request
<1>6. /\ req' = [req EXCEPT ![c] = rr] /\ UNCHANGED <<bars, sess, fills, journal, lock>>
      /\ req[c].stage = "idle"
  BY DEF Load
<1> HIDE DEF rr
<1>. QED
  BY <1>2, <1>4, <1>5, <1>6, SameLock DEF Working

LEMMA LockSessionInv ==
  ASSUME ReplayInv, NEW c \in Clients, LockSession(c)
  PROVE  ReplayInv'
<1> DEFINE rr == [req[c] EXCEPT !.stage = "locked", !.seen = sess]
<1>1. req' = [req EXCEPT ![c] = rr] /\ UNCHANGED <<bars, sess, fills, journal>>
  BY DEF LockSession, LockedCopy
<1>2. req[c] \in Request /\ rr \in Request /\ rr.stage = "locked" /\ rr.seen = sess
  BY DEF ReplayInv, TypeOK, Request, Stages
<1>3. RequestSound(rr)
  BY <1>2 DEF ReplayInv, RequestSound, LockSession, Working, Request
<1>4. lock' = c /\ lock = Free
  BY DEF LockSession
<1>5. \A d \in Clients : lock' = d <=> req'[d].stage \in Working
  BY <1>1, <1>2, <1>4, BookAssumption DEF ReplayInv, TypeOK, Working
<1> HIDE DEF rr
<1>. QED
  BY <1>1, <1>2, <1>3, <1>4, <1>5, OnlyRequest

LEMMA FindNextBarInv ==
  ASSUME ReplayInv, NEW c \in Clients, FindNextBar(c)
  PROVE  ReplayInv'
<1> DEFINE rr == [req[c] EXCEPT !.stage = "found", !.time = NextBar(req[c].seen)]
<1>1. req' = [req EXCEPT ![c] = rr] /\ UNCHANGED <<bars, sess, fills, journal, lock>>
  BY DEF FindNextBar
<1>2. req[c].stage = "locked" /\ req[c].seen = sess /\ sess.status = "active"
  BY DEF FindNextBar, Serving, ReplayInv, RequestSound, Working
<1>3. req[c] \in Request /\ rr \in Request /\ rr.stage = "found" /\ rr.time = NextBar(sess)
      /\ rr.seen = sess /\ rr.op = req[c].op /\ rr.order = req[c].order
  BY <1>2, NextBarIs DEF ReplayInv, TypeOK, Request, Stages
<1>4. sess.end \in Upcoming(sess)
  <2>1. /\ sess.end \in Times /\ bars[sess.end] # NoBar /\ sess.current < sess.end
        /\ sess.end \in Nat
    BY <1>2, SessionTypes DEF ReplayInv, SessionSound
  <2>. QED
    BY <2>1 DEF Upcoming, Stored
<1>5. NextBar(sess) \in Upcoming(sess)
  BY <1>4, NextBarIs
<1>6. RequestSound(rr)
  BY <1>2, <1>3, <1>5 DEF ReplayInv, RequestSound, Working
<1> HIDE DEF rr
<1>. QED
  BY <1>1, <1>2, <1>3, <1>6, SameLock DEF Working

LEMMA EvaluateInv ==
  ASSUME ReplayInv, NEW c \in Clients, Evaluate(c)
  PROVE  ReplayInv'
<1> DEFINE rr == [req[c] EXCEPT !.stage = "filled", !.close = bars[sess.current],
                                !.freezes = journal.exists /\ journal.locked = NoTime]
<1>1. req[c].stage = "locked" /\ req[c].seen = sess /\ sess.status = "active" /\ req[c].op = "submit"
  BY DEF Evaluate, Serving, ReplayInv, RequestSound, Working
<1>2. req' = [req EXCEPT ![c] = rr] /\ UNCHANGED <<bars, sess, fills, journal, lock>>
      /\ Covers(sess, req[c].order, bars[sess.current])
  BY <1>1 DEF Evaluate
<1>3. bars[sess.current] \in Prices
  BY <1>1, SessionTypes DEF ReplayInv
<1>4. req[c] \in Request /\ rr \in Request /\ rr.stage = "filled" /\ rr.close = bars[sess.current]
      /\ rr.seen = sess /\ rr.op = "submit" /\ rr.order = req[c].order
  BY <1>1, <1>3 DEF ReplayInv, TypeOK, Request, Stages
<1>5. RequestSound(rr)
  BY <1>1, <1>2, <1>3, <1>4 DEF ReplayInv, RequestSound, Working
<1> HIDE DEF rr
<1>. QED
  BY <1>1, <1>2, <1>4, <1>5, SameLock DEF Working

-----------------------------------------------------------------------------
(* The journal.                                                              *)

LEMMA ReadJournalInv ==
  ASSUME ReplayInv, NEW c \in Clients, ReadJournal(c)
  PROVE  ReplayInv'
<1> DEFINE rr == [req[c] EXCEPT !.stage = "read", !.row = journal]
<1>1. /\ req' = [req EXCEPT ![c] = rr] /\ UNCHANGED <<bars, sess, fills, journal, lock>>
      /\ req[c].stage = "loaded"
  BY DEF ReadJournal
<1>2. req[c] \in Request /\ rr \in Request /\ rr.stage = "read" /\ rr.op = req[c].op
      /\ rr.order = req[c].order
  BY DEF ReplayInv, TypeOK, Request, Stages
<1>3. RequestSound(rr)
  BY <1>1, <1>2 DEF ReplayInv, RequestSound, Working
<1> HIDE DEF rr
<1>. QED
  BY <1>1, <1>2, <1>3, SameLock DEF Working

\* A request with its row in hand is in no stage that the invariant is about.
LEMMA FetchedSound ==
  ASSUME ReplayInv, NEW c \in Clients, req[c].stage # "idle", NEW row \in JournalRow
  PROVE  Fetched(c, row) \in Request /\ RequestSound(Fetched(c, row))
         /\ Fetched(c, row).stage \notin Working
<1> DEFINE rr == [req[c] EXCEPT !.stage = "check", !.row = row]
<1>1. req[c] \in Request /\ rr \in Request /\ rr.stage = "check" /\ rr.op = req[c].op
      /\ rr.order = req[c].order
  BY DEF ReplayInv, TypeOK, Request, Stages
<1>2. RequestSound(rr)
  BY <1>1 DEF ReplayInv, RequestSound, Working
<1>3. Idle.stage = "idle"
  BY DEF Idle
<1>4. Fetched(c, row) = IF req[c].op = "get" THEN Idle ELSE rr
  BY DEF Fetched
<1> HIDE DEF rr
<1>. QED
  BY <1>1, <1>2, <1>3, <1>4, IdleSound DEF Working

LEMMA ReadFillsInv ==
  ASSUME ReplayInv, NEW c \in Clients, ReadFills(c)
  PROVE  ReplayInv'
<1> DEFINE make == [req[c] EXCEPT !.stage = "make", !.time = FirstFillAt]
           freeze == [req[c] EXCEPT !.stage = "freeze", !.time = FirstFillAt]
<1>1. /\ req[c].stage = "read" /\ UNCHANGED <<bars, sess, fills, journal, lock>>
      /\ \/ req' = [req EXCEPT ![c] = make]
         \/ req' = [req EXCEPT ![c] = freeze]
         \/ req' = [req EXCEPT ![c] = Fetched(c, req[c].row)]
  BY DEF ReadFills, ReplayInv, TypeOK
<1>2. /\ req[c] \in Request /\ req[c].row \in JournalRow
      /\ make \in Request /\ make.stage = "make" /\ make.time = FirstFillAt
      /\ freeze \in Request /\ freeze.stage = "freeze" /\ freeze.time = FirstFillAt
      /\ make.op = req[c].op /\ make.order = req[c].order
      /\ freeze.op = req[c].op /\ freeze.order = req[c].order
  BY FirstFillIs DEF ReplayInv, TypeOK, Request, Stages
<1>3. RequestSound(make) /\ RequestSound(freeze)
  BY <1>1, <1>2, FirstFillIs DEF ReplayInv, RequestSound, Working
<1>4. Fetched(c, req[c].row) \in Request /\ RequestSound(Fetched(c, req[c].row))
      /\ Fetched(c, req[c].row).stage \notin Working
  BY <1>1, <1>2, FetchedSound
<1> HIDE DEF make, freeze
<1>5. CASE req' = [req EXCEPT ![c] = make]
  BY <1>1, <1>2, <1>3, <1>5, SameLock DEF Working
<1>6. CASE req' = [req EXCEPT ![c] = freeze]
  BY <1>1, <1>2, <1>3, <1>6, SameLock DEF Working
<1>7. CASE req' = [req EXCEPT ![c] = Fetched(c, req[c].row)]
  BY <1>1, <1>4, <1>7, SameLock DEF Working
<1>. QED
  BY <1>1, <1>5, <1>6, <1>7

LEMMA RereadJournalInv ==
  ASSUME ReplayInv, NEW c \in Clients, RereadJournal(c)
  PROVE  ReplayInv'
<1>1. /\ req[c].stage = "reread" /\ UNCHANGED <<bars, sess, fills, journal, lock>>
      /\ req' = [req EXCEPT ![c] = Fetched(c, journal)]
      /\ journal \in JournalRow
  BY DEF RereadJournal, ReplayInv, TypeOK
<1>2. Fetched(c, journal) \in Request /\ RequestSound(Fetched(c, journal))
      /\ Fetched(c, journal).stage \notin Working
  BY <1>1, FetchedSound
<1>. QED
  BY <1>1, <1>2, SameLock DEF Working

LEMMA CheckThesisInv ==
  ASSUME ReplayInv, NEW c \in Clients, CheckThesis(c)
  PROVE  ReplayInv'
<1> DEFINE rr == [req[c] EXCEPT !.stage = "write",
                    !.time = IF req[c].row.locked = NoTime THEN FirstFillAt ELSE NoTime]
<1>1. /\ req[c].stage = "check" /\ UNCHANGED <<bars, sess, fills, journal, lock>>
      /\ req' = [req EXCEPT ![c] = Idle] \/ req' = [req EXCEPT ![c] = rr]
  BY DEF CheckThesis, ReplayInv, TypeOK
<1>2. /\ req[c] \in Request /\ rr \in Request /\ rr.stage = "write"
      /\ rr.op = req[c].op /\ rr.order = req[c].order
      /\ rr.time # NoTime => rr.time = FirstFillAt
  BY FirstFillIs DEF ReplayInv, TypeOK, Request, Stages
<1>3. RequestSound(rr)
  BY <1>1, <1>2, FirstFillIs DEF ReplayInv, RequestSound, Working
<1>4. Idle.stage = "idle"
  BY DEF Idle
<1> HIDE DEF rr
<1>5. CASE req' = [req EXCEPT ![c] = rr]
  BY <1>1, <1>2, <1>3, <1>5, SameLock DEF Working
<1>6. CASE req' = [req EXCEPT ![c] = Idle]
  BY <1>1, <1>4, <1>6, IdleSound, SameLock DEF Working
<1>. QED
  BY <1>1, <1>5, <1>6

\* Whatever is written to the journal's lock is the instant of a fill.
LEMMA OnlyJournal ==
  ASSUME ReplayInv, NEW c \in Clients, NEW r \in Request, RequestSound(r),
         req' = [req EXCEPT ![c] = r], UNCHANGED <<bars, sess, fills, lock>>,
         r.stage \notin Working, req[c].stage \notin Working,
         journal' \in JournalRow, journal'.locked # NoTime => FilledAt(journal'.locked)
  PROVE  ReplayInv'
<1>1. TypeOK'
  BY DEF ReplayInv, TypeOK, SessionRow, FillRow, JournalRow, Request, Prices
<1>2. SessionSound' /\ FillsFollowClock' /\ LockedByFill'
  BY DEF ReplayInv, SessionSound, FillsFollowClock, LockedByFill, FilledAt
<1>3. \A d \in Clients : RequestSound(req[d])'
  <2> TAKE d \in Clients
  <2>1. req'[d] = IF d = c THEN r ELSE req[d]
    BY DEF ReplayInv, TypeOK
  <2>. QED
    BY <2>1 DEF ReplayInv, RequestSound, FilledAt, Upcoming, Stored, Covers, Prices
<1>. QED
  BY <1>1, <1>2, <1>3 DEF ReplayInv

LEMMA MakeRowInv ==
  ASSUME ReplayInv, NEW c \in Clients, MakeRow(c)
  PROVE  ReplayInv'
<1> DEFINE row == [exists |-> TRUE, thesis |-> Blank, locked |-> req[c].time]
           rr == [req[c] EXCEPT !.stage = "reread"]
<1>1. req[c].stage = "make" /\ UNCHANGED <<bars, sess, fills, lock>>
  BY DEF MakeRow
<1>2. /\ req[c] \in Request /\ req[c].time \in Times \cup {NoTime}
      /\ rr \in Request /\ rr.stage = "reread" /\ rr.op = req[c].op /\ rr.order = req[c].order
  BY DEF ReplayInv, TypeOK, Request, Stages
<1>3. CASE journal.exists
  <2>1. req' = [req EXCEPT ![c] = Idle] /\ UNCHANGED journal
    BY <1>3 DEF MakeRow
  <2>2. Idle.stage = "idle"
    BY DEF Idle
  <2>. QED
    BY <1>1, <2>1, <2>2, IdleSound, SameLock DEF Working
<1>4. CASE ~ journal.exists
  <2>1. journal' = row /\ req' = [req EXCEPT ![c] = rr]
    BY <1>4 DEF MakeRow
  <2>2. row \in JournalRow
    BY <1>2, BookAssumption DEF JournalRow
  <2>3. row.locked # NoTime => FilledAt(row.locked)
    BY <1>1 DEF ReplayInv, RequestSound
  <2>4. RequestSound(rr)
    BY <1>1, <1>2 DEF ReplayInv, RequestSound, Working
  <2> HIDE DEF row, rr
  <2>. QED
    BY <1>1, <1>2, <2>1, <2>2, <2>3, <2>4, OnlyJournal DEF Working
<1>. QED
  BY <1>3, <1>4

LEMMA FreezeRowInv ==
  ASSUME ReplayInv, NEW c \in Clients, FreezeRow(c)
  PROVE  ReplayInv'
<1> DEFINE row == [journal EXCEPT !.locked = req[c].time]
           rr == [req[c] EXCEPT !.stage = "reread"]
<1>1. /\ req[c].stage = "freeze" /\ UNCHANGED <<bars, sess, fills, lock>>
      /\ journal' = row /\ req' = [req EXCEPT ![c] = rr]
  BY DEF FreezeRow, ReplayInv, TypeOK
<1>2. /\ req[c] \in Request
      /\ rr \in Request /\ rr.stage = "reread" /\ rr.op = req[c].op /\ rr.order = req[c].order
  BY DEF ReplayInv, TypeOK, Request, Stages
<1>3. row \in JournalRow /\ row.locked = req[c].time
  BY <1>2 DEF ReplayInv, TypeOK, JournalRow, Request
<1>4. row.locked # NoTime => FilledAt(row.locked)
  BY <1>1, <1>3 DEF ReplayInv, RequestSound
<1>5. RequestSound(rr)
  BY <1>1, <1>2 DEF ReplayInv, RequestSound, Working
<1> HIDE DEF row, rr
<1>. QED
  BY <1>1, <1>2, <1>3, <1>4, <1>5, OnlyJournal DEF Working

LEMMA WriteThesisInv ==
  ASSUME ReplayInv, NEW c \in Clients, WriteThesis(c)
  PROVE  ReplayInv'
<1> DEFINE row ==
  [journal EXCEPT !.thesis = IF req[c].thesis # req[c].row.thesis THEN req[c].thesis ELSE @,
                  !.locked = IF req[c].time # NoTime THEN req[c].time ELSE @]
<1>1. /\ req[c].stage = "write" /\ UNCHANGED <<bars, sess, fills, lock>>
      /\ journal' = row /\ req' = [req EXCEPT ![c] = Idle]
  BY DEF WriteThesis
<1>2. req[c].time \in Times \cup {NoTime} /\ req[c].thesis \in Theses /\ journal \in JournalRow
  BY DEF ReplayInv, TypeOK, Request
<1>3. row \in JournalRow
      /\ row.locked = IF req[c].time # NoTime THEN req[c].time ELSE journal.locked
  BY <1>2 DEF JournalRow
<1>4. row.locked # NoTime => FilledAt(row.locked)
  BY <1>1, <1>3 DEF ReplayInv, RequestSound, LockedByFill, FilledAt
<1>5. Idle.stage = "idle"
  BY DEF Idle
<1> HIDE DEF row
<1>. QED
  BY <1>1, <1>3, <1>4, <1>5, IdleSound, OnlyJournal DEF Working

-----------------------------------------------------------------------------
(* The commits under the session's lock.                                     *)

\* A request that works under the lock knows the session, and no other does.
LEMMA UnderLock ==
  ASSUME ReplayInv, NEW c \in Clients, req[c].stage \in Working
  PROVE  /\ lock = c /\ req[c].seen = sess /\ sess.status # "absent"
         /\ \A d \in Clients \ {c} : req[d].stage \notin Working
BY DEF ReplayInv, TypeOK, RequestSound, Working

\* A commit that keeps the session a session and forgets no fill disturbs no other request.
LEMMA OthersUndisturbed ==
  ASSUME ReplayInv, NEW c \in Clients, req[c].stage \in Working, End(c), UNCHANGED bars,
         sess'.status # "absent", \A t \in Times : FilledAt(t) => FilledAt(t)'
  PROVE  \A d \in Clients : RequestSound(req[d])'
<1> TAKE d \in Clients
<1>1. req'[d] = IF d = c THEN Idle ELSE req[d]
  BY EndReleases DEF ReplayInv
<1>2. CASE d = c
  BY <1>1, <1>2 DEF RequestSound, Idle, Working
<1>3. CASE d # c
  <2>1. req'[d] = req[d] /\ req[d].stage \notin Working
    BY <1>1, <1>3, UnderLock
  <2>2. req[d].time # NoTime => req[d].time \in Times
    BY DEF ReplayInv, TypeOK, Request
  <2>. QED
    BY <2>1, <2>2 DEF ReplayInv, RequestSound, Working
<1>. QED
  BY <1>2, <1>3

LEMMA CancelSessionInv ==
  ASSUME ReplayInv, NEW c \in Clients, CancelSession(c)
  PROVE  ReplayInv'
<1>1. /\ req[c].stage \in Working /\ req[c].seen = sess /\ sess.status = "active"
      /\ End(c) /\ UNCHANGED <<bars, fills, journal>>
  BY UnderLock DEF CancelSession, Serving, Working
<1>2. sess' = [sess EXCEPT !.status = "cancelled"] /\ sess \in SessionRow
  BY <1>1 DEF CancelSession, ReplayInv, TypeOK
<1>3. TypeOK'
  BY <1>1, <1>2, EndReleases
     DEF ReplayInv, TypeOK, SessionRow, Statuses, FillRow, JournalRow, Request, Prices
<1>4. SessionSound' /\ FillsFollowClock' /\ LockedByFill'
  BY <1>1, <1>2 DEF ReplayInv, SessionSound, FillsFollowClock, LockedByFill, SessionRow
<1>5. \A d \in Clients : RequestSound(req[d])'
  <2>1. sess'.status # "absent"
    BY <1>2 DEF SessionRow
  <2>. QED
    BY <1>1, <2>1, OthersUndisturbed DEF FilledAt
<1>. QED
  BY <1>3, <1>4, <1>5 DEF ReplayInv

\* The clock only moves to a stored bar ahead; at the last one the session is complete.
LEMMA AdvanceInv ==
  ASSUME ReplayInv, NEW c \in Clients, Advance(c)
  PROVE  ReplayInv'
<1> DEFINE t == req[c].time
           moved == [sess EXCEPT !.current = t]
<1>1. /\ req[c].stage \in Working /\ req[c].seen = sess /\ sess.status = "active"
      /\ t \in Upcoming(sess) /\ End(c) /\ UNCHANGED <<bars, fills, journal>>
      /\ sess' = Completed(Moved(sess, t))
  BY UnderLock DEF Advance, Working, ReplayInv, RequestSound
<1>2. /\ sess \in SessionRow /\ t \in Times /\ t # NoTime /\ t \in Nat /\ bars[t] # NoBar
      /\ sess.current < t /\ t <= sess.end
      /\ sess.start \in Nat /\ sess.current \in Nat /\ sess.end \in Nat
      /\ sess.start <= sess.current /\ bars[sess.end] # NoBar
      /\ sess.start \in Times /\ sess.end \in Times
  BY <1>1, SessionTypes, TimesAssumption
     DEF Upcoming, Stored, ReplayInv, TypeOK, SessionSound
<1>3. /\ moved \in SessionRow /\ moved.current = t /\ moved.end = sess.end
      /\ moved.start = sess.start /\ moved.status = "active"
  BY <1>1, <1>2 DEF SessionRow
<1>4. sess' = IF NextBar(moved) = NoTime THEN [moved EXCEPT !.status = "completed"] ELSE moved
  BY <1>1, <1>2 DEF Completed, Moved
<1> HIDE DEF moved
<1>5. NextBar(moved) = NoTime <=> t = sess.end
  <2>1. NextBar(moved) = NoTime <=> Upcoming(moved) = {}
    BY NextBarIs
  <2>2. Upcoming(moved) = {u \in Stored : t < u /\ u <= sess.end}
    BY <1>3 DEF Upcoming
  <2>3. CASE t = sess.end
    <3>1. \A u \in Stored : u \in Nat
      BY TimesAssumption DEF Stored
    <3>. QED BY <1>2, <2>1, <2>2, <2>3, <3>1
  <2>4. CASE t # sess.end
    <3>1. sess.end \in Upcoming(moved)
      BY <1>2, <2>2, <2>4 DEF Stored
    <3>. QED BY <2>1, <2>4, <3>1
  <2>. QED
    BY <2>3, <2>4
<1>6. /\ sess' \in SessionRow /\ sess'.current = t /\ sess'.end = sess.end
      /\ sess'.start = sess.start
      /\ sess'.status = IF t = sess.end THEN "completed" ELSE "active"
  BY <1>3, <1>4, <1>5 DEF SessionRow, Statuses
<1> HIDE DEF t
<1>7. TypeOK'
  BY <1>1, <1>6, EndReleases
     DEF ReplayInv, TypeOK, SessionRow, FillRow, JournalRow, Request, Prices
<1>8. SessionSound'
  BY <1>1, <1>2, <1>6 DEF SessionSound
<1>9. FillsFollowClock' /\ LockedByFill'
  <2>1. \A i \in DOMAIN fills : sess.start <= fills[i].at /\ fills[i].at <= t
    <3> TAKE i \in DOMAIN fills
    <3>1. fills[i].at \in Nat
      BY FillTypes DEF ReplayInv
    <3>. QED
      BY <1>2, <3>1 DEF ReplayInv, FillsFollowClock
  <2>. QED
    BY <1>1, <1>6, <2>1 DEF ReplayInv, FillsFollowClock, LockedByFill
<1>10. \A d \in Clients : RequestSound(req[d])'
  <2>1. sess'.status # "absent"
    BY <1>6
  <2>. QED
    BY <1>1, <2>1, OthersUndisturbed DEF FilledAt
<1>. QED
  BY <1>7, <1>8, <1>9, <1>10 DEF ReplayInv

\* A fill is booked at the session's clock, within its cash and position.
LEMMA CommitFillInv ==
  ASSUME ReplayInv, NEW c \in Clients, CommitFill(c)
  PROVE  ReplayInv'
<1> DEFINE o == req[c].order
           price == req[c].close
           fill == [side |-> o.side, qty |-> o.qty, price |-> price, at |-> sess.current]
           n == Len(fills)
<1>1. /\ req[c].stage \in Working /\ req[c].seen = sess /\ sess.status = "active"
      /\ o \in Orders /\ price \in Prices /\ Covers(sess, o, price)
      /\ End(c) /\ UNCHANGED bars
      /\ sess' = Booked(sess, o, price)
      /\ fills' = Append(fills, fill)
      /\ journal' = IF req[c].freezes THEN [journal EXCEPT !.locked = sess.current] ELSE journal
  BY UnderLock DEF CommitFill, FillOf, Working, ReplayInv, RequestSound
<1>2. /\ sess \in SessionRow /\ sess.cash \in Nat /\ sess.qty \in Nat
      /\ sess.current \in Times /\ sess.current \in Nat
      /\ sess.start \in Nat /\ sess.start <= sess.current
  BY <1>1, SessionTypes DEF ReplayInv, TypeOK, SessionSound
<1>3. price \in Nat \ {0} /\ o.qty \in Nat \ {0} /\ o.side \in {"buy", "sell"}
  BY <1>1, PricesAssumption, OrdersAssumption DEF Prices
<1>4. /\ sess' \in SessionRow
      /\ sess'.status = sess.status /\ sess'.start = sess.start
      /\ sess'.current = sess.current /\ sess'.end = sess.end
  <2>1. CASE o.side = "buy"
    <3>1. price * o.qty \in Nat /\ price * o.qty <= sess.cash
      BY <1>1, <1>3, <2>1 DEF Covers
    <3>2. sess.cash - price * o.qty \in Nat /\ sess.qty + o.qty \in Nat
      BY <1>2, <1>3, <3>1
    <3>3. sess' = [sess EXCEPT !.cash = sess.cash - price * o.qty, !.qty = sess.qty + o.qty]
      BY <1>1, <2>1 DEF Booked
    <3> HIDE DEF o, price
    <3>. QED
      BY <1>2, <3>2, <3>3 DEF SessionRow
  <2>2. CASE o.side # "buy"
    <3>1. sess.cash + price * o.qty \in Nat
      BY <1>2, <1>3
    <3>2. sess.qty - o.qty \in Nat
      BY <1>1, <1>2, <1>3, <2>2 DEF Covers
    <3>3. sess' = [sess EXCEPT !.cash = sess.cash + price * o.qty, !.qty = sess.qty - o.qty]
      BY <1>1, <2>2 DEF Booked
    <3> HIDE DEF o, price
    <3>. QED
      BY <1>2, <3>1, <3>2, <3>3 DEF SessionRow
  <2>. QED
    BY <2>1, <2>2
<1>5. fill \in FillRow /\ fill.at = sess.current
  BY <1>1, <1>2, <1>3 DEF FillRow
<1> HIDE DEF o, price, fill
<1>6. /\ fills \in Seq(FillRow) /\ n \in Nat /\ DOMAIN fills = 1..n
      /\ fills' \in Seq(FillRow) /\ DOMAIN fills' = 1..(n + 1)
      /\ \A i \in 1..n : fills'[i] = fills[i]
      /\ fills'[n + 1] = fill
  BY <1>1, <1>5, AppendProperties, LenProperties DEF ReplayInv, TypeOK
<1> HIDE DEF n
<1>7. journal' \in JournalRow /\ (journal'.locked = journal.locked \/ journal'.locked = sess.current)
  BY <1>1, <1>2 DEF ReplayInv, TypeOK, JournalRow
<1>8. TypeOK'
  BY <1>1, <1>4, <1>6, <1>7, EndReleases DEF ReplayInv, TypeOK, Prices, FillRow, JournalRow, Request, SessionRow
<1>9. SessionSound'
  BY <1>1, <1>4 DEF ReplayInv, SessionSound
<1>10. FillsFollowClock'
  <2>1. \A i \in 1..n : sess.start <= fills[i].at /\ fills[i].at <= sess.current
    BY <1>6 DEF ReplayInv, FillsFollowClock
  <2>2. \A i \in 1..(n + 1) : i \in 1..n \/ i = n + 1
    BY <1>6
  <2>3. \A i \in 1..(n + 1) : sess.start <= fills'[i].at /\ fills'[i].at <= sess.current
    BY <1>2, <1>5, <1>6, <2>1, <2>2
  <2>4. ASSUME NEW i \in 1..(n + 1), NEW j \in 1..(n + 1), i <= j
        PROVE  fills'[i].at <= fills'[j].at
    <3>1. CASE j = n + 1
      <4>1. fills'[j].at = sess.current
        BY <1>5, <1>6, <3>1
      <4>. QED
        BY <2>3, <4>1
    <3>2. CASE j # n + 1
      <4>1. i \in 1..n /\ j \in 1..n
        BY <1>6, <2>4, <3>2
      <4>. QED
        BY <1>6, <2>4, <4>1 DEF ReplayInv, FillsFollowClock
    <3>. QED
      BY <3>1, <3>2
  <2>. QED
    BY <1>4, <1>6, <2>3, <2>4 DEF FillsFollowClock
<1>11. \A t : FilledAt(t) => FilledAt(t)'
  BY <1>6 DEF FilledAt
<1>12. FilledAt(sess.current)'
  BY <1>4, <1>5, <1>6 DEF FilledAt
<1>13. LockedByFill'
  BY <1>4, <1>7, <1>11, <1>12 DEF ReplayInv, LockedByFill, FilledAt
<1>14. \A d \in Clients : RequestSound(req[d])'
  BY <1>1, <1>4, <1>11, OthersUndisturbed
<1>. QED
  BY <1>8, <1>9, <1>10, <1>13, <1>14 DEF ReplayInv

-----------------------------------------------------------------------------
(* The theorems.                                                             *)

LEMMA WorkInv ==
  ASSUME ReplayInv, NEW c \in Clients, Work(c)
  PROVE  ReplayInv'
<1>1. CASE Refuse(c) \/ NotFilled(c)
  BY <1>1, EndInv DEF Refuse, NotFilled
<1>. QED
  BY <1>1, LockSessionInv, CancelSessionInv, FindNextBarInv, AdvanceInv, EvaluateInv,
     CommitFillInv, ReadJournalInv, ReadFillsInv, MakeRowInv, FreezeRowInv, RereadJournalInv,
     CheckThesisInv, WriteThesisInv DEF Work

LEMMA NextInv == ReplayInv /\ [Next]_vars => ReplayInv'
<1> SUFFICES ASSUME ReplayInv, [Next]_vars PROVE ReplayInv'
  OBVIOUS
<1>1. CASE \E t \in Times : \E x \in Closes[t] : StoreBar(t, x)
  BY <1>1, StoreBarInv
<1>2. CASE \E from \in Times, to \in Times \cup {NoTime} : Create(from, to)
  BY <1>2, CreateInv
<1>3. CASE \E c \in Clients : \E r \in Requests : Load(c, r)
  BY <1>3, LoadInv
<1>4. CASE \E c \in Clients : Work(c)
  BY <1>4, WorkInv
<1>5. CASE \E c \in Clients : Abandon(c)
  BY <1>5, EndInv DEF Abandon
<1>6. CASE UNCHANGED vars
  <2>1. TypeOK' /\ SessionSound' /\ FillsFollowClock' /\ LockedByFill'
    BY <1>6 DEF vars, ReplayInv, TypeOK, SessionSound, FillsFollowClock, LockedByFill,
                SessionRow, FillRow, JournalRow, Request, Prices
  <2>2. \A c \in Clients : RequestSound(req[c])'
    BY <1>6 DEF vars, ReplayInv, RequestSound, FilledAt, Upcoming, Stored, Covers, Prices
  <2>. QED
    BY <2>1, <2>2 DEF ReplayInv
<1>. QED
  BY <1>1, <1>2, <1>3, <1>4, <1>5, <1>6 DEF Next

\* The sums of the fills, before and after one more.
LEMMA TallyFill ==
  ASSUME TypeOK, NEW fill \in FillRow, fills' = Append(fills, fill), NEW side \in {"buy", "sell"}
  PROVE  /\ Tally(Notional, SideOf(side))' = Tally(Notional, SideOf(side))
              + (IF fill.side = side THEN fill.price * fill.qty ELSE 0)
         /\ Tally(Volume, SideOf(side))' = Tally(Volume, SideOf(side))
              + (IF fill.side = side THEN fill.qty ELSE 0)
         /\ Tally(Notional, SideOf(side)) \in Nat /\ Tally(Volume, SideOf(side)) \in Nat
<1> DEFINE n == Len(fills)
           S == SideOf(side)
           worth == fill.price * fill.qty
<1>1. n \in Nat /\ DOMAIN fills = 1..n
  BY FillTypes
<1>2. /\ DOMAIN fills' = 1..(n + 1)
      /\ \A i \in 1..n : fills'[i] = fills[i]
      /\ fills'[n + 1] = fill
  BY <1>1, AppendProperties, LenProperties DEF TypeOK
<1>3. fill.price \in Nat /\ fill.qty \in Nat /\ worth \in Nat
  BY FillRowIs
<1>4. S \in SUBSET (1..n) /\ n + 1 \notin S /\ IsFiniteSet(S)
  <2>1. S \in SUBSET (1..n) /\ n + 1 \notin 1..n
    BY <1>1 DEF SideOf
  <2>2. IsFiniteSet(1..n)
    BY <1>1, FS_Interval
  <2> HIDE DEF S, n
  <2>. QED
    BY <2>1, <2>2, FS_Subset
<1>5. \A i \in S : /\ Notional[i] \in Nat /\ Volume[i] \in Nat
                   /\ Notional'[i] = Notional[i] /\ Volume'[i] = Volume[i]
  <2> TAKE i \in S
  <2>1. i \in 1..n /\ i \in 1..(n + 1)
    BY <1>1, <1>4
  <2>2. fills[i].price \in Nat /\ fills[i].qty \in Nat
    BY <1>1, <2>1, FillTypes
  <2>3. fills[i].price * fills[i].qty \in Nat
    BY <2>2
  <2>4. Notional[i] = fills[i].price * fills[i].qty /\ Volume[i] = fills[i].qty
    BY <1>1, <2>1 DEF Notional, Volume
  <2>5. Notional'[i] = fills'[i].price * fills'[i].qty /\ Volume'[i] = fills'[i].qty
    BY <1>2, <2>1 DEF Notional, Volume
  <2>. QED
    BY <1>2, <2>1, <2>2, <2>3, <2>4, <2>5
<1>6. Notional'[n + 1] = worth /\ Volume'[n + 1] = fill.qty
  BY <1>1, <1>2 DEF Notional, Volume
<1>7. S' = IF fill.side = side THEN S \cup {n + 1} ELSE S
  <2>1. \A i : i \in S' <=> i \in 1..(n + 1) /\ fills'[i].side = side
    BY <1>2 DEF SideOf
  <2>2. \A i : i \in S <=> i \in 1..n /\ fills[i].side = side
    BY <1>1 DEF SideOf
  <2>3. \A i : i \in 1..(n + 1) <=> i \in 1..n \/ i = n + 1
    BY <1>1
  <2>4. n + 1 \notin 1..n
    BY <1>1
  <2> HIDE DEF n, S
  <2>5. \A i \in 1..n : i \in S' <=> i \in S
    BY <1>2, <2>1, <2>2, <2>3
  <2>6. n + 1 \in S' <=> fill.side = side
    BY <1>2, <2>1, <2>3
  <2>. QED
    BY <2>1, <2>2, <2>3, <2>4, <2>5, <2>6
<1> HIDE DEF worth, S, n
<1>8. /\ Tally(Notional, S) \in Nat /\ Tally(Volume, S) \in Nat
      /\ Tally(Notional', S) = Tally(Notional, S)
      /\ Tally(Volume', S) = Tally(Volume, S)
  BY <1>4, <1>5, TallyType, TallyCongruent
<1>9. /\ Tally(Notional', S \cup {n + 1}) = Tally(Notional', S) + worth
      /\ Tally(Volume', S \cup {n + 1}) = Tally(Volume', S) + fill.qty
  <2>1. \A i \in S \cup {n + 1} : Notional'[i] \in Nat /\ Volume'[i] \in Nat
    BY <1>3, <1>5, <1>6
  <2>2. Tally(Notional', S \cup {n + 1}) = Tally(Notional', S) + Notional'[n + 1]
    BY <1>4, <2>1, TallyAdd
  <2>3. Tally(Volume', S \cup {n + 1}) = Tally(Volume', S) + Volume'[n + 1]
    BY <1>4, <2>1, TallyAdd
  <2>. QED
    BY <1>6, <2>2, <2>3
<1>10. /\ Tally(Notional, S)' = Tally(Notional', S')
       /\ Tally(Volume, S)' = Tally(Volume', S')
  BY DEF Tally
<1>11. /\ Tally(Notional', S') = Tally(Notional, S) + (IF fill.side = side THEN worth ELSE 0)
       /\ Tally(Volume', S') = Tally(Volume, S) + (IF fill.side = side THEN fill.qty ELSE 0)
  BY <1>3, <1>7, <1>8, <1>9
<1>. QED
  BY <1>8, <1>10, <1>11 DEF S, worth

\* The inductive invariant holds in every reachable state.
THEOREM ReplayInvariant == Spec => []ReplayInv
BY InitInv, NextInv, PTL DEF Spec

\* Cash, position and clock keep their types whatever overlaps: no order takes cash or
\* shares that the session does not have, and one request at a time works under its lock.
THEOREM TypeCorrect == Spec => []TypeOK
<1>1. ReplayInv => TypeOK
  BY DEF ReplayInv
<1>. QED
  BY <1>1, ReplayInvariant, PTL

\* No fill lies before the start of the range or after the bar the session stands on, and
\* a later fill never has an earlier instant.
THEOREM FillsFollowClockHolds == Spec => []FillsFollowClock
<1>1. ReplayInv => FillsFollowClock
  BY DEF ReplayInv
<1>. QED
  BY <1>1, ReplayInvariant, PTL

\* A journal that is locked is locked at the instant of a fill.
THEOREM LockedByFillHolds == Spec => []LockedByFill
<1>1. ReplayInv => LockedByFill
  BY DEF ReplayInv
<1>. QED
  BY <1>1, ReplayInvariant, PTL

\* The list view's has_next, which reads no bar, is what the bars say, for every range and
\* however ingestion adds bars while the session runs.
THEOREM HasNextIsRightHolds == Spec => []HasNextIsRight
<1>1. ReplayInv => HasNextIsRight
  <2> SUFFICES ASSUME ReplayInv PROVE HasNextIsRight
    OBVIOUS
  <2>1. sess.status = "active" => CanAdvance(sess)
    BY DEF ReplayInv, SessionSound, CanAdvance
  <2>2. CanAdvance(sess) => NextBar(sess) # NoTime
    <3> SUFFICES ASSUME CanAdvance(sess) PROVE NextBar(sess) # NoTime
      OBVIOUS
    <3>1. /\ sess.end \in Times /\ bars[sess.end] # NoBar /\ sess.current < sess.end
          /\ sess.end \in Nat
      BY SessionTypes DEF ReplayInv, SessionSound, CanAdvance
    <3>2. sess.end \in Upcoming(sess)
      BY <3>1 DEF Upcoming, Stored
    <3>. QED
      BY <3>2, NextBarIs
  <2>3. sess.status = "completed" => sess.current = sess.end
    BY DEF ReplayInv, SessionSound
  <2>. QED
    BY <2>1, <2>2, <2>3 DEF HasNextIsRight, CanAdvance
<1>. QED
  BY <1>1, ReplayInvariant, PTL

\* A completed or cancelled session changes no more: a request that loaded it while it was
\* active reads it again under the lock, and is refused.
THEOREM TerminalIsFinalHolds == Spec => TerminalIsFinal
<1>1. ReplayInv /\ [Next]_vars
        => [sess.status \in {"completed", "cancelled"} => UNCHANGED <<sess, fills>>]_vars
  <2> SUFFICES ASSUME ReplayInv, Next, sess.status \in {"completed", "cancelled"}
               PROVE  UNCHANGED <<sess, fills>>
    OBVIOUS
  <2>1. CASE \E t \in Times : \E x \in Closes[t] : StoreBar(t, x)
    BY <2>1 DEF StoreBar
  <2>2. CASE \E from \in Times, to \in Times \cup {NoTime} : Create(from, to)
    BY <2>2 DEF Create
  <2>3. CASE \E c \in Clients : (\E r \in Requests : Load(c, r)) \/ Abandon(c)
    BY <2>3 DEF Load, Abandon
  <2>4. ASSUME NEW c \in Clients, Work(c) PROVE UNCHANGED <<sess, fills>>
    <3>1. ~ CancelSession(c) /\ ~ Advance(c) /\ ~ CommitFill(c)
      BY DEF ReplayInv, RequestSound, Working, CancelSession, Serving, Advance, CommitFill
    <3>. QED
      BY <2>4, <3>1
         DEF Work, LockSession, Refuse, FindNextBar, Evaluate, NotFilled, ReadJournal,
             ReadFills, MakeRow, FreezeRow, RereadJournal, CheckThesis, WriteThesis
  <2>. QED
    BY <2>1, <2>2, <2>3, <2>4 DEF Next
<1>. QED
  BY <1>1, ReplayInvariant, PTL DEF Spec, TerminalIsFinal


\* Cash and position are what the fills say, whatever prices and quantities: every fill is
\* booked once, and nothing else moves cash or shares.
THEOREM FillsExplainBookHolds == Spec => []FillsExplainBook
<1>1. Init => FillsExplainBook
  <2> SUFFICES ASSUME Init PROVE FillsExplainBook
    OBVIOUS
  <2>1. \A side : SideOf(side) = {}
    BY DEF Init, SideOf
  <2>. QED
    <3>1. /\ Tally(Notional, SideOf("buy")) = 0 /\ Tally(Notional, SideOf("sell")) = 0
          /\ Tally(Volume, SideOf("buy")) = 0 /\ Tally(Volume, SideOf("sell")) = 0
      BY <2>1, TallyEmpty
    <3>2. sess.cash = StartCash /\ sess.qty = 0
      BY DEF Init, Absent
    <3>. QED
      BY <3>1, <3>2, BookAssumption DEF FillsExplainBook
<1>2. ReplayInv /\ FillsExplainBook /\ [Next]_vars => FillsExplainBook'
  <2> SUFFICES ASSUME ReplayInv, FillsExplainBook, [Next]_vars PROVE FillsExplainBook'
    OBVIOUS
  <2>1. ASSUME UNCHANGED <<sess.cash, sess.qty, fills>> PROVE FillsExplainBook'
    BY <2>1 DEF FillsExplainBook, Notional, Volume, SideOf, Tally, Units
  <2>2. ASSUME NEW c \in Clients, CommitFill(c) PROVE FillsExplainBook'
    <3> DEFINE o == req[c].order
               price == req[c].close
               fill == [side |-> o.side, qty |-> o.qty, price |-> price, at |-> sess.current]
    <3>1. /\ req[c].stage \in Working /\ req[c].seen = sess
          /\ o \in Orders /\ price \in Prices /\ Covers(sess, o, price)
          /\ sess' = Booked(sess, o, price) /\ fills' = Append(fills, fill)
      BY <2>2, UnderLock DEF CommitFill, FillOf, Working, ReplayInv, RequestSound
    <3>2. /\ sess \in SessionRow /\ sess.cash \in Nat /\ sess.qty \in Nat /\ sess.current \in Times
      BY <3>1, UnderLock, SessionTypes DEF ReplayInv, TypeOK, SessionSound
    <3>3. fill \in FillRow /\ fill.side \in {"buy", "sell"}
      BY <3>1, <3>2, OrdersAssumption DEF FillRow
    <3>4. fill.price * fill.qty \in Nat /\ fill.qty \in Nat
      BY <3>3, FillRowIs
    <3>5. /\ fill.side = "buy" => /\ sess'.cash = sess.cash - fill.price * fill.qty
                                  /\ sess'.qty = sess.qty + fill.qty
                                  /\ fill.price * fill.qty <= sess.cash
          /\ fill.side = "sell" => /\ sess'.cash = sess.cash + fill.price * fill.qty
                                   /\ sess'.qty = sess.qty - fill.qty
                                   /\ fill.qty <= sess.qty
      BY <3>1, <3>2 DEF Booked, Covers, SessionRow
    <3> HIDE DEF o, price, fill
    <3> DEFINE spent == Tally(Notional, SideOf("buy"))
               earned == Tally(Notional, SideOf("sell"))
               bought == Tally(Volume, SideOf("buy"))
               sold == Tally(Volume, SideOf("sell"))
               worth == fill.price * fill.qty
    <3>6. /\ spent \in Nat /\ earned \in Nat /\ bought \in Nat /\ sold \in Nat
          /\ spent' = spent + (IF fill.side = "buy" THEN worth ELSE 0)
          /\ earned' = earned + (IF fill.side = "sell" THEN worth ELSE 0)
          /\ bought' = bought + (IF fill.side = "buy" THEN fill.qty ELSE 0)
          /\ sold' = sold + (IF fill.side = "sell" THEN fill.qty ELSE 0)
      BY <3>1, <3>3, TallyFill DEF ReplayInv
    <3>7. sess.cash + spent = StartCash + earned /\ sess.qty + sold = bought
      BY DEF FillsExplainBook
    <3>8. worth \in Nat /\ StartCash \in Nat
      BY <3>4, BookAssumption
    <3> HIDE DEF spent, earned, bought, sold, worth
    <3>9. sess'.cash + spent' = StartCash + earned' /\ sess'.qty + sold' = bought'
      <4>1. CASE fill.side = "buy"
        BY <3>2, <3>4, <3>5, <3>6, <3>7, <3>8, <4>1 DEF worth
      <4>2. CASE fill.side = "sell"
        BY <3>2, <3>4, <3>5, <3>6, <3>7, <3>8, <4>2 DEF worth
      <4>. QED
        BY <3>3, <4>1, <4>2
    <3>. QED
      BY <3>9 DEF FillsExplainBook, spent, earned, bought, sold
  <2>3. CASE \E t \in Times : \E x \in Closes[t] : StoreBar(t, x)
    BY <2>1, <2>3 DEF StoreBar
  <2>4. CASE \E from \in Times, to \in Times \cup {NoTime} : Create(from, to)
    <3>1. sess.status = "absent" /\ sess'.cash = StartCash /\ sess'.qty = 0 /\ fills' = fills
      BY <2>4 DEF Create, Absent
    <3>2. fills = <<>>
      BY <3>1 DEF ReplayInv, SessionSound
    <3>3. \A side : SideOf(side)' = {}
      BY <3>1, <3>2 DEF SideOf
    <3>4. \A f : Tally(f, {}) = 0
      BY TallyEmpty
    <3>5. /\ Tally(Notional, SideOf("buy"))' = 0 /\ Tally(Notional, SideOf("sell"))' = 0
          /\ Tally(Volume, SideOf("buy"))' = 0 /\ Tally(Volume, SideOf("sell"))' = 0
      BY <3>3, <3>4 DEF Tally
    <3>. QED
      BY <3>1, <3>5, BookAssumption DEF FillsExplainBook
  <2>5. CASE \E c \in Clients : (\E r \in Requests : Load(c, r)) \/ Abandon(c)
    BY <2>1, <2>5 DEF Load, Abandon
  <2>6. ASSUME NEW c \in Clients, Work(c) PROVE FillsExplainBook'
    <3>1. CASE CommitFill(c)
      BY <2>2, <3>1
    <3>2. CASE CancelSession(c)
      <4>1. sess' = [sess EXCEPT !.status = "cancelled"] /\ fills' = fills /\ sess \in SessionRow
        BY <3>2, UnderLock DEF CancelSession, Serving, Working, ReplayInv, TypeOK
      <4>. QED
        BY <2>1, <4>1 DEF SessionRow
    <3>3. CASE Advance(c)
      <4>1. sess' = Completed(Moved(sess, req[c].time)) /\ fills' = fills /\ sess \in SessionRow
        BY <3>3, UnderLock DEF Advance, Working, ReplayInv, TypeOK
      <4>. QED
        BY <2>1, <4>1 DEF Completed, Moved, SessionRow
    <3>4. CASE Work(c) /\ ~ CommitFill(c) /\ ~ CancelSession(c) /\ ~ Advance(c)
      BY <2>1, <3>4
         DEF Work, LockSession, Refuse, FindNextBar, Evaluate, NotFilled, ReadJournal,
             ReadFills, MakeRow, FreezeRow, RereadJournal, CheckThesis, WriteThesis
    <3>. QED
      BY <2>6, <3>1, <3>2, <3>3, <3>4
  <2>7. CASE UNCHANGED vars
    BY <2>1, <2>7 DEF vars
  <2>. QED
    BY <2>3, <2>4, <2>5, <2>6, <2>7 DEF Next
<1>. QED
  BY <1>1, <1>2, ReplayInvariant, PTL DEF Spec

=============================================================================
