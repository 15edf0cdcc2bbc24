------------------------ MODULE TradePipelineProofs ------------------------
(***************************************************************************)
(* Proofs about the trade-activity pipeline, for any events, partitions,    *)
(* publishers and workers: the count is exact, the committed offset passes  *)
(* over nothing, and the pipeline implements ActivityFeed.                  *)
(***************************************************************************)
EXTENDS TradePipeline, FiniteSetTheorems, TLAPS

-----------------------------------------------------------------------------
(* The outbox: rows, claims and the log.                                     *)

\* Everything a publisher holds, and everything in the log, is a committed row;
\* an acknowledged or published event is in the log.
OutboxInv ==
  /\ OutboxTypeOK
  /\ \A p \in Partitions : \A i \in 1..Len(log[p]) :
       log[p][i] \in Rows /\ PartitionOf[log[p][i].key] = p
  /\ published \subseteq Rows
  /\ \A w \in Publishers : /\ claim[w].rows \subseteq Rows
                           /\ claim[w].todo \subseteq Rows
                           /\ claim[w].acked \subseteq Rows
                           /\ \A e \in claim[w].acked : e \in Records(PartitionOf[e.key])
  /\ PublishedIsLogged

\* The log only grows.
LogGrows ==
  \A p \in Partitions : /\ Len(log[p]) <= Len(log'[p])
                        /\ \A i \in 1..Len(log[p]) : log'[p][i] = log[p][i]

LEMMA OutboxInitInv == OutboxInit => OutboxInv
<1> SUFFICES ASSUME OutboxInit PROVE OutboxInv
  OBVIOUS
<1>1. OutboxTypeOK
  BY DEF OutboxInit, OutboxTypeOK, Claims, NoClaim
<1>2. \A p \in Partitions : Len(log[p]) = 0
  BY DEF OutboxInit
<1>. QED
  BY <1>1, <1>2 DEF OutboxInit, OutboxInv, NoClaim, PublishedIsLogged

\* One record is added at the end of its partition.
LEMMA AppendGrows ==
  ASSUME OutboxInv, NEW e \in Rows, Append1(e), UNCHANGED created
  PROVE  /\ log' \in [Partitions -> Seq(Events)]
         /\ LogGrows
         /\ \A p \in Partitions : \A i \in 1..Len(log'[p]) :
              log'[p][i] \in Rows' /\ PartitionOf[log'[p][i].key] = p
         /\ e \in Records(PartitionOf[e.key])'
<1> DEFINE q == PartitionOf[e.key]
<1>1. e \in Events /\ q \in Partitions /\ Rows' = Rows
  BY EventsAssumption, PartitionsAssumption DEF Rows
<1>2. log \in [Partitions -> Seq(Events)]
  BY DEF OutboxInv, OutboxTypeOK
<1>3. log' = [log EXCEPT ![q] = Append(log[q], e)]
  BY <1>1, <1>2 DEF Append1
<1>4. /\ Append(log[q], e) \in Seq(Events)
      /\ Len(Append(log[q], e)) = Len(log[q]) + 1
      /\ \A i \in 1..Len(log[q]) : Append(log[q], e)[i] = log[q][i]
      /\ Append(log[q], e)[Len(log[q]) + 1] = e
  BY <1>1, <1>2
<1>5. \A p \in Partitions : p # q => log'[p] = log[p]
  BY <1>2, <1>3
<1>6. log'[q] = Append(log[q], e)
  BY <1>1, <1>2, <1>3
<1>7. \A p \in Partitions : Len(log[p]) \in Nat
  BY <1>2
<1>8. log' \in [Partitions -> Seq(Events)]
  BY <1>1, <1>2, <1>3, <1>4
<1>9. LogGrows
  BY <1>4, <1>5, <1>6, <1>7 DEF LogGrows
<1>10. \A p \in Partitions : \A i \in 1..Len(log'[p]) :
         log'[p][i] \in Rows' /\ PartitionOf[log'[p][i].key] = p
  <2> TAKE p \in Partitions
  <2> TAKE i \in 1..Len(log'[p])
  <2>1. CASE p # q
    BY <1>1, <1>5, <2>1 DEF OutboxInv
  <2>2. CASE p = q /\ i \in 1..Len(log[q])
    <3>1. log[q][i] \in Rows /\ PartitionOf[log[q][i].key] = q
      BY <1>1, <2>2 DEF OutboxInv
    <3>2. log'[q][i] = log[q][i]
      BY <1>4, <1>6, <2>2
    <3>. QED
      BY <1>1, <2>2, <3>1, <3>2
  <2>3. CASE p = q /\ i = Len(log[q]) + 1
    BY <1>1, <1>4, <1>6, <2>3
  <2>. QED
    BY <1>1, <1>4, <1>6, <1>7, <2>1, <2>2, <2>3
<1>11. e \in Records(q)'
  <2>1. DOMAIN log'[q] = 1..(Len(log[q]) + 1)
    BY <1>1, <1>4, <1>6, <1>8
  <2>2. Len(log[q]) + 1 \in DOMAIN log'[q]
    BY <1>1, <1>7, <2>1
  <2>. QED
    BY <1>4, <1>6, <2>2 DEF Records
<1>. QED
  BY <1>8, <1>9, <1>10, <1>11

\* What is in the log stays in the log.
LEMMA LoggedForEver ==
  ASSUME OutboxInv, LogGrows, log' \in [Partitions -> Seq(Events)], NEW p \in Partitions
  PROVE  Records(p) \subseteq Records(p)'
<1>1. log \in [Partitions -> Seq(Events)]
  BY DEF OutboxInv, OutboxTypeOK
<1>2. /\ DOMAIN log[p] = 1..Len(log[p]) /\ DOMAIN log'[p] = 1..Len(log'[p])
      /\ Len(log[p]) \in Nat /\ Len(log'[p]) \in Nat
  BY <1>1
<1>. QED
  BY <1>2 DEF LogGrows, Records

LEMMA EnqueueInv ==
  ASSUME OutboxInv, NEW e \in Events, Enqueue(e), UNCHANGED <<published, claim, log>>
  PROVE  OutboxInv' /\ LogGrows
<1>1. Cardinality(Rows) \in Nat
  BY EventsAssumption, FS_Subset, FS_CardinalityType DEF Rows
<1>2. created' \in [Events -> Nat] /\ Rows \subseteq Rows'
  BY <1>1 DEF Enqueue, OutboxInv, OutboxTypeOK, Rows
<1>3. OutboxTypeOK'
  BY <1>2 DEF OutboxInv, OutboxTypeOK
<1>4. \A p : Records(p)' = Records(p)
  BY DEF Records
<1>5. \A p \in Partitions : Len(log[p]) \in Nat
  BY DEF OutboxInv, OutboxTypeOK
<1>. QED
  BY <1>2, <1>3, <1>4, <1>5 DEF OutboxInv, PublishedIsLogged, LogGrows

\* What a publisher that handles one row does to its claim.
LEMMA ClaimSteps ==
  ASSUME claim \in [Publishers -> Claims], NEW w \in Publishers, NEW e \in Events,
         Publish(w, e) \/ PublishFails(w, e)
  PROVE  /\ published' = published
         /\ claim' \in [Publishers -> Claims]
         /\ \A v \in Publishers : v # w => claim'[v] = claim[v]
         /\ claim'[w].rows = claim[w].rows
         /\ claim'[w].todo = claim[w].todo \ {e}
         /\ claim'[w].acked \subseteq claim[w].acked \cup {e}
         /\ PublishFails(w, e) => claim'[w].acked = claim[w].acked
<1> DEFINE r == claim[w]
<1>1. r \in Claims
  OBVIOUS
<1>2. CASE Publish(w, e) /\ ~PublishFails(w, e)
  <2>1. claim' = [claim EXCEPT ![w] = [r EXCEPT !.todo = r.todo \ {e}, !.acked = r.acked \cup {e}]]
    BY <1>2 DEF Publish
  <2> DEFINE s == [r EXCEPT !.todo = r.todo \ {e}, !.acked = r.acked \cup {e}]
  <2>2. /\ s \in Claims /\ s.rows = r.rows /\ s.todo = r.todo \ {e}
        /\ s.acked = r.acked \cup {e}
    BY <1>1 DEF Claims
  <2>3. claim' = [claim EXCEPT ![w] = s]
    BY <2>1
  <2> HIDE DEF s
  <2>. QED
    BY <1>2, <2>2, <2>3 DEF Publish
<1>3. CASE PublishFails(w, e)
  <2>1. claim' = [claim EXCEPT ![w] = [r EXCEPT !.todo = r.todo \ {e}]]
    BY <1>3 DEF PublishFails
  <2> DEFINE s == [r EXCEPT !.todo = r.todo \ {e}]
  <2>2. s \in Claims /\ s.rows = r.rows /\ s.todo = r.todo \ {e} /\ s.acked = r.acked
    BY <1>1 DEF Claims
  <2>3. claim' = [claim EXCEPT ![w] = s]
    BY <2>1
  <2> HIDE DEF s
  <2>. QED
    BY <1>3, <2>2, <2>3 DEF PublishFails
<1>. QED
  BY <1>2, <1>3

LEMMA EnqueueRows ==
  ASSUME OutboxInv, NEW e \in Events, Enqueue(e)
  PROVE  Rows' = Rows \cup {e} /\ e \notin Rows
<1>1. Cardinality(Rows) \in Nat
  BY EventsAssumption, FS_Subset, FS_CardinalityType DEF Rows
<1> DEFINE n == Cardinality(Rows) + 1
<1>2. n # 0 /\ created' = [created EXCEPT ![e] = n] /\ created[e] = 0
  BY <1>1 DEF Enqueue
<1>3. created \in [Events -> Nat]
  BY DEF OutboxInv, OutboxTypeOK
<1> HIDE DEF n
<1>. QED
  BY <1>2, <1>3 DEF Rows

LEMMA PublisherInv ==
  ASSUME OutboxInv, NEW w \in Publishers, PublisherWork(w) \/ PublisherFault(w)
  PROVE  OutboxInv' /\ LogGrows /\ UNCHANGED created
<1>0. claim[w] \in Claims /\ claim \in [Publishers -> Claims]
  BY DEF OutboxInv, OutboxTypeOK
<1>1. UNCHANGED created /\ Rows' = Rows
  BY DEF PublisherWork, PublisherFault, Claim, Publish, PublishFails, CommitBatch, PublisherDies, Rows
<1>2. \A p \in Partitions : Len(log[p]) \in Nat
  BY DEF OutboxInv, OutboxTypeOK
<1>3. CASE UNCHANGED log
  <2>1. \A p : Records(p)' = Records(p)
    BY <1>3 DEF Records
  <2>2. LogGrows
    BY <1>2, <1>3 DEF LogGrows
  <2>3. claim' \in [Publishers -> Claims] /\ published' \in SUBSET Events /\ published' \subseteq Rows
    <3>1. Oldest(Claimable) \subseteq Rows /\ Rows \subseteq Events
      BY DEF Oldest, Claimable, Rows
    <3>2. [rows |-> Oldest(Claimable), todo |-> Oldest(Claimable), acked |-> {}] \in Claims
      BY <3>1 DEF Claims
    <3>3. NoClaim \in Claims
      BY DEF NoClaim, Claims
    <3>5. claim \in [Publishers -> Claims] /\ published \in SUBSET Events /\ published \subseteq Rows
      BY DEF OutboxInv, OutboxTypeOK
    <3>6. claim[w].acked \subseteq Rows
      BY DEF OutboxInv
    <3>7. CASE Claim(w)
      BY <3>2, <3>5, <3>7 DEF Claim
    <3>8. CASE CommitBatch(w) \/ PublisherDies(w)
      BY <3>1, <3>3, <3>5, <3>6, <3>8 DEF CommitBatch, PublisherDies, Marked
    <3>9. CASE \E e \in Events : Publish(w, e) \/ PublishFails(w, e)
      <4>1. PICK e \in Events : Publish(w, e) \/ PublishFails(w, e)
        BY <3>9
      <4>. QED
        BY <3>5, <4>1, ClaimSteps
    <3>. QED
      BY <3>7, <3>8, <3>9 DEF PublisherWork, PublisherFault
  <2>4. ~\E e \in Events : Publish(w, e)
    <3> SUFFICES ASSUME NEW e \in Events, Publish(w, e) PROVE FALSE
      OBVIOUS
    <3>1. e \in Rows
      BY DEF Publish, NextRow, OutboxInv
    <3> DEFINE q == PartitionOf[e.key]
    <3>2. q \in Partitions /\ log[q] \in Seq(Events) /\ log \in [Partitions -> Seq(Events)]
      BY EventsAssumption, PartitionsAssumption DEF OutboxInv, OutboxTypeOK
    <3>3. log'[q] = Append(log[q], e)
      BY <3>2 DEF Publish, Append1
    <3>4. Len(Append(log[q], e)) = Len(log[q]) + 1 /\ Len(log[q]) \in Nat
      BY <3>2
    <3>. QED
      BY <1>3, <3>3, <3>4
  <2>5. \A v \in Publishers : /\ claim'[v].rows \subseteq Rows /\ claim'[v].todo \subseteq Rows
                              /\ claim'[v].acked \subseteq Rows
                              /\ claim'[v].acked \subseteq claim[v].acked
    <3> TAKE v \in Publishers
    <3>1. CASE v # w
      BY <3>1 DEF PublisherWork, PublisherFault, Claim, Publish, PublishFails, CommitBatch,
         PublisherDies, OutboxInv, OutboxTypeOK
    <3>2. CASE v = w
      <4>1. CASE Claim(w)
        BY <3>2, <4>1 DEF Claim, Oldest, Claimable, OutboxInv, OutboxTypeOK
      <4>3. CASE \E e \in Events : PublishFails(w, e)
        <5>1. PICK e \in Events : PublishFails(w, e)
          BY <4>3
        <5>2. /\ claim'[w].rows = claim[w].rows /\ claim'[w].todo = claim[w].todo \ {e}
              /\ claim'[w].acked = claim[w].acked
          BY <1>0, <5>1, ClaimSteps
        <5>. QED
          BY <3>2, <5>2 DEF OutboxInv
      <4>4. CASE CommitBatch(w) \/ PublisherDies(w)
        BY <3>2, <4>4 DEF CommitBatch, PublisherDies, NoClaim, OutboxInv, OutboxTypeOK
      <4>. QED
        BY <2>4, <4>1, <4>3, <4>4 DEF PublisherWork, PublisherFault
    <3>. QED
      BY <3>1, <3>2
  <2>6. PublishedIsLogged'
    <3>1. published' \subseteq published \cup claim[w].acked
      BY DEF PublisherWork, PublisherFault, Claim, Publish, PublishFails, CommitBatch,
         PublisherDies, Marked
    <3>. QED
      BY <2>1, <3>1 DEF OutboxInv, PublishedIsLogged
  <2>. QED
    BY <1>1, <1>3, <2>1, <2>2, <2>3, <2>5, <2>6 DEF OutboxInv, OutboxTypeOK
<1>4. ASSUME NEW e \in Events, Publish(w, e) \/ PublishFails(w, e), Append1(e)
      PROVE  OutboxInv' /\ LogGrows
  <2>1. e \in Rows
    BY <1>4 DEF Publish, PublishFails, NextRow, OutboxInv
  <2>2. /\ log' \in [Partitions -> Seq(Events)]
        /\ LogGrows
        /\ \A p \in Partitions : \A i \in 1..Len(log'[p]) :
             log'[p][i] \in Rows' /\ PartitionOf[log'[p][i].key] = p
        /\ e \in Records(PartitionOf[e.key])'
    BY <1>1, <1>4, <2>1, AppendGrows
  <2>3. \A f \in Rows : f \in Records(PartitionOf[f.key]) => f \in Records(PartitionOf[f.key])'
    BY <2>2, LoggedForEver, EventsAssumption, PartitionsAssumption DEF Rows
  <2>4. /\ claim' \in [Publishers -> Claims] /\ published' = published
        /\ \A v \in Publishers : v # w => claim'[v] = claim[v]
        /\ claim'[w].rows = claim[w].rows
        /\ claim'[w].todo = claim[w].todo \ {e}
        /\ claim'[w].acked \subseteq claim[w].acked \cup {e}
    BY <1>0, <1>4, ClaimSteps
  <2>5. /\ claim'[w].rows \subseteq Rows /\ claim'[w].todo \subseteq Rows
        /\ claim'[w].acked \subseteq Rows
    BY <2>1, <2>4 DEF OutboxInv
  <2>8. OutboxTypeOK'
    BY <1>1, <2>2, <2>4 DEF OutboxInv, OutboxTypeOK
  <2>9. \A v \in Publishers : /\ claim'[v].rows \subseteq Rows' /\ claim'[v].todo \subseteq Rows'
                              /\ claim'[v].acked \subseteq Rows'
                              /\ \A f \in claim'[v].acked : f \in Records(PartitionOf[f.key])'
    BY <1>1, <2>2, <2>3, <2>4, <2>5 DEF OutboxInv
  <2>. QED
    BY <1>1, <2>2, <2>3, <2>4, <2>8, <2>9 DEF OutboxInv, PublishedIsLogged
<1>. QED
  BY <1>1, <1>3, <1>4 DEF PublisherWork, PublisherFault, Claim, Publish, PublishFails, CommitBatch, PublisherDies

-----------------------------------------------------------------------------
(* The consumer group.                                                       *)

\* Every record below offset n of p is counted, or can never be.
Applied(p, n) == \A i \in 1..(n - 1) : log[p][i] \in inbox \cup Incompatible

GroupTypes ==
  /\ owner \in [Partitions -> Consumers]
  /\ hand \in [Consumers -> Hands]
  /\ inbox \subseteq Rows
  /\ activity \in [Keys -> [count : Nat, last : Events \cup {None}]]
  /\ position \in [Partitions -> Nat] /\ committed \in [Partitions -> Nat]
  /\ \A p \in Partitions : /\ committed[p] \in 1..(Len(log[p]) + 1)
                           /\ position[p] \in committed[p]..(Len(log[p]) + 1)

\* A record in a worker's hand has only applied records before it; while its
\* partition stays with the worker the position is just past it; and a count read
\* for an event without a receipt is still the stored one.
HandSound(c) ==
  hand[c].stage # "idle" =>
    /\ hand[c].event \in Events
    /\ hand[c].offset \in 1..Len(log[PartitionIn(c)])
    /\ log[PartitionIn(c)][hand[c].offset] = hand[c].event
    /\ Applied(PartitionIn(c), hand[c].offset)
    /\ owner[PartitionIn(c)] = c => position[PartitionIn(c)] = hand[c].offset + 1
    /\ hand[c].stage = "read" => hand[c].event \notin Incompatible
    /\ hand[c].stage = "handled" => hand[c].event \in inbox
    /\ hand[c].stage = "read" /\ hand[c].event \notin inbox =>
         hand[c].count = activity[hand[c].event.key].count

\* The committed offset, and the position of an owner whose hand is elsewhere,
\* are past applied records only.
PartitionSound(p) ==
  /\ Applied(p, committed[p])
  /\ \/ hand[owner[p]].stage # "idle" /\ PartitionIn(owner[p]) = p
     \/ Applied(p, position[p])

PipeInv ==
  /\ OutboxInv
  /\ GroupTypes
  /\ \A c \in Consumers : HandSound(c)
  /\ \A p \in Partitions : PartitionSound(p)
  /\ CountIsReceipts

LEMMA InitPipeInv == Init => PipeInv
<1> SUFFICES ASSUME Init PROVE PipeInv
  OBVIOUS
<1>1. OutboxInv
  BY OutboxInitInv DEF Init
<1>2. \A p \in Partitions : Len(log[p]) = 0
  BY DEF Init, OutboxInit
<1>3. GroupTypes
  BY <1>2 DEF Init, GroupTypes, NoRecord, Hands
<1>4. \A c \in Consumers : HandSound(c)
  BY DEF Init, HandSound, NoRecord
<1>5. \A p \in Partitions : PartitionSound(p)
  BY DEF Init, PartitionSound, Applied
<1>6. CountIsReceipts
  <2>1. \A k \in Keys : {e \in inbox : e.key = k} = {}
    BY DEF Init
  <2>. QED
    BY <2>1, FS_EmptySet DEF Init, CountIsReceipts
<1>. QED
  BY <1>1, <1>3, <1>4, <1>5, <1>6 DEF PipeInv

\* Where the pieces of the state are, for the steps below.
LEMMA HandTypes ==
  ASSUME PipeInv, NEW c \in Consumers
  PROVE  /\ hand[c] \in Hands
         /\ hand[c].stage # "idle" => /\ hand[c].event \in Events
                                      /\ PartitionIn(c) \in Partitions
                                      /\ hand[c].event.key \in Keys
  BY EventsAssumption, PartitionsAssumption DEF PipeInv, GroupTypes, HandSound, PartitionIn, Hands

\* New rows and new records disturb nothing that the group relies on.
LEMMA GrowInv ==
  ASSUME PipeInv, OutboxInv', LogGrows, Rows \subseteq Rows', UNCHANGED consumerVars
  PROVE  PipeInv'
<1>1. \A p \in Partitions : Len(log[p]) \in Nat /\ Len(log'[p]) \in Nat
  BY DEF PipeInv, OutboxInv, OutboxTypeOK
<1>2. /\ owner' = owner /\ position' = position /\ committed' = committed
      /\ hand' = hand /\ inbox' = inbox /\ activity' = activity
  BY DEF consumerVars, groupVars, dbVars
<1>3. GroupTypes'
  <2>1. /\ owner \in [Partitions -> Consumers] /\ hand \in [Consumers -> Hands]
        /\ inbox \subseteq Rows'
        /\ activity \in [Keys -> [count : Nat, last : Events \cup {None}]]
        /\ position \in [Partitions -> Nat] /\ committed \in [Partitions -> Nat]
    BY DEF PipeInv, GroupTypes
  <2>2. ASSUME NEW p \in Partitions
        PROVE  /\ committed[p] \in 1..(Len(log'[p]) + 1)
               /\ position[p] \in committed[p]..(Len(log'[p]) + 1)
    <3>1. /\ committed[p] \in 1..(Len(log[p]) + 1)
          /\ position[p] \in committed[p]..(Len(log[p]) + 1)
      BY DEF PipeInv, GroupTypes
    <3>2. Len(log[p]) <= Len(log'[p])
      BY DEF LogGrows
    <3>. QED
      BY <1>1, <3>1, <3>2
  <2>. QED
    BY <1>2, <2>1, <2>2 DEF GroupTypes
<1>4. ASSUME NEW p \in Partitions, NEW n \in 0..(Len(log[p]) + 1), Applied(p, n)
      PROVE  Applied(p, n)'
  <2>1. \A i \in 1..(n - 1) : i \in 1..Len(log[p])
    BY <1>1, <1>4
  <2>. QED
    BY <1>2, <1>4, <2>1 DEF Applied, LogGrows
<1>5. ASSUME NEW c \in Consumers PROVE HandSound(c)'
  <2>1. CASE hand[c].stage = "idle"
    BY <1>2, <2>1 DEF HandSound
  <2>2. CASE hand[c].stage # "idle"
    <3>1. PartitionIn(c) \in Partitions /\ PartitionIn(c)' = PartitionIn(c)
      BY <1>2, <2>2, HandTypes DEF PartitionIn
    <3>2. hand[c].offset \in 1..Len(log[PartitionIn(c)])
      BY <2>2 DEF PipeInv, HandSound
    <3>3. Applied(PartitionIn(c), hand[c].offset)'
      <4>1. Applied(PartitionIn(c), hand[c].offset)
        BY <2>2 DEF PipeInv, HandSound
      <4>. QED
        BY <1>1, <1>2, <3>1, <3>2, <4>1, <1>4 DEF Applied
    <3>4. /\ hand[c].offset \in 1..Len(log'[PartitionIn(c)])
          /\ log'[PartitionIn(c)][hand[c].offset] = log[PartitionIn(c)][hand[c].offset]
      BY <1>1, <3>1, <3>2 DEF LogGrows
    <3>. QED
      BY <1>2, <2>2, <3>1, <3>3, <3>4 DEF PipeInv, HandSound
  <2>. QED
    BY <2>1, <2>2
<1>6. ASSUME NEW p \in Partitions PROVE PartitionSound(p)'
  <2>1. committed[p] \in 0..(Len(log[p]) + 1) /\ position[p] \in 0..(Len(log[p]) + 1)
    BY <1>1 DEF PipeInv, GroupTypes
  <2>2. Applied(p, committed[p]) => Applied(p, committed[p])'
    BY <1>2, <1>4, <2>1 DEF Applied
  <2>3. Applied(p, position[p]) => Applied(p, position[p])'
    BY <1>2, <1>4, <2>1 DEF Applied
  <2>. QED
    BY <1>2, <2>2, <2>3 DEF PipeInv, PartitionSound, PartitionIn
<1>7. CountIsReceipts'
  BY <1>2 DEF PipeInv, CountIsReceipts
<1>. QED
  BY <1>3, <1>5, <1>6, <1>7 DEF PipeInv

LEMMA OutboxSame ==
  ASSUME OutboxInv, UNCHANGED outboxVars
  PROVE  OutboxInv'
BY DEF outboxVars, OutboxInv, OutboxTypeOK, Rows, Records, PublishedIsLogged

\* A hand that does not move stays sound while what it refers to does not move.
LEMMA HandSame ==
  ASSUME NEW d \in Consumers, HandSound(d), hand'[d] = hand[d],
         UNCHANGED <<log, owner, position, inbox, activity>>
  PROVE  HandSound(d)'
BY DEF HandSound, PartitionIn, Applied

LEMMA SkipIncompatibleInv ==
  ASSUME PipeInv, NEW c \in Consumers, SkipIncompatible(c)
  PROVE  PipeInv'
<1> USE DEF SkipIncompatible
<1>1. /\ UNCHANGED <<log, owner, position, committed, inbox, activity>>
      /\ hand \in [Consumers -> Hands] /\ NoRecord \in Hands /\ Rows' = Rows
  BY DEF PipeInv, GroupTypes, outboxVars, groupVars, dbVars, NoRecord, Hands, Rows
<1>2. OutboxInv'
  BY OutboxSame DEF PipeInv
<1>3. hand'[c] = NoRecord /\ \A d \in Consumers : d # c => hand'[d] = hand[d]
  BY <1>1
<1>4. GroupTypes'
  BY <1>1 DEF PipeInv, GroupTypes
<1>5. ASSUME NEW d \in Consumers PROVE HandSound(d)'
  BY <1>1, <1>3, HandSame DEF PipeInv, HandSound, NoRecord
<1>6. ASSUME NEW p \in Partitions PROVE PartitionSound(p)'
  <2>1. owner[p] \in Consumers
    BY DEF PipeInv, GroupTypes
  <2>2. CASE owner[p] = c /\ PartitionIn(c) = p
    <3>1. /\ Applied(p, hand[c].offset) /\ position[p] = hand[c].offset + 1
          /\ log[p][hand[c].offset] \in Incompatible /\ hand[c].offset \in Nat
      BY <2>2, HandTypes DEF PipeInv, HandSound, Hands
    <3>2. Applied(p, position[p])
      BY <3>1 DEF Applied
    <3>. QED
      BY <1>1, <3>2 DEF PipeInv, PartitionSound, Applied
  <2>3. CASE ~(owner[p] = c /\ PartitionIn(c) = p)
    BY <1>1, <1>3, <2>1, <2>3 DEF PipeInv, PartitionSound, Applied, PartitionIn
  <2>. QED
    BY <2>2, <2>3
<1>7. CountIsReceipts'
  BY <1>1 DEF PipeInv, CountIsReceipts
<1>. QED
  BY <1>2, <1>4, <1>5, <1>6, <1>7 DEF PipeInv

\* A worker that goes on with the record in its hand, and writes nothing.
LEMMA StageInv ==
  ASSUME PipeInv, NEW c \in Consumers, FindDuplicate(c) \/ ReadActivity(c)
  PROVE  PipeInv'
<1>1. /\ UNCHANGED <<log, owner, position, committed, inbox, activity>>
      /\ hand \in [Consumers -> Hands] /\ Rows' = Rows
      /\ hand[c].stage = "polled"
  BY DEF PipeInv, GroupTypes, FindDuplicate, ReadActivity, outboxVars, groupVars, dbVars, Rows
<1>2. OutboxInv'
  BY OutboxSame DEF PipeInv, FindDuplicate, ReadActivity
<1>3. \A d \in Consumers : d # c => hand'[d] = hand[d]
  BY <1>1 DEF FindDuplicate, ReadActivity
<1>4. /\ hand[c] \in Hands /\ hand[c].event \in Events /\ hand[c].event.key \in Keys
      /\ activity[hand[c].event.key].count \in Nat
  BY <1>1, HandTypes DEF PipeInv, GroupTypes
<1>5. /\ hand' \in [Consumers -> Hands]
      /\ hand'[c].offset = hand[c].offset /\ hand'[c].event = hand[c].event
      /\ \/ hand'[c].stage = "handled" /\ hand[c].event \in inbox
         \/ /\ hand'[c].stage = "read" /\ hand[c].event \notin inbox \cup Incompatible
            /\ hand'[c].count = activity[hand[c].event.key].count
  <2>1. CASE FindDuplicate(c)
    <3> DEFINE s == [hand[c] EXCEPT !.stage = "handled"]
    <3>1. s \in Hands /\ s.offset = hand[c].offset /\ s.event = hand[c].event /\ s.stage = "handled"
      BY <1>4 DEF Hands
    <3>2. hand' = [hand EXCEPT ![c] = s]
      BY <2>1 DEF FindDuplicate
    <3> HIDE DEF s
    <3>. QED
      BY <1>1, <2>1, <3>1, <3>2 DEF FindDuplicate
  <2>2. CASE ReadActivity(c)
    <3> DEFINE s == [hand[c] EXCEPT !.stage = "read", !.count = activity[hand[c].event.key].count]
    <3>1. /\ s \in Hands /\ s.offset = hand[c].offset /\ s.event = hand[c].event /\ s.stage = "read"
          /\ s.count = activity[hand[c].event.key].count
      BY <1>4 DEF Hands
    <3>2. hand' = [hand EXCEPT ![c] = s]
      BY <2>2 DEF ReadActivity
    <3> HIDE DEF s
    <3>. QED
      BY <1>1, <2>2, <3>1, <3>2 DEF ReadActivity
  <2>. QED
    BY <2>1, <2>2
<1>6. GroupTypes'
  BY <1>1, <1>5 DEF PipeInv, GroupTypes
<1>7. ASSUME NEW d \in Consumers PROVE HandSound(d)'
  <2>1. CASE d = c
    BY <1>1, <1>5, <2>1 DEF PipeInv, HandSound, PartitionIn, Applied
  <2>2. CASE d # c
    BY <1>1, <1>3, <2>2, HandSame DEF PipeInv
  <2>. QED
    BY <2>1, <2>2
<1>8. ASSUME NEW p \in Partitions PROVE PartitionSound(p)'
  <2>1. owner[p] \in Consumers
    BY DEF PipeInv, GroupTypes
  <2>2. hand[owner[p]].stage # "idle" /\ PartitionIn(owner[p]) = p =>
          hand'[owner[p]].stage # "idle" /\ PartitionIn(owner[p])' = p
    BY <1>1, <1>3, <1>5, <2>1 DEF PartitionIn
  <2>. QED
    BY <1>1, <2>2 DEF PipeInv, PartitionSound, Applied
<1>9. CountIsReceipts'
  BY <1>1 DEF PipeInv, CountIsReceipts
<1>. QED
  BY <1>2, <1>6, <1>7, <1>8, <1>9 DEF PipeInv

\* A restarted worker resumes at the committed offsets with empty hands.
LEMMA RestartInv ==
  ASSUME PipeInv, NEW c \in Consumers, Restart(c)
  PROVE  PipeInv'
<1>1. /\ UNCHANGED <<log, owner, committed, inbox, activity>>
      /\ hand \in [Consumers -> Hands] /\ NoRecord \in Hands /\ Rows' = Rows
  BY DEF PipeInv, GroupTypes, Restart, outboxVars, groupVars, dbVars, NoRecord, Hands, Rows
<1>2. OutboxInv'
  BY OutboxSame DEF PipeInv, Restart
<1>3. hand'[c] = NoRecord /\ \A d \in Consumers : d # c => hand'[d] = hand[d]
  BY <1>1 DEF Restart
<1>4. \A p \in Partitions : position'[p] = IF owner[p] = c THEN committed[p] ELSE position[p]
  BY DEF Restart
<1>5. GroupTypes'
  <2>1. position' \in [Partitions -> Nat]
    BY DEF PipeInv, GroupTypes, Restart
  <2>2. \A p \in Partitions : Len(log[p]) \in Nat
    BY DEF PipeInv, OutboxInv, OutboxTypeOK
  <2>3. \A p \in Partitions : position'[p] \in committed[p]..(Len(log[p]) + 1)
    BY <1>4, <2>2 DEF PipeInv, GroupTypes
  <2>. QED
    BY <1>1, <1>3, <2>1, <2>3 DEF PipeInv, GroupTypes, Restart
<1>6. ASSUME NEW d \in Consumers PROVE HandSound(d)'
  <2>1. CASE d = c
    BY <1>3, <2>1 DEF HandSound, NoRecord
  <2>2. CASE d # c /\ hand[d].stage # "idle"
    <3>1. PartitionIn(d) \in Partitions
      BY <2>2, HandTypes
    <3>. QED
      BY <1>1, <1>3, <1>4, <2>2, <3>1 DEF PipeInv, HandSound, PartitionIn, Applied
  <2>3. CASE d # c /\ hand[d].stage = "idle"
    BY <1>3, <2>3 DEF HandSound
  <2>. QED
    BY <2>1, <2>2, <2>3
<1>7. ASSUME NEW p \in Partitions PROVE PartitionSound(p)'
  <2>1. owner[p] \in Consumers
    BY DEF PipeInv, GroupTypes
  <2>2. Applied(p, committed[p])
    BY DEF PipeInv, PartitionSound
  <2>3. CASE owner[p] = c
    BY <1>1, <1>4, <2>2, <2>3 DEF PartitionSound, Applied
  <2>4. CASE owner[p] # c
    BY <1>1, <1>3, <1>4, <2>1, <2>4 DEF PipeInv, PartitionSound, PartitionIn, Applied
  <2>. QED
    BY <2>3, <2>4
<1>8. CountIsReceipts'
  BY <1>1 DEF PipeInv, CountIsReceipts
<1>. QED
  BY <1>2, <1>5, <1>6, <1>7, <1>8 DEF PipeInv

\* Two hands that both hold an event without a receipt, of one portfolio, hold the
\* same record: the records before either one are applied.
LEMMA OneUncounted ==
  ASSUME PipeInv, NEW c \in Consumers, NEW d \in Consumers,
         hand[c].stage = "read", hand[d].stage = "read",
         hand[c].event \notin inbox, hand[d].event \notin inbox,
         hand[c].event.key = hand[d].event.key
  PROVE  hand[c].event = hand[d].event
<1> DEFINE q == PartitionOf[hand[c].event.key]
<1>1. PartitionIn(c) = q /\ PartitionIn(d) = q
  BY DEF PartitionIn
<1>2. /\ log[q][hand[c].offset] = hand[c].event /\ log[q][hand[d].offset] = hand[d].event
      /\ Applied(q, hand[c].offset) /\ Applied(q, hand[d].offset)
      /\ hand[c].event \notin Incompatible /\ hand[d].event \notin Incompatible
      /\ hand[c].offset \in 1..Len(log[q]) /\ hand[d].offset \in 1..Len(log[q])
  BY <1>1 DEF PipeInv, HandSound
<1>3. hand[c].offset \in Nat /\ hand[d].offset \in Nat
  BY HandTypes DEF Hands
<1>4. ~(hand[c].offset < hand[d].offset)
  BY <1>2, <1>3 DEF Applied
<1>5. ~(hand[d].offset < hand[c].offset)
  BY <1>2, <1>3 DEF Applied
<1>. QED
  BY <1>2, <1>3, <1>4, <1>5

LEMMA ApplyTradeInv ==
  ASSUME PipeInv, NEW c \in Consumers, ApplyTrade(c)
  PROVE  PipeInv'
<1> DEFINE e == hand[c].event
<1>1. /\ UNCHANGED <<log, owner, position, committed>>
      /\ hand \in [Consumers -> Hands] /\ Rows' = Rows
      /\ activity \in [Keys -> [count : Nat, last : Events \cup {None}]]
      /\ hand[c].stage = "read" /\ e \notin inbox /\ inbox' = inbox \cup {e}
  BY DEF PipeInv, GroupTypes, ApplyTrade, ReceiptIsNew, outboxVars, groupVars, Rows
<1>2. OutboxInv'
  BY OutboxSame DEF PipeInv, ApplyTrade
<1>3. \A d \in Consumers : d # c => hand'[d] = hand[d]
  BY <1>1 DEF ApplyTrade
<1>4. /\ hand[c] \in Hands /\ e \in Events /\ e.key \in Keys /\ PartitionIn(c) \in Partitions
      /\ hand[c].count \in Nat
  BY <1>1, HandTypes DEF Hands
<1>5. e \in Rows
  BY <1>1, <1>4 DEF PipeInv, HandSound, OutboxInv
<1>6. /\ hand' \in [Consumers -> Hands] /\ hand'[c].stage = "handled"
      /\ hand'[c].offset = hand[c].offset /\ hand'[c].event = hand[c].event
  <2> DEFINE s == [hand[c] EXCEPT !.stage = "handled"]
  <2>1. s \in Hands /\ s.offset = hand[c].offset /\ s.event = hand[c].event /\ s.stage = "handled"
    BY <1>4 DEF Hands
  <2>2. hand' = [hand EXCEPT ![c] = s]
    BY DEF ApplyTrade
  <2> HIDE DEF s
  <2>. QED
    BY <1>1, <2>1, <2>2
<1>7. /\ activity' \in [Keys -> [count : Nat, last : Events \cup {None}]]
      /\ activity'[e.key].count = activity[e.key].count + 1
      /\ \A k \in Keys : k # e.key => activity'[k] = activity[k]
  <2>1. hand[c].count = activity[e.key].count
    BY <1>1 DEF PipeInv, HandSound
  <2>2. activity' = [activity EXCEPT ![e.key] = [count |-> hand[c].count + 1, last |-> e]]
    BY DEF ApplyTrade
  <2>. QED
    BY <1>1, <1>4, <2>1, <2>2
<1>8. GroupTypes'
  BY <1>1, <1>5, <1>6, <1>7 DEF PipeInv, GroupTypes
<1>9. ASSUME NEW p \in Partitions, NEW n \in Nat, Applied(p, n) PROVE Applied(p, n)'
  BY <1>1, <1>9 DEF Applied
<1>10. ASSUME NEW d \in Consumers PROVE HandSound(d)'
  <2>1. CASE d = c
    <3>1. Applied(PartitionIn(c), hand[c].offset)
      BY <1>1 DEF PipeInv, HandSound
    <3>. QED
      BY <1>1, <1>6, <2>1, <3>1 DEF PipeInv, HandSound, PartitionIn, Applied
  <2>2. CASE d # c /\ hand[d].stage # "idle"
    <3>1. hand'[d] = hand[d] /\ PartitionIn(d)' = PartitionIn(d)
      BY <1>3, <2>2 DEF PartitionIn
    <3>2. hand[d].event.key \in Keys
      BY <2>2, HandTypes
    <3>3. hand[d].stage = "read" /\ hand[d].event \notin inbox' =>
            hand[d].count = activity'[hand[d].event.key].count
      <4> SUFFICES ASSUME hand[d].stage = "read", hand[d].event \notin inbox'
                   PROVE  hand[d].count = activity'[hand[d].event.key].count
        OBVIOUS
      <4>1. hand[d].event.key # e.key
        BY <1>1, OneUncounted
      <4>2. hand[d].count = activity[hand[d].event.key].count
        BY <1>1, <2>2 DEF PipeInv, HandSound
      <4>. QED
        BY <1>7, <3>2, <4>1, <4>2
    <3>4. Applied(PartitionIn(d), hand[d].offset)'
      BY <1>1, <2>2, <3>1 DEF PipeInv, HandSound, Applied
    <3>. QED
      BY <1>1, <2>2, <3>1, <3>3, <3>4 DEF PipeInv, HandSound
  <2>3. CASE d # c /\ hand[d].stage = "idle"
    BY <1>3, <2>3 DEF HandSound
  <2>. QED
    BY <2>1, <2>2, <2>3
<1>11. ASSUME NEW p \in Partitions PROVE PartitionSound(p)'
  <2>1. owner[p] \in Consumers
    BY DEF PipeInv, GroupTypes
  <2>2. hand[owner[p]].stage # "idle" /\ PartitionIn(owner[p]) = p =>
          hand'[owner[p]].stage # "idle" /\ PartitionIn(owner[p])' = p
    BY <1>1, <1>3, <1>6, <2>1 DEF PartitionIn
  <2>. QED
    BY <1>1, <2>2 DEF PipeInv, PartitionSound, Applied
<1>12. CountIsReceipts'
  <2>1. IsFiniteSet(inbox)
    BY EventsAssumption, FS_Subset DEF PipeInv, GroupTypes, Rows
  <2> SUFFICES ASSUME NEW k \in Keys
               PROVE  activity'[k].count = Cardinality({f \in inbox' : f.key = k})
    BY DEF CountIsReceipts
  <2>2. CASE k # e.key
    <3>1. {f \in inbox' : f.key = k} = {f \in inbox : f.key = k}
      BY <1>1, <2>2
    <3>. QED
      BY <1>7, <2>2, <3>1 DEF PipeInv, CountIsReceipts
  <2>3. CASE k = e.key
    <3> DEFINE S == {f \in inbox : f.key = k}
    <3>1. {f \in inbox' : f.key = k} = S \cup {e} /\ e \notin S
      BY <1>1, <2>3
    <3>2. IsFiniteSet(S)
      BY <2>1, FS_Subset
    <3>3. Cardinality(S \cup {e}) = Cardinality(S) + 1
      BY <3>1, <3>2, FS_AddElement
    <3>. QED
      BY <1>7, <2>3, <3>1, <3>3 DEF PipeInv, CountIsReceipts
  <2>. QED
    BY <2>2, <2>3
<1>. QED
  BY <1>2, <1>8, <1>10, <1>11, <1>12 DEF PipeInv

LEMMA CommitOffsetInv ==
  ASSUME PipeInv, NEW c \in Consumers, CommitOffset(c)
  PROVE  PipeInv'
<1> DEFINE q == PartitionIn(c)
<1>1. /\ UNCHANGED <<log, owner, position, inbox, activity>>
      /\ hand \in [Consumers -> Hands] /\ NoRecord \in Hands /\ Rows' = Rows
      /\ hand[c].stage = "handled" /\ owner[q] = c
  BY DEF PipeInv, GroupTypes, CommitOffset, DatabaseDone, outboxVars, dbVars, NoRecord, Hands, Rows
<1>2. OutboxInv'
  BY OutboxSame DEF PipeInv, CommitOffset
<1>3. hand'[c] = NoRecord /\ \A d \in Consumers : d # c => hand'[d] = hand[d]
  BY <1>1 DEF CommitOffset
<1>4. /\ q \in Partitions /\ hand[c].offset \in 1..Len(log[q]) /\ Len(log[q]) \in Nat
      /\ position[q] = hand[c].offset + 1
      /\ Applied(q, hand[c].offset) /\ log[q][hand[c].offset] \in inbox
  BY <1>1, HandTypes DEF PipeInv, HandSound, OutboxInv, OutboxTypeOK
<1>5. Applied(q, position[q])
  BY <1>4 DEF Applied
<1>6. /\ committed' \in [Partitions -> Nat] /\ committed'[q] = position[q]
      /\ \A p \in Partitions : p # q => committed'[p] = committed[p]
  <2>1. committed \in [Partitions -> Nat] /\ position[q] \in Nat
    BY <1>4 DEF PipeInv, GroupTypes
  <2>2. committed' = [committed EXCEPT ![q] = position[q]]
    BY <1>4 DEF CommitOffset, NextOffset
  <2>. QED
    BY <1>4, <2>1, <2>2
<1>7. GroupTypes'
  <2>1. hand' \in [Consumers -> Hands]
    BY <1>1 DEF CommitOffset
  <2>2. \A p \in Partitions : /\ committed'[p] \in 1..(Len(log[p]) + 1)
                              /\ position[p] \in committed'[p]..(Len(log[p]) + 1)
    <3> TAKE p \in Partitions
    <3>1. CASE p = q
      BY <1>4, <1>6, <3>1
    <3>2. CASE p # q
      BY <1>6, <3>2 DEF PipeInv, GroupTypes
    <3>. QED
      BY <3>1, <3>2
  <2>. QED
    BY <1>1, <1>6, <2>1, <2>2 DEF PipeInv, GroupTypes
<1>8. ASSUME NEW d \in Consumers PROVE HandSound(d)'
  BY <1>1, <1>3, HandSame DEF PipeInv, HandSound, NoRecord
<1>9. ASSUME NEW p \in Partitions PROVE PartitionSound(p)'
  <2>1. owner[p] \in Consumers
    BY DEF PipeInv, GroupTypes
  <2>2. CASE p = q
    BY <1>1, <1>5, <1>6, <2>2 DEF PartitionSound, Applied
  <2>3. CASE p # q
    BY <1>1, <1>3, <1>6, <2>1, <2>3 DEF PipeInv, PartitionSound, Applied, PartitionIn
  <2>. QED
    BY <2>2, <2>3
<1>10. CountIsReceipts'
  BY <1>1 DEF PipeInv, CountIsReceipts
<1>. QED
  BY <1>2, <1>7, <1>8, <1>9, <1>10 DEF PipeInv

LEMMA PollInv ==
  ASSUME PipeInv, NEW c \in Consumers, NEW q \in Partitions, Poll(c, q)
  PROVE  PipeInv'
<1> DEFINE n == position[q]
           s == [stage |-> "polled", offset |-> n, event |-> log[q][n], count |-> 0]
<1>1. /\ UNCHANGED <<log, owner, committed, inbox, activity>>
      /\ hand \in [Consumers -> Hands] /\ Rows' = Rows
      /\ position \in [Partitions -> Nat]
      /\ hand[c].stage = "idle" /\ owner[q] = c
  BY DEF PipeInv, GroupTypes, Poll, outboxVars, dbVars, Rows
<1>2. OutboxInv'
  BY OutboxSame DEF PipeInv, Poll
<1>3. /\ Len(log[q]) \in Nat /\ n \in 1..Len(log[q])
      /\ log[q][n] \in Events /\ PartitionOf[log[q][n].key] = q
  BY DEF PipeInv, OutboxInv, OutboxTypeOK, Poll, Rows
<1>4. s \in Hands
  BY <1>3 DEF Hands
<1>5. hand' = [hand EXCEPT ![c] = s] /\ position' = [position EXCEPT ![q] = n + 1]
  BY DEF Poll
<1> HIDE DEF s
<1>6. /\ hand' \in [Consumers -> Hands] /\ hand'[c] = s
      /\ \A d \in Consumers : d # c => hand'[d] = hand[d]
  BY <1>1, <1>4, <1>5
<1>7. /\ position' \in [Partitions -> Nat] /\ position'[q] = n + 1
      /\ \A p \in Partitions : p # q => position'[p] = position[p]
  BY <1>1, <1>3, <1>5
<1>8. /\ s.stage = "polled" /\ s.offset = n /\ s.event = log[q][n] /\ PartitionIn(c)' = q
  BY <1>3, <1>6 DEF s, PartitionIn
<1>9. GroupTypes'
  <2>1. \A p \in Partitions : position'[p] \in committed[p]..(Len(log[p]) + 1)
    <3> TAKE p \in Partitions
    <3>1. CASE p = q
      BY <1>3, <1>7, <3>1 DEF PipeInv, GroupTypes
    <3>2. CASE p # q
      BY <1>7, <3>2 DEF PipeInv, GroupTypes
    <3>. QED
      BY <3>1, <3>2
  <2>. QED
    BY <1>1, <1>6, <1>7, <2>1 DEF PipeInv, GroupTypes
<1>10. Applied(q, n)
  BY <1>1 DEF PipeInv, PartitionSound
<1>11. ASSUME NEW d \in Consumers PROVE HandSound(d)'
  <2>1. CASE d = c
    BY <1>1, <1>3, <1>6, <1>7, <1>8, <1>10, <2>1 DEF HandSound, Applied
  <2>2. CASE d # c /\ hand[d].stage # "idle"
    <3>1. PartitionIn(d) \in Partitions
      BY <2>2, HandTypes
    <3>2. PartitionIn(d) = q => owner[q] # d
      BY <1>1, <2>2
    <3>3. hand'[d] = hand[d] /\ PartitionIn(d)' = PartitionIn(d)
      BY <1>6, <2>2 DEF PartitionIn
    <3>4. owner[PartitionIn(d)] = d => position'[PartitionIn(d)] = position[PartitionIn(d)]
      BY <1>7, <3>1, <3>2
    <3>5. Applied(PartitionIn(d), hand[d].offset)'
      BY <1>1, <2>2, <3>3 DEF PipeInv, HandSound, Applied
    <3>. QED
      BY <1>1, <2>2, <3>3, <3>4, <3>5 DEF PipeInv, HandSound
  <2>3. CASE d # c /\ hand[d].stage = "idle"
    BY <1>6, <2>3 DEF HandSound
  <2>. QED
    BY <2>1, <2>2, <2>3
<1>12. ASSUME NEW p \in Partitions PROVE PartitionSound(p)'
  <2>1. owner[p] \in Consumers
    BY DEF PipeInv, GroupTypes
  <2>2. CASE p = q
    BY <1>1, <1>6, <1>8, <2>2 DEF PipeInv, PartitionSound, Applied
  <2>3. CASE p # q
    BY <1>1, <1>6, <1>7, <2>1, <2>3 DEF PipeInv, PartitionSound, Applied, PartitionIn
  <2>. QED
    BY <2>2, <2>3
<1>13. CountIsReceipts'
  BY <1>1 DEF PipeInv, CountIsReceipts
<1>. QED
  BY <1>2, <1>9, <1>11, <1>12, <1>13 DEF PipeInv

LEMMA RebalanceInv ==
  ASSUME PipeInv, NEW q \in Partitions, NEW c \in Consumers, Rebalance(q, c)
  PROVE  PipeInv'
<1>1. /\ UNCHANGED <<log, committed, hand, inbox, activity>> /\ Rows' = Rows
      /\ hand[c].stage = "idle"
  BY DEF Rebalance, outboxVars, dbVars, Rows
<1>2. OutboxInv'
  BY OutboxSame DEF PipeInv, Rebalance
<1>3. /\ owner' \in [Partitions -> Consumers] /\ owner'[q] = c
      /\ position' \in [Partitions -> Nat] /\ position'[q] = committed[q]
      /\ \A p \in Partitions : p # q => owner'[p] = owner[p] /\ position'[p] = position[p]
  BY DEF PipeInv, GroupTypes, Rebalance
<1>4. \A p \in Partitions : Len(log[p]) \in Nat
  BY DEF PipeInv, OutboxInv, OutboxTypeOK
<1>5. GroupTypes'
  <2>1. \A p \in Partitions : position'[p] \in committed[p]..(Len(log[p]) + 1)
    <3> TAKE p \in Partitions
    <3>1. CASE p = q
      BY <1>3, <1>4, <3>1 DEF PipeInv, GroupTypes
    <3>2. CASE p # q
      BY <1>3, <3>2 DEF PipeInv, GroupTypes
    <3>. QED
      BY <3>1, <3>2
  <2>. QED
    BY <1>1, <1>3, <2>1 DEF PipeInv, GroupTypes
<1>6. ASSUME NEW d \in Consumers PROVE HandSound(d)'
  <2>1. CASE hand[d].stage = "idle"
    BY <1>1, <2>1 DEF HandSound
  <2>2. CASE hand[d].stage # "idle"
    <3>1. PartitionIn(d) \in Partitions /\ PartitionIn(d)' = PartitionIn(d)
      BY <1>1, <2>2, HandTypes DEF PartitionIn
    <3>2. owner'[PartitionIn(d)] = d =>
            owner[PartitionIn(d)] = d /\ position'[PartitionIn(d)] = position[PartitionIn(d)]
      BY <1>1, <1>3, <2>2, <3>1
    <3>3. Applied(PartitionIn(d), hand[d].offset)'
      BY <1>1, <2>2, <3>1 DEF PipeInv, HandSound, Applied
    <3>. QED
      BY <1>1, <2>2, <3>1, <3>2, <3>3 DEF PipeInv, HandSound
  <2>. QED
    BY <2>1, <2>2
<1>7. ASSUME NEW p \in Partitions PROVE PartitionSound(p)'
  <2>1. CASE p = q
    BY <1>1, <1>3, <2>1 DEF PipeInv, PartitionSound, Applied
  <2>2. CASE p # q
    BY <1>1, <1>3, <2>2 DEF PipeInv, PartitionSound, Applied, PartitionIn
  <2>. QED
    BY <2>1, <2>2
<1>8. CountIsReceipts'
  BY <1>1 DEF PipeInv, CountIsReceipts
<1>. QED
  BY <1>2, <1>5, <1>6, <1>7, <1>8 DEF PipeInv

-----------------------------------------------------------------------------
(* The theorems.                                                             *)

LEMMA NextPipeInv == PipeInv /\ [Next]_vars => PipeInv'
<1> SUFFICES ASSUME PipeInv, [Next]_vars PROVE PipeInv'
  OBVIOUS
<1>1. CASE UNCHANGED vars
  <2>1. OutboxInv' /\ LogGrows /\ Rows' = Rows /\ UNCHANGED consumerVars
    BY <1>1, OutboxSame DEF vars, PipeInv, LogGrows, outboxVars, Rows, OutboxInv, OutboxTypeOK
  <2>. QED
    BY <2>1, GrowInv
<1>2. ASSUME NEW e \in Events, Trade(e) PROVE PipeInv'
  <2>1. Enqueue(e) /\ UNCHANGED <<published, claim, log, consumerVars>>
    BY <1>2 DEF Trade
  <2>2. OutboxInv' /\ LogGrows
    BY <2>1, EnqueueInv DEF PipeInv
  <2>3. Rows \subseteq Rows'
    BY <2>1, EnqueueRows DEF PipeInv
  <2>. QED
    BY <2>1, <2>2, <2>3, GrowInv
<1>3. ASSUME NEW w \in Publishers, PublisherWork(w) \/ PublisherFault(w), UNCHANGED consumerVars
      PROVE  PipeInv'
  <2>1. OutboxInv' /\ LogGrows /\ UNCHANGED created
    BY <1>3, PublisherInv DEF PipeInv
  <2>2. Rows' = Rows
    BY <2>1 DEF Rows
  <2>. QED
    BY <1>3, <2>1, <2>2, GrowInv
<1>4. ASSUME NEW c \in Consumers, WorkerWork(c) PROVE PipeInv'
  BY <1>4, PollInv, SkipIncompatibleInv, StageInv, ApplyTradeInv, RestartInv, CommitOffsetInv
     DEF WorkerWork, LoseRace, FencedCommit
<1>5. ASSUME NEW c \in Consumers, WorkerDies(c) PROVE PipeInv'
  BY <1>5, RestartInv DEF WorkerDies
<1>6. ASSUME NEW c \in Consumers, NEW p \in Partitions, Rebalance(p, c) PROVE PipeInv'
  BY <1>6, RebalanceInv
<1>. QED
  BY <1>1, <1>2, <1>3, <1>4, <1>5, <1>6 DEF Next

THEOREM PipelineInvariant == Spec => []PipeInv
<1>1. Init => PipeInv
  BY InitPipeInv
<1>2. PipeInv /\ [Next]_vars => PipeInv'
  BY NextPipeInv
<1>. QED
  BY <1>1, <1>2, PTL DEF Spec

\* However a record is redelivered, duplicated or raced over, the trade count of a
\* portfolio is the number of its events with a receipt.
THEOREM CountExact == Spec => []CountIsReceipts
<1>1. PipeInv => CountIsReceipts
  BY DEF PipeInv
<1>. QED
  BY <1>1, PipelineInvariant, PTL

\* Nothing is marked published that the broker does not have.
THEOREM PublishedSafe == Spec => []PublishedIsLogged
<1>1. PipeInv => PublishedIsLogged
  BY DEF PipeInv, OutboxInv
<1>. QED
  BY <1>1, PipelineInvariant, PTL

\* When every payload parses, the committed offset never passes over a record that
\* was not counted.
THEOREM CommittedSafe == ASSUME Incompatible = {} PROVE Spec => []CommittedIsApplied
<1>1. PipeInv => CommittedIsApplied
  BY DEF PipeInv, PartitionSound, Applied, CommittedIsApplied
<1>. QED
  BY <1>1, PipelineInvariant, PTL

\* Every variable of the pipeline keeps its type, and offsets stay in the log.
THEOREM PipelineTypes == Spec => []TypeOK
<1>1. PipeInv => TypeOK
  BY DEF PipeInv, OutboxInv, GroupTypes, TypeOK, Rows
<1>. QED
  BY <1>1, PipelineInvariant, PTL

-----------------------------------------------------------------------------
(* The pipeline implements ActivityFeed.                                     *)

LEMMA InitFeed == Init => Feed!Init
  BY DEF Init, OutboxInit, Rows, Feed!Init

\* A step either records one trade, counts one recorded trade, or shows nothing.
LEMMA NextFeed == PipeInv /\ [Next]_vars => [Feed!Next]_(Feed!feedVars)
<1> SUFFICES ASSUME PipeInv, [Next]_vars PROVE [Feed!Next]_(Feed!feedVars)
  OBVIOUS
<1>1. ASSUME NEW e \in Events, Trade(e) PROVE Feed!Record(e)
  <2>1. Rows' = Rows \cup {e} /\ e \notin Rows
    BY <1>1, EnqueueRows DEF Trade, PipeInv
  <2>. QED
    BY <1>1, <2>1 DEF Trade, consumerVars, dbVars, Feed!Record
<1>2. ASSUME NEW c \in Consumers, ApplyTrade(c) PROVE Feed!Count(hand[c].event) /\ hand[c].event \in Events
  <2> DEFINE e == hand[c].event
  <2>1. /\ hand[c].stage = "read" /\ e \notin inbox /\ inbox' = inbox \cup {e} /\ Rows' = Rows
        /\ activity' = [activity EXCEPT ![e.key] = [count |-> hand[c].count + 1, last |-> e]]
    BY <1>2 DEF ApplyTrade, ReceiptIsNew, outboxVars, Rows
  <2>2. e \in Events /\ e.key \in Keys /\ PartitionIn(c) \in Partitions
    BY <2>1, HandTypes
  <2>3. e \in Rows /\ hand[c].count = activity[e.key].count
    BY <2>1, <2>2 DEF PipeInv, HandSound, OutboxInv
  <2>4. activity \in [Keys -> [count : Nat, last : Events \cup {None}]]
    BY DEF PipeInv, GroupTypes
  <2>5. \A k \in Keys : activity'[k].count = IF k = e.key THEN activity[k].count + 1 ELSE activity[k].count
    BY <2>1, <2>2, <2>3, <2>4
  <2>6. [k \in Keys |-> activity'[k].count] =
          [[k \in Keys |-> activity[k].count] EXCEPT ![e.key] = @ + 1]
    BY <2>2, <2>5
  <2>. QED
    BY <2>1, <2>2, <2>3, <2>6 DEF Feed!Count
<1>3. ASSUME UNCHANGED <<created, inbox, activity>> PROVE UNCHANGED Feed!feedVars
  BY <1>3 DEF Feed!feedVars, Rows
<1>4. ASSUME NEW w \in Publishers, PublisherWork(w) \/ PublisherFault(w), UNCHANGED consumerVars
      PROVE  UNCHANGED Feed!feedVars
  BY <1>3, <1>4, PublisherInv DEF PipeInv, consumerVars, dbVars
<1>5. ASSUME NEW c \in Consumers, WorkerWork(c), ~ApplyTrade(c) PROVE UNCHANGED Feed!feedVars
  BY <1>3, <1>5 DEF WorkerWork, Poll, SkipIncompatible, FindDuplicate, ReadActivity, LoseRace,
     CommitOffset, FencedCommit, Restart, outboxVars, dbVars
<1>6. ASSUME NEW c \in Consumers, NEW p \in Partitions, Rebalance(p, c)
      PROVE  UNCHANGED Feed!feedVars
  BY <1>3, <1>6 DEF Rebalance, outboxVars, dbVars
<1>7. CASE UNCHANGED vars
  BY <1>3, <1>7 DEF vars, outboxVars, consumerVars, dbVars
<1>8. ASSUME NEW c \in Consumers, WorkerDies(c) PROVE UNCHANGED Feed!feedVars
  BY <1>3, <1>8 DEF WorkerDies, Restart, outboxVars, dbVars
<1>9. ASSUME NEW c \in Consumers, WorkerWork(c) PROVE Feed!Next \/ UNCHANGED Feed!feedVars
  <2>1. CASE ApplyTrade(c)
    <3>1. PICK e \in Events : e = hand[c].event
      BY <1>2, <2>1
    <3>2. Feed!Count(e)
      BY <1>2, <2>1, <3>1 DEF Feed!Count
    <3>. QED
      BY <3>2 DEF Feed!Next
  <2>2. CASE ~ApplyTrade(c)
    BY <1>5, <1>9, <2>2
  <2>. QED
    BY <2>1, <2>2
<1>10. ASSUME NEW e \in Events, Trade(e) PROVE Feed!Next
  BY <1>1, <1>10 DEF Feed!Next
<1>11. CASE Next
  <2>1. CASE \E e \in Events : Trade(e)
    BY <1>10, <2>1
  <2>2. CASE \E w \in Publishers : (PublisherWork(w) \/ PublisherFault(w)) /\ UNCHANGED consumerVars
    BY <1>4, <2>2
  <2>3. CASE \E c \in Consumers : WorkerWork(c)
    <3>1. PICK c \in Consumers : WorkerWork(c)
      BY <2>3
    <3>2. Feed!Next \/ UNCHANGED Feed!feedVars
      BY <1>9, <3>1
    <3>. QED
      BY <3>2
  <2>4. CASE \E c \in Consumers : WorkerDies(c)
    BY <1>8, <2>4
  <2>5. CASE \E c \in Consumers, p \in Partitions : Rebalance(p, c)
    BY <1>6, <2>5
  <2>. QED
    BY <1>11, <2>1, <2>2, <2>3, <2>4, <2>5 DEF Next
<1>. QED
  BY <1>7, <1>11

\* Every behaviour of the pipeline, faults included, is one of the abstract feed:
\* a trade is counted at most once and only after it was recorded.
THEOREM PipelineImplementsFeed == Spec => FeedSpec
<1>1. Init => Feed!Init
  BY InitFeed
<1>2. PipeInv /\ [Next]_vars => [Feed!Next]_(Feed!feedVars)
  BY NextFeed
<1>. QED
  BY <1>1, <1>2, PipelineInvariant, PTL DEF Spec, FeedSpec, Feed!Spec

=============================================================================
