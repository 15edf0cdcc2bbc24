---------------------------- MODULE TradePipeline ----------------------------
(***************************************************************************)
(* trade.executed from the ledger to the derived per-portfolio activity     *)
(* (workers/trade_activity_consumer.py, events/activity.py).  A worker of   *)
(* the consumer group polls a record of a partition it owns, applies it     *)
(* with its inbox receipt in one database transaction, then commits the     *)
(* offset.  A partition may move to another worker while its old owner is   *)
(* still handling a record, and a worker may die at any point.              *)
(***************************************************************************)
EXTENDS Outbox

CONSTANTS
  Consumers,    \* workers of the group stockviz.trade-activity.v1
  Incompatible, \* events of a type or schema version that parse_trade_executed refuses
  None          \* no event

ASSUME IncompatibleAssumption == Incompatible \subseteq Events /\ None \notin Events

VARIABLES
  owner,        \* owner[p]: the worker that partition p is assigned to
  position,     \* position[p]: the offset its owner polls next (in its memory)
  committed,    \* committed[p]: the group's committed offset
  hand,         \* hand[c]: the record worker c is handling
  inbox,        \* events with a consumer_inbox receipt
  activity      \* activity[k]: the portfolio_trade_activity row of portfolio k

groupVars == <<owner, position, committed>>
dbVars == <<inbox, activity>>
consumerVars == <<groupVars, hand, dbVars>>
vars == <<outboxVars, consumerVars>>

-----------------------------------------------------------------------------
NoRecord == [stage |-> "idle", offset |-> 0, event |-> None, count |-> 0]

Init ==
  /\ OutboxInit
  /\ owner \in [Partitions -> Consumers]
  /\ position = [p \in Partitions |-> 1]
  /\ committed = [p \in Partitions |-> 1]
  /\ hand = [c \in Consumers |-> NoRecord]
  /\ inbox = {}
  /\ activity = [k \in Keys |-> [count |-> 0, last |-> None]]

PartitionIn(c) == PartitionOf[hand[c].event.key]

\* apply_fill commits a trade with its outbox row.
Trade(e) ==
  /\ Enqueue(e)
  /\ UNCHANGED <<published, claim, log, consumerVars>>

\* poll advances the position whether or not the record is handled.
Poll(c, p) ==
  /\ hand[c].stage = "idle"
  /\ owner[p] = c
  /\ position[p] \in DOMAIN log[p]
  /\ hand' = [hand EXCEPT ![c] = [stage |-> "polled", offset |-> position[p],
                                  event |-> log[p][position[p]], count |-> 0]]
  /\ position' = [position EXCEPT ![p] = @ + 1]
  /\ UNCHANGED <<outboxVars, owner, committed, dbVars>>

\* Mutation: a refused record gets a receipt, though it is not counted.
SkipWithReceipt(c) ==
  /\ hand[c].stage = "polled"
  /\ hand[c].event \in Incompatible
  /\ hand' = [hand EXCEPT ![c] = NoRecord]
  /\ inbox' = inbox \cup {hand[c].event}
  /\ UNCHANGED <<outboxVars, groupVars, activity>>

\* SchemaIncompatibleError: the loop continues with the next record.
SkipIncompatible(c) ==
  /\ hand[c].stage = "polled"
  /\ hand[c].event \in Incompatible
  /\ hand' = [hand EXCEPT ![c] = NoRecord]
  /\ UNCHANGED <<outboxVars, groupVars, dbVars>>

\* A receipt exists: the handler returns "duplicate" and nothing is written.
FindDuplicate(c) ==
  /\ hand[c].stage = "polled"
  /\ hand[c].event \in inbox \ Incompatible
  /\ hand' = [hand EXCEPT ![c].stage = "handled"]
  /\ UNCHANGED <<outboxVars, groupVars, dbVars>>

\* No receipt yet: the handler reads the activity row, which it does not lock.
ReadActivity(c) ==
  /\ hand[c].stage = "polled"
  /\ hand[c].event \notin inbox \cup Incompatible
  /\ hand' = [hand EXCEPT ![c].stage = "read",
                          ![c].count = activity[hand[c].event.key].count]
  /\ UNCHANGED <<outboxVars, groupVars, dbVars>>

\* uq_consumer_inbox_name_event; the mutation is a table without it.
Unchecked(c) == TRUE
ReceiptIsNew(c) == hand[c].event \notin inbox

\* Counter, last trade and receipt commit together.
ApplyTrade(c) ==
  /\ hand[c].stage = "read"
  /\ ReceiptIsNew(c)
  /\ activity' = [activity EXCEPT ![hand[c].event.key] =
                    [count |-> hand[c].count + 1, last |-> hand[c].event]]
  /\ inbox' = inbox \cup {hand[c].event}
  /\ hand' = [hand EXCEPT ![c].stage = "handled"]
  /\ UNCHANGED <<outboxVars, groupVars>>

\* The worker's process starts again: its partitions resume at the committed offset.
Restart(c) ==
  /\ hand' = [hand EXCEPT ![c] = NoRecord]
  /\ position' = [p \in Partitions |-> IF owner[p] = c THEN committed[p] ELSE position[p]]
  /\ UNCHANGED <<outboxVars, owner, committed, dbVars>>

\* The unique constraint fires: begin_nested has flushed outside the savepoint,
\* so the transaction is lost, the commit raises and the worker ends.
LoseRace(c) ==
  /\ hand[c].stage = "read"
  /\ ~ReceiptIsNew(c)
  /\ Restart(c)

\* The offset commit follows the database commit; the mutation precedes it.
AtOnce(c) == hand[c].stage \in {"polled", "handled"}
DatabaseDone(c) == hand[c].stage = "handled"

\* commit(msg) commits msg's offset + 1; the mutation steps over a record.
StepOver(c) == hand[c].offset + 2
NextOffset(c) == hand[c].offset + 1

CommitOffset(c) ==
  /\ DatabaseDone(c)
  /\ owner[PartitionIn(c)] = c
  /\ committed' = [committed EXCEPT ![PartitionIn(c)] = NextOffset(c)]
  /\ hand' = [hand EXCEPT ![c] = NoRecord]
  /\ UNCHANGED <<outboxVars, owner, position, dbVars>>

\* The partition moved meanwhile: the broker refuses the commit and the worker ends.
FencedCommit(c) ==
  /\ DatabaseDone(c)
  /\ owner[PartitionIn(c)] # c
  /\ Restart(c)

WorkerDies(c) == Restart(c)

\* A rebalance gives p to c, which joins the group from within its poll.
Rebalance(p, c) ==
  /\ owner[p] # c
  /\ hand[c].stage = "idle"
  /\ owner' = [owner EXCEPT ![p] = c]
  /\ position' = [position EXCEPT ![p] = committed[p]]
  /\ UNCHANGED <<outboxVars, committed, hand, dbVars>>

WorkerWork(c) ==
  \/ \E p \in Partitions : Poll(c, p)
  \/ SkipIncompatible(c) \/ FindDuplicate(c) \/ ReadActivity(c) \/ ApplyTrade(c) \/ LoseRace(c)
  \/ CommitOffset(c) \/ FencedCommit(c)

Next ==
  \/ \E e \in Events : Trade(e)
  \/ \E w \in Publishers : (PublisherWork(w) \/ PublisherFault(w)) /\ UNCHANGED consumerVars
  \/ \E c \in Consumers : WorkerWork(c) \/ WorkerDies(c) \/ \E p \in Partitions : Rebalance(p, c)

Spec == Init /\ [][Next]_vars

\* A process that has something to do does it: the workers and the publishers
\* loop for ever, restarted by their supervisor when they die.
LoopFairness ==
  /\ \A w \in Publishers : WF_vars(PublisherWork(w) /\ UNCHANGED consumerVars)
  /\ \A c \in Consumers : WF_vars(WorkerWork(c))

\* Faults come in any number but end some time: the broker answers, processes
\* stay up and the group's membership settles.
FaultsEnd ==
  <>[][/\ UNCHANGED owner
       /\ \A c \in Consumers : ~WorkerDies(c)
       /\ \A w \in Publishers : ~PublisherFault(w)]_vars

FairSpec == Spec /\ LoopFairness /\ FaultsEnd

-----------------------------------------------------------------------------
Hands ==
  [stage : {"idle", "polled", "read", "handled"}, offset : Nat,
   event : Events \cup {None}, count : Nat]

\* Offsets point into the log or just past it.
TypeOK ==
  /\ OutboxTypeOK
  /\ owner \in [Partitions -> Consumers]
  /\ hand \in [Consumers -> Hands]
  /\ inbox \in SUBSET Events
  /\ activity \in [Keys -> [count : Nat, last : Events \cup {None}]]
  /\ position \in [Partitions -> Nat] /\ committed \in [Partitions -> Nat]
  /\ \A p \in Partitions : /\ committed[p] \in 1..(Len(log[p]) + 1)
                           /\ position[p] \in committed[p]..(Len(log[p]) + 1)

\* trade_count is the number of receipts: no event is counted twice or lost from
\* the count by a redelivery, a duplicate in the topic, a rebalance or a crash
\* (activity.py: "exactly once per event").
CountIsReceipts ==
  \A k \in Keys : activity[k].count = Cardinality({e \in inbox : e.key = k})

\* Every record below the committed offset has been applied, so a restart never
\* passes over one (dispatcher._rewind names trade activity among the streams
\* where a skipped record would be "silent data loss").
CommittedIsApplied ==
  \A p \in Partitions : \A i \in 1..(committed[p] - 1) : log[p][i] \in inbox

\* A portfolio's activity follows its trades in order (KAFKA_SCALING.md: "Keying
\* trade events by portfolio_id keeps one portfolio's activity in order").
ActivityInOrder ==
  [][\A k \in Keys :
       activity'[k].last # activity[k].last /\ activity[k].last # None =>
         created[activity[k].last] < created[activity'[k].last]]_vars

\* What the pipeline promises: ActivityFeed, with the outbox as the record of what
\* happened and the inbox as the record of what was counted.
Feed == INSTANCE ActivityFeed WITH
          recorded <- Rows, counted <- inbox, tally <- [k \in Keys |-> activity[k].count]
FeedSpec == Feed!Spec
FeedLiveSpec == Feed!LiveSpec

=============================================================================
