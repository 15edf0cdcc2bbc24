------------------------------- MODULE Outbox -------------------------------
(***************************************************************************)
(* The transactional outbox (apps/api/src/stockviz/events/outbox.py) and    *)
(* its publishers (workers/outbox_publisher.py).  A row is inserted by the  *)
(* transaction whose change it reports.  A publisher claims a batch of rows *)
(* with FOR UPDATE SKIP LOCKED, produces them to Kafka one by one, marks    *)
(* the acknowledged ones and commits once at the end.                       *)
(***************************************************************************)
EXTENDS Naturals, Sequences, FiniteSets

CONSTANTS
  Events,       \* the events that may be enqueued; e.key is the partition key
  Keys,
  Partitions,
  PartitionOf,  \* Kafka's partitioner: the partition of each key
  Publishers,
  BatchSize,    \* outbox_batch_size
  MaxCopies     \* bound: a fault may happen while it leaves fewer copies in the log

ASSUME EventsAssumption == IsFiniteSet(Events) /\ \A e \in Events : e.key \in Keys
ASSUME PartitionsAssumption == PartitionOf \in [Keys -> Partitions]
ASSUME BatchAssumption == BatchSize \in Nat \ {0} /\ MaxCopies \in Nat \ {0}

VARIABLES
  created,      \* created[e]: rank of e's row by created_at; 0 while there is none
  published,    \* rows whose published_at is set, committed
  claim,        \* claim[w]: the open transaction of publisher w
  log           \* log[p]: the records of a topic partition

outboxVars == <<created, published, claim, log>>

-----------------------------------------------------------------------------
Rows == {e \in Events : created[e] # 0}

Records(p) == {log[p][i] : i \in DOMAIN log[p]}

Copies(e) == Cardinality({i \in DOMAIN log[PartitionOf[e.key]] : log[PartitionOf[e.key]][i] = e})

NoClaim == [rows |-> {}, todo |-> {}, acked |-> {}]

OutboxInit ==
  /\ created = [e \in Events |-> 0]
  /\ published = {}
  /\ claim = [w \in Publishers |-> NoClaim]
  /\ log = [p \in Partitions |-> <<>>]

\* The insert of the row; it is one step with the change it reports.
Enqueue(e) ==
  /\ created[e] = 0
  /\ created' = [created EXCEPT ![e] = Cardinality(Rows) + 1]

\* SKIP LOCKED passes over the rows of the other publishers' transactions.
Claimable == Rows \ (published \cup UNION {claim[w].rows : w \in Publishers})

\* ORDER BY created_at LIMIT BatchSize.
Oldest(S) == {e \in S : Cardinality({f \in S : created[f] < created[e]}) < BatchSize}

Claim(w) ==
  /\ claim[w] = NoClaim
  /\ Claimable # {}
  /\ claim' = [claim EXCEPT ![w] = [rows |-> Oldest(Claimable), todo |-> Oldest(Claimable), acked |-> {}]]
  /\ UNCHANGED <<created, published, log>>

NextRow(w, e) == e \in claim[w].todo /\ \A f \in claim[w].todo : created[e] <= created[f]

Append1(e) == log' = [log EXCEPT ![PartitionOf[e.key]] = Append(@, e)]

\* The broker acknowledges the record, the row is marked in the open transaction.
Publish(w, e) ==
  /\ NextRow(w, e)
  /\ Append1(e)
  /\ claim' = [claim EXCEPT ![w].todo = @ \ {e}, ![w].acked = @ \cup {e}]
  /\ UNCHANGED <<created, published>>

\* The produce raises, with or without the record having reached the broker (a
\* flush that times out); the failure is noted and the batch goes on.
PublishFails(w, e) ==
  /\ NextRow(w, e)
  /\ \/ UNCHANGED log
     \/ Copies(e) < MaxCopies /\ Append1(e)
  /\ claim' = [claim EXCEPT ![w].todo = @ \ {e}]
  /\ UNCHANGED <<created, published>>

\* The rows whose mark commits; the mutation marks failed rows too.
EveryRow(w) == claim[w].rows
Marked(w) == claim[w].acked

CommitBatch(w) ==
  /\ claim[w] # NoClaim /\ claim[w].todo = {}
  /\ published' = published \cup Marked(w)
  /\ claim' = [claim EXCEPT ![w] = NoClaim]
  /\ UNCHANGED <<created, log>>

\* The publisher dies: its marks roll back, the records it produced stay.
PublisherDies(w) ==
  /\ claim[w] # NoClaim
  /\ \A e \in claim[w].acked : Copies(e) < MaxCopies
  /\ claim' = [claim EXCEPT ![w] = NoClaim]
  /\ UNCHANGED <<created, published, log>>

PublisherWork(w) == Claim(w) \/ (\E e \in Events : Publish(w, e)) \/ CommitBatch(w)

PublisherFault(w) == (\E e \in Events : PublishFails(w, e)) \/ PublisherDies(w)

-----------------------------------------------------------------------------
Claims == [rows : SUBSET Events, todo : SUBSET Events, acked : SUBSET Events]

OutboxTypeOK ==
  /\ created \in [Events -> Nat]
  /\ published \in SUBSET Events
  /\ claim \in [Publishers -> Claims]
  /\ log \in [Partitions -> Seq(Events)]

\* A row is marked published only when its event is in the topic, whatever
\* fails or dies: nothing committed is lost on the way to the broker.
PublishedIsLogged == \A e \in published : e \in Records(PartitionOf[e.key])

=============================================================================
