---------------------------- MODULE ActivityFeed ----------------------------
(***************************************************************************)
(* What the trade-activity pipeline promises: every committed trade is      *)
(* counted once, some time after it was recorded.  No broker, no offsets,   *)
(* no failures.                                                             *)
(***************************************************************************)
EXTENDS Naturals

CONSTANTS Events, Keys

VARIABLES
  recorded,     \* the committed trades
  counted,      \* those the feed has taken in
  tally         \* tally[k]: the number shown for k

feedVars == <<recorded, counted, tally>>

Init ==
  /\ recorded = {}
  /\ counted = {}
  /\ tally = [k \in Keys |-> 0]

Record(e) ==
  /\ e \in Events \ recorded
  /\ recorded' = recorded \cup {e}
  /\ UNCHANGED <<counted, tally>>

Count(e) ==
  /\ e \in recorded \ counted
  /\ counted' = counted \cup {e}
  /\ tally' = [tally EXCEPT ![e.key] = @ + 1]
  /\ UNCHANGED recorded

Next == \E e \in Events : Record(e) \/ Count(e)

Spec == Init /\ [][Next]_feedVars

\* Nothing that was recorded waits for ever.
LiveSpec == Spec /\ \A e \in Events : WF_feedVars(Count(e))

=============================================================================
