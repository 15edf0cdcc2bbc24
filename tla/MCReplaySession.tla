-------------------------- MODULE MCReplaySession --------------------------
(***************************************************************************)
(* Small instances of ReplaySession for TLC.                                *)
(***************************************************************************)
EXTENDS ReplaySession, TLC

CONSTANTS T1

MCTimes == 1..3
MCOneClose == [t \in MCTimes |-> {1}]

\* The middle bar may be corrected.
MCTwoCloses == [t \in MCTimes |-> IF t = 2 THEN {1, 2} ELSE {1}]
MCTheses == {Blank, T1}

Order(side, type, limit) == [side |-> side, type |-> type, qty |-> 1, limit |-> limit]

\* A buy at any price and a stop-loss that the first bars may not trigger.
MCOrders == {Order("buy", "market", 0), Order("sell", "stop_loss", 1)}
MCBuys == {Order("buy", "market", 0)}

\* The clients are interchangeable.
MCSymmetry == Permutations(Clients)

=============================================================================
