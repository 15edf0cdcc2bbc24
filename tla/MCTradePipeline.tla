--------------------------- MODULE MCTradePipeline ---------------------------
(* Small instances of the trade-activity pipeline. *)
EXTENDS TradePipeline, TLC

CONSTANTS K1, K2

TradeOf(k, n) == [key |-> k, n |-> n]

\* Two trades of one portfolio; with a third of another portfolio beside them.
OneBook == {TradeOf(K1, 1), TradeOf(K1, 2)}
TwoBooks == OneBook \cup {TradeOf(K2, 1)}

\* Both portfolios hash to one partition, or each to its own.
SharedPartition == [k \in Keys |-> 1]
OwnPartition == [k \in Keys |-> IF k = K1 THEN 1 ELSE 2]

FirstTrade == {TradeOf(K1, 1)}
NoTrade == {}

MCSymmetry == Permutations(Publishers) \cup Permutations(Consumers)

=============================================================================
