\* Two publishers and two workers on the trades of one portfolio.
SPECIFICATION Spec
CONSTANTS
  K1 = K1
  K2 = K2
  None = None
  Events <- OneBook
  Keys = {K1}
  Partitions = {1}
  PartitionOf <- SharedPartition
  Publishers = {w1, w2}
  Consumers = {c1, c2}
  BatchSize = 2
  MaxCopies = 2
  Incompatible <- NoTrade
SYMMETRY MCSymmetry
INVARIANT TypeOK
INVARIANT CountIsReceipts
INVARIANT CommittedIsApplied
INVARIANT PublishedIsLogged
PROPERTY FeedSpec
