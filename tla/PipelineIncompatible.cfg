\* Two portfolios that share a partition, and a record the worker cannot parse.
SPECIFICATION Spec
CONSTANTS
  K1 = K1
  K2 = K2
  None = None
  Events <- TwoBooks
  Keys = {K1, K2}
  Partitions = {1}
  PartitionOf <- SharedPartition
  Publishers = {w1}
  Consumers = {c1, c2}
  BatchSize = 2
  MaxCopies = 1
  Incompatible <- FirstTrade
SYMMETRY MCSymmetry
PROPERTY FeedSpec
