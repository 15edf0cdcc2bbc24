\* A failed publish and the order of a portfolio's activity.
SPECIFICATION Spec
CONSTANTS
  K1 = K1
  K2 = K2
  None = None
  Events <- OneBook
  Keys = {K1}
  Partitions = {1}
  PartitionOf <- SharedPartition
  Publishers = {w1}
  Consumers = {c1}
  BatchSize = 2
  MaxCopies = 1
  Incompatible <- NoTrade
PROPERTY ActivityInOrder
