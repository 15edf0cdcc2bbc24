\* Every trade is counted some time, whatever dies and is restarted.
SPECIFICATION FairSpec
CONSTANTS
  K1 = K1
  K2 = K2
  None = None
  Events <- OneBook
  Keys = {K1}
  Partitions = {1}
  PartitionOf <- SharedPartition
  Publishers = {w1}
  Consumers = {c1, c2}
  BatchSize = 1
  MaxCopies = 2
  Incompatible <- NoTrade
PROPERTY FeedLiveSpec
