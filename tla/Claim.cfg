\* One place in the queue for three transactions, and two faults: a payment nobody
\* waits for can be reorganised away, a crash can follow a reorganisation.
SPECIFICATION FairSpec
CONSTANTS
  t1 = t1  t2 = t2  t3 = t3  t4 = t4
  Txs = {t1, t2, t3, t4}
  BlockOf <- MCBlockOf
  Malformed = {t4}
  Oversized = {t3}
  StartBlock = NoBlock
  NoBlock = NoBlock
  Depth = 1
  Lookback = 0
  ScanSpan = 2
  QueueCap = 1
  DoneCap = 1
  PerTick = 1
  MaxHeight = 3
  MaxFaults = 2
INVARIANTS TypeOK LocksAccountedFor
PROPERTY LocksFinish
