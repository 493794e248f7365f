SPECIFICATION FairSpec
CONSTANTS
  t1 = t1  t2 = t2  a = a  b = b  o1 = o1  o2 = o2  o3 = o3
  Txs = {t1, t2}
  Msgs = {a, b}
  Outboxes = {o1, o2, o3}
  Received <- MCReceived
  Executed <- MCExecuted
  Home <- MCHome
  Hinted = o3
  Ackable = {a, b}
  Funded = {b}
  Oversized = {}
  StartBlock = NoBlock
  NoBlock = NoBlock
  Depth = 1
  Lookback = 0
  ScanSpan = 2
  HistorySpan = 2
  QueueCap = 1
  DoneCap = 1
  PerTick = 1
  Chains <- MCChains
  MaxFaults = 1
INVARIANTS TypeOK NothingForgotten HistoryComplete
PROPERTY EventuallySettled
