SPECIFICATION FairSpec
CONSTANTS
  a1 = a1  a2 = a2  a3 = a3
  Workers <- MCWorkers
  Nobody = Nobody
  NoLoad = NoLoad
  Regimes <- MCRegimes
  First <- MCFirst
  Elections <- MCElections
  NoView = NoView
  MaxDeliveries = 1
  MaxFaults = 1
INVARIANTS TypeOK NoGap NoCollision SentOnce
PROPERTY Converges
