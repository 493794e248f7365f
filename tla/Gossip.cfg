SPECIFICATION GossipFairSpec
CONSTANTS
  a = a
  Peers <- MCPeers
  MaxConns = 2
  RingCap = 1
  SocketCap = 1
  ChannelCap = 1
  ReobsCap = 1
  PublishCap = 1
  MaxClients = 1
  MaxFaults = 1
  MaxBursts = 1
INVARIANT GaugeIsFleet
PROPERTY VotesArrive
