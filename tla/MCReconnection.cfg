SPECIFICATION FairSpec
CONSTANTS
  Networks = {n0, n1}
  Peers = {p}
  Conns = {c1, c2}
  MAX_RECONNECT_ATTEMPTS = 5
INVARIANTS TypeOK PeersMatchSwarm LostPeersRetried
PROPERTIES NoEarlyGiveUp Settles
