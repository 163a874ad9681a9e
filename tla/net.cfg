SPECIFICATION NetSpec
CONSTANTS
  Parts = {"arp", "ndp", "ip", "dhcp", "aptindex", "apt", "archive", "install", "openpgp",
      "tls", "fetch", "resolver", "udp_users", "pings", "inet"}
  Server = {"s1", "s2"}
  RxQueueCap = 2
  RetryTicks = 1
  DhcpTimeout = 1
  HalfLease = 1
  MaxTick = 2
  MaxXid = 2
INVARIANTS
  NeighbourServed
  Reassembled
  LeaseSound
  IndexOfText
  PlannedRight
  UnpackedAsPacked
  VerifiedIsSigned
  AuthenticatedServer
  FetchedWhole
  OwnAnswer
  OwnConnection
CHECK_DEADLOCK FALSE
