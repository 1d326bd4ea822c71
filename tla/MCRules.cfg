SPECIFICATION Spec
CONSTANTS
  None = None
  PollIntervalMS = 2000
  SlotMinMS = 1800
  CloseWaitWarn = 2
  CloseWaitCrit = 3
  TimeWaitWarn = 2
  TimeWaitCrit = 3
  Records <- Catalogue
  HostReads <- HostCases
  MaxSockets = 4
  ManyPeers = 2
  PeerShare = 1
  PortLo = 10
  PortHi = 13
INVARIANTS
  FilterShowsGroup
  DropsBlamedOnce
  StallsBlamedOnce
  HostFindingsAreLastResort
  LocalFlowToldOnce
