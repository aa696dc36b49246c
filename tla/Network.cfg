SPECIFICATION NetworkSpec
CHECK_DEADLOCK FALSE
CONSTANTS
  Addresses <- MCAddresses
  GenesisLists <- MCGenesisLists
  Epoch = 4
  Wrap = 64
  Nothing = Nothing
  MaxNumber = 5
  g = g
  a1 = a1
  a2 = a2
  a3 = a3
  a4 = a4
  b3 = b3
  b4 = b4
  SkBlocks = {g, a1, a2, a3, a4, b3, b4}
  SkGenesis = g
  SkParent <- MCSkParent
  SkNumber <- MCSkNumber
  LocalHead = g
  peer1 = peer1
  peer2 = peer2
  SkPeers = {peer1, peer2}
  NoHeader = NoHeader
  NoPeer = NoPeer
  RequestHeaders = 1
  ScratchHeaders = 2
  MaxTold = 3
  MaxPayloads = 1
  MaxFaults = 1
  MaxStops = 1
  listener1 = listener1
  listener2 = listener2
  listener3 = listener3
  Subscribers = {listener1, listener2, listener3}
  Buffer = 1
  MaxValues = 2
  MaxSubscribes = 4
  node1 = node1
  node2 = node2
  Nodes = {node1, node2}
  TrustedNodes = {node1}
  MaxPeers = 2
  MaxInbound = 1
  MaxDialed = 1
  MaxActiveDials = 1
  MaxConns = 2
  MaxCommands = 1
  Nobody = Nobody
  LastBlock = 2
  EmptyBlocks = {1}
  teller1 = teller1
  teller2 = teller2
  Announcers = {teller1, teller2}
  HashLimit = 1
  BlockLimit = 1
  UncleDist = 0
  QueueDist = 2
  MaxNotes = 3
  MaxInjects = 1
  MaxOthers = 1
  NoAnnouncer = NoAnnouncer
INVARIANTS
  CliqueSound
  SkeletonSound
  DeliveredOnce
  PeersSound
  BlocksSound
PROPERTIES
  MajorityDecides
