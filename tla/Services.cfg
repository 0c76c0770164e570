SPECIFICATION Spec
CONSTANTS
  Tasks = {"transfer", "punch", "trust", "daemons", "watch", "install", "mapping"}
  s1 = s1
  s2 = s2
  u1 = u1
  u2 = u2
  Sends = {s1, s2}
  Uploads = {u1, u2}
  Strangers = {s2}
  Sender <- MCSender
  Wanted <- MCWanted
  Parts <- MCParts
  MaxTransfers = 2
  BadName = "bad"
  MaxMishaps = 2
  Pairs = {p1, p2}
  MaxRounds = 2
  Machines = {m1, m2}
  Devices = {m1, m2, x}
  MaxRequests = 5
  Daemons = {d1, d2}
  Ports = {1, 2}
  MaxStarts = 4
  Watchers = {w1, w2, w3}
  Room = 1
  MaxEvents = 2
  Updaters = {a, b}
  MaxRelease = 3
  MaxTroubles = 2
  Hosts = {h1, h2}
  WanPorts = {1, 2}
  LocalPort = 1
  MaxHalfHours = 2
  MaxFaults = 1
INVARIANTS
  RouterAgrees
  InboxWhole
  OneLeft
  ServesPaired
  AloneAnswers
  WatchersStay
  VerifiedOnly
  BinaryStays
PROPERTIES
  KeptUnlessRaced
  SendsEnd
  Meets
CHECK_DEADLOCK FALSE
