SPECIFICATION Spec
CONSTANTS
  Stores = {s1}
  Indexed = {s1}
  Threads = {t1, t2}
  MaxValue = 2
  MaxDeclared = 1
  MaxStoreFaults = 2
  ListKeys = {1, 2, 3, 4}
  Prefixed = {2, 3, 4}
  Limits = {0, 1, 2}
  MaxBatch = 2
  Packs = {"p"}
  P = "p"
  Hosts = {"h1", "h2"}
  MaxNetFaults = 1
  Clients = {c1, c2}
  MaxWorkers = 1
  MaxRedirects = 1
  Wired = TRUE
  GrantSets <- MCGrantSets
  Principals = {p, q}
  Runs = {1, 2}
  MaxContainers = 1
  BoxPacks = {"p", "pq"}
  Similar <- MCSimilar
  Ips = {i, j}
  MaxRequests = 2
  Window = 2
  MaxIps = 1
  LastTick = 4
  RouteFiles <- MCRouteFiles
  MaxServers = 2
  LinkStates = {x, y}
  LinkLife = 1
  LastMinute = 3
  MaxSetupFaults = 2
  Overriders = {o1, o2}
  Owners = {w}
  MaxEntries = 3
  MaxTicks = 2
  Ttl = 1
  Callers = {a, b, c}
  Limit = 2
  Width = 3
  Delay = 1
  MaxClock = 5
  Users = {u1, u2}
  MaxCount = 2
  MaxDaily = 1
  LastDay = 2
  Expires = 1
  MaxUsageFaults = 1
INVARIANTS ServicesTypeOK CountersExact NetworkSound LimitsRespected ListsWhole
CHECK_DEADLOCK FALSE
