\* One database, a prefork server: crashes, stop requests, exceptions and failed
\* spawns, two in all; the database comes and goes, its worker is stuck or not.
SPECIFICATION FairSpec
CONSTANTS
  Dbs = {d1}
  Threads = {h1, h2}
  NoThread = NoThread
  NoDb = NoDb
  Mode = "worker"
  DieAfter = 1
  MaxFaults = 2
INVARIANTS
  TypeOK
  WorkersAreTracked
  StopWakes
  ClosedWorkersStop
PROPERTIES
  ReloadAfterWindow
  SupervisionSpec
  ActiveDbServed
  InactiveDbLeft
