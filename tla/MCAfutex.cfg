SPECIFICATION MutexSpec
CONSTANT Procs = {p1, p2, p3, p4}
INVARIANTS MutualExclusion NoSleeperLost
PROPERTIES SomeoneEnters ImplementsMutex
