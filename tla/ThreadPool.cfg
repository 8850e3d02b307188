SPECIFICATION FairSpec
CONSTANTS
  Workers = {w1, w2}
  Clients = {c1}
  Drainers = {d1}
  Tasks = {t1, t2, t3}
  NoThread = NoThread
  NoTask = NoTask
INVARIANTS TasksConserved CountersExact NoLostWakeup DrainLeavesNothingQueued
PROPERTY KeepsPromise
