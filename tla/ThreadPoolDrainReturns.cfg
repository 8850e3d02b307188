SPECIFICATION FairSpec
CONSTANTS
  Workers = {w1}
  Clients = {c1}
  Drainers = {d1}
  Tasks = {t1}
  NoThread = NoThread
  NoTask = NoTask
PROPERTY DrainReturns
