CONSTANTS
  Tabs = {t1, t2}
  Threads = 2
  Ids = {1, 2, 3}
  MostHanging = 1
  None = None
SPECIFICATION Spec
INVARIANTS TypeOK PendingAwaited ButtonFollows ShownIsLatest
PROPERTIES Served
