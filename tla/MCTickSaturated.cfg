SPECIFICATION Spec
CONSTANTS
  Tasks = {a, b}
  FutexUsers = {a}
  NoTask = NoTask
  next_slice = 34
  threshold = 1
  Wrap = 36
  Perf = 512
  MaxOverdue = 40
INVARIANTS CheckedEvery8th
