SPECIFICATION Spec
CONSTANTS
  t1 = t1
  t2 = t2
  Tasks = {t1, t2}
  Cpus = {0, 1}
  Allowed <- AllowedOf2
  Budget <- Budgets
  new_flow_bonus_ns = 2
  MaxNow = 15
INVARIANTS TypeOK SameTimeTierOrder AdvanceHelps
PROPERTY BoundedOvertaking

