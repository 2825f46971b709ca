SPECIFICATION Spec
CONSTANTS
  Tasks = {a, b}
  UNSET = UNSET
INVARIANTS TypeOK FlagTruthful FreshBudget PendingWindow
PROPERTIES ImplementsHolderFlag
