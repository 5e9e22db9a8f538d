SPECIFICATION LedgerSpec
CONSTANTS
  Accounts = {a1, a2}
  System = System
  Assets = {usd}
  OpIds = {o1, o2, o3, o4, o5, o6}
  Amounts = {1, 2}
  NoOp = NoOp
SYMMETRY Symmetry
INVARIANTS
  ReservedBacked
  BalancesExplained
CHECK_DEADLOCK FALSE
