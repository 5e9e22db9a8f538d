SPECIFICATION Spec
CONSTANTS
  Procs = {p1, p2}
  Commands = {c1, c2, c3}
  Slots = {s1, s2}
  NoProc = NoProc
  NoCmd = NoCmd
  NoSlot = NoSlot
  ClocksAgree = FALSE
SYMMETRY Symmetry
INVARIANTS
  JournalContiguous
  
  AlwaysRecoverable

  
  
