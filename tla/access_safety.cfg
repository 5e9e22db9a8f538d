SPECIFICATION Spec
CONSTANTS
  r1 = r1
  r2 = r2
  GateCalls = {r1, r2}
  NoCall = NoCall
  i1 = i1
  i2 = i2
  Idems = {i1, i2}
  Commands <- MCCommands
  Admin = Admin
  Trader = Trader
  Fresh = Fresh
  Uses <- MCUses
  MaxSecrets = 3
  Acts = {r1, r2}
  NoAct = NoAct
  ada = ada
  bob = bob
  rita = rita
  Actors = {ada, bob, rita}
  Nobody = Nobody
  Role <- MCRole
  AdminCommands <- MCAdminCommands
  Reversals = {9}
  Targets = {"u", "i"}
  MaxAudit = 4
SYMMETRY Symmetry
VIEW View
CHECK_DEADLOCK FALSE
INVARIANTS
  
  SecretShownOnce
  DualControl
  ControlFollowsHistory
