SPECIFICATION FairSpec
CONSTANTS
  AdapterKeys = {"COMMAND_STORE_ADAPTER", "LEDGER_STORE_ADAPTER", "EVENT_LOG_ADAPTER"}
  Workers = {w1, w2}
  Commands = {c1, c2}
  Deployments <- RolledOut
  MaxAttempts = 2
INVARIANTS
  AcceptedSurvives
PROPERTY BecomesReady
CHECK_DEADLOCK FALSE
