----------------------------- MODULE MCClients -----------------------------
(***************************************************************************)
(* What calls the backend from outside and what such a call meets first:    *)
(* the simulation worker, the operator's console, the rate limits, the rules *)
(* and decimals of an instrument, and the opening of accounts.  They share  *)
(* no state, so one run explores them side by side: part says which of them *)
(* a behaviour is about.                                                    *)
(***************************************************************************)
EXTENDS ExchangeSimulation, OperatorConsole, AdmissionLimits, InstrumentRules, AccountOpening
VARIABLE part
vars == <<part, simulationVars, consoleVars, limitVars, rulesVars, openingVars>>

(* 0.25 and 0.50 as clients write them; 10.5 and 0.40.                      *)
Written(c, s) == [c |-> c, s |-> s]
MCSizes == {Written(25, 2), Written(50, 2)}
MCQuotes == {Written(105, 1), Written(40, 2)}
MCWallet == [base |-> Written(75, 2), quote |-> Written(80, 1)]
MCFeeRate == Written(15, 3)

Version(lot, low, high) ==
  [tick |-> Written(1, 1), lot |-> lot, min |-> Written(25, 2), max |-> Written(1, 0),
   low |-> low, high |-> high,
   maxOrder |-> Written(1, 0), maxNotional |-> Written(5, 0), maxOpen |-> 1]

(* The first admits every order, the second only halves at 2.0 and above;   *)
(* the third has its prices the wrong way round.                            *)
MCRuleBook ==
  {Version(Written(25, 2), Written(1, 1), Written(11, 0)),
   Version(Written(5, 1), Written(2, 0), Written(11, 0)),
   Version(Written(25, 2), Written(1, 0), Written(1, 1))}

(* Two that name two assets in opposite orders, one that takes the id of    *)
(* the first and another scale of an asset, one that names an asset twice.  *)
Scaled(asset, scale) == [asset |-> asset, scale |-> scale]
Opening(account, owner, definitions) ==
  [account |-> account, owner |-> owner, definitions |-> definitions]
MCOpenings ==
  {Opening("acc1", "ann", <<Scaled("USD", 2), Scaled("BTC", 8)>>),
   Opening("acc2", "bea", <<Scaled("BTC", 8), Scaled("USD", 2)>>),
   Opening("acc1", "bea", <<Scaled("EUR", 2), Scaled("USD", 3)>>),
   Opening("acc2", "ann", <<Scaled("EUR", 2), Scaled("EUR", 2)>>)}

Init ==
  /\ part \in {"simulation", "console", "limits", "rules", "accounts"}
  /\ SimulationInit /\ ConsoleInit /\ LimitsInit /\ RulesInit /\ OpeningInit
  /\ part = "limits" \/ distributed
  /\ part = "simulation" \/ market = "ACTIVE"
  /\ part = "accounts" \/ keeper = "memory"

SimulationSteps ==
  /\ part = "simulation" /\ SimulationNext
  /\ UNCHANGED <<part, consoleVars, limitVars, rulesVars, openingVars>>
ConsoleSteps ==
  /\ part = "console" /\ ConsoleNext
  /\ UNCHANGED <<part, simulationVars, limitVars, rulesVars, openingVars>>
LimitSteps ==
  /\ part = "limits" /\ LimitsNext
  /\ UNCHANGED <<part, simulationVars, consoleVars, rulesVars, openingVars>>
RulesSteps ==
  /\ part = "rules" /\ RulesNext
  /\ UNCHANGED <<part, simulationVars, consoleVars, limitVars, openingVars>>
OpeningSteps ==
  /\ part = "accounts" /\ OpeningNext
  /\ UNCHANGED <<part, simulationVars, consoleVars, limitVars, rulesVars>>
Next == SimulationSteps \/ ConsoleSteps \/ LimitSteps \/ RulesSteps \/ OpeningSteps

(* Every call of the worker has a deadline (request, REQUEST_TIMEOUT_MS),   *)
(* and its loops only wait for calls.                                       *)
Others == <<part, consoleVars, limitVars, rulesVars, openingVars>>
SetUpSteps == part = "simulation" /\ SetUp /\ UNCHANGED Others
TradeSteps == part = "simulation" /\ Trade /\ UNCHANGED Others
FairSpec == Init /\ [][Next]_vars /\ WF_vars(SetUpSteps) /\ WF_vars(TradeSteps)
=============================================================================
