--------------------------- MODULE ExportContract ---------------------------
(***************************************************************************)
(* What data export promises about a future (include/data_export.h): an    *)
(* operation settles exactly once, waiting for it returns only after that, *)
(* giving the future up does not cancel the operation, and the memory goes *)
(* back as soon as the operation has settled and the caller has let go of  *)
(* it, whichever comes last. An address may then be used again.            *)
(***************************************************************************)
CONSTANT Futures

VARIABLES
  op,       \* the operation behind each future
  held,     \* the futures the caller has not cleaned up
  answered  \* the futures whose result the caller has been told

contractVars == <<op, held, answered>>

ContractInit ==
  op = [f \in Futures |-> "none"] /\ held = {} /\ answered = {}

Send(f) ==
  /\ op[f] = "none"
  /\ op' = [op EXCEPT ![f] = "open"] /\ held' = held \cup {f}
  /\ UNCHANGED answered

Settle(f) ==
  /\ op[f] = "open"
  /\ op' = [op EXCEPT ![f] = IF f \in held THEN "settled" ELSE "none"]
  /\ UNCHANGED <<held, answered>>

Answer(f) ==
  /\ op[f] = "settled" /\ f \in held
  /\ answered' = answered \cup {f}
  /\ UNCHANGED <<op, held>>

LetGo(f) ==
  /\ f \in held
  /\ op' = [op EXCEPT ![f] = IF op[f] = "settled" THEN "none" ELSE "open"]
  /\ held' = held \ {f} /\ answered' = answered \ {f}

ContractNext == \E f \in Futures : Send(f) \/ Settle(f) \/ Answer(f) \/ LetGo(f)

ContractSpec == ContractInit /\ [][ContractNext]_contractVars
=============================================================================
