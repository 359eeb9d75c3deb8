----------------------------- MODULE LeaseTokens ----------------------------
(***************************************************************************)
(* The operation token a row of the numbers module carries while somebody  *)
(* works on it (operationToken in number-purchase.repository.ts and        *)
(* number-billing-operation.repository.ts): nobody, the worker that drew   *)
(* it, or a worker that has died and whose lease runs out.                 *)
(***************************************************************************)
CONSTANTS
    Workers,        \* processes of the server
    None, Dead

ASSUME TokensDiffer == None # Dead /\ None \notin Workers /\ Dead \notin Workers
=============================================================================
