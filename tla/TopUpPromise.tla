----------------------------- MODULE TopUpPromise -----------------------------
(***************************************************************************)
(* What a wallet owes one Stripe payment, whatever the order and number of *)
(* its notifications: the principal is credited once, refunds only grow,   *)
(* a disputed part is held and may be given back, and no micro of the      *)
(* principal is ever taken back twice.                                     *)
(***************************************************************************)
EXTENDS Integers

CONSTANT Principal      \* what the customer bought, at least 1

VARIABLES
    credited,   \* what the wallet received for the payment
    refunded,   \* what was taken back for refunds
    held        \* what is taken back for a dispute

promise == <<credited, refunded, held>>

Init == credited = 0 /\ refunded = 0 /\ held = 0

Credit == /\ credited = 0
          /\ credited' = Principal
          /\ UNCHANGED <<refunded, held>>

Refund == /\ refunded' \in (refunded + 1)..(credited - held)
          /\ UNCHANGED <<credited, held>>

Hold == /\ held' \in (held + 1)..(credited - refunded)
        /\ UNCHANGED <<credited, refunded>>

GiveBack == /\ held' \in 0..(held - 1)
            /\ UNCHANGED <<credited, refunded>>

Spec == Init /\ [][Credit \/ Refund \/ Hold \/ GiveBack]_promise
=============================================================================
