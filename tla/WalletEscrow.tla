---------------------------- MODULE WalletEscrow ----------------------------
(***************************************************************************)
(* What a wallet promises its callers, without its columns: one signed     *)
(* balance of spendable money (negative when the organization owes), and   *)
(* for each reservation an escrow that is filled from the balance once,    *)
(* never beyond it, and emptied once, either by charging an exact amount   *)
(* or by giving the whole of it back.  No money appears or disappears.     *)
(***************************************************************************)
EXTENDS Integers

CONSTANTS Keys, Amounts

VARIABLES
    free,       \* spendable minus owed
    phase,      \* of each reservation
    escrow      \* micros held for each reservation

evars == <<free, phase, escrow>>

ActualAmounts == Amounts \cup {0}

Init ==
    /\ free = 0
    /\ phase = [k \in Keys |-> "NONE"]
    /\ escrow = [k \in Keys |-> 0]

Deposit(amount) ==
    /\ free' = free + amount
    /\ UNCHANGED <<phase, escrow>>

Charge(amount) ==
    /\ free' = free - amount
    /\ UNCHANGED <<phase, escrow>>

Open(k, amount) ==
    /\ phase[k] = "NONE"
    /\ free >= amount
    /\ free' = free - amount
    /\ phase' = [phase EXCEPT ![k] = "ACTIVE"]
    /\ escrow' = [escrow EXCEPT ![k] = amount]

\* Closing returns the escrow to the balance and charges the actual amount
\* to it, so charging less than was held gives change and charging more
\* costs the balance the difference.
Close(k, outcome, actual) ==
    /\ phase[k] = "ACTIVE"
    /\ free' = free + escrow[k] - actual
    /\ phase' = [phase EXCEPT ![k] = outcome]
    /\ escrow' = [escrow EXCEPT ![k] = 0]

Next ==
    \/ \E amount \in Amounts : Deposit(amount) \/ Charge(amount)
    \/ \E paidAmount, promoAmount \in ActualAmounts :
          Deposit(paidAmount + promoAmount)
    \/ \E k \in Keys :
          \/ \E amount \in Amounts : Open(k, amount)
          \/ \E actual \in ActualAmounts : Close(k, "SETTLED", actual)
          \/ Close(k, "RELEASED", 0)

Spec == Init /\ [][Next]_evars
=============================================================================
