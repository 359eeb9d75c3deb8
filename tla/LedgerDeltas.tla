---------------------------- MODULE LedgerDeltas ----------------------------
(***************************************************************************)
(* The arithmetic of one wallet: the five columns of a BillingAccount row  *)
(* and, for every operation of WalletLedgerService, the deltas it applies  *)
(* to them.  Amounts are BigInt micro-dollars in the code, so they have no *)
(* width here.  Everything is a constant-level operator: the state machine *)
(* (WalletLedger) and the call-settlement model (CallSettlement) share it. *)
(*                                                                         *)
(* A definition introduced as "Variant:" is not part of the model: it is   *)
(* the next definition with a plausible bug, kept to show that a checked   *)
(* property notices it.                                                    *)
(***************************************************************************)
EXTENDS Integers

MinMicros(left, right) == IF left < right THEN left ELSE right

\* AccountProjection: what the database's CHECK constraints also require.
Accounts == [paid: Nat, promo: Nat, reservedPaid: Nat, reservedPromo: Nat,
             debt: Nat]

\* LedgerDeltas: a missing delta is written as 0n on the row.
Deltas == [paid: Int, promo: Int, reservedPaid: Int, reservedPromo: Int,
           debt: Int]

EmptyAccount ==
    [paid |-> 0, promo |-> 0, reservedPaid |-> 0, reservedPromo |-> 0,
     debt |-> 0]

\* The deltas of an operation that holds nothing: reserved columns stay put.
BalanceDeltas(paid, promo, debt) ==
    [paid |-> paid, promo |-> promo, reservedPaid |-> 0, reservedPromo |-> 0,
     debt |-> debt]

-----------------------------------------------------------------------------
\* projectAccount: the next columns, and the condition under which the code
\* does not throw RangeError.
Projected(a, d) ==
    [paid          |-> a.paid + d.paid,
     promo         |-> a.promo + d.promo,
     reservedPaid  |-> a.reservedPaid + d.reservedPaid,
     reservedPromo |-> a.reservedPromo + d.reservedPromo,
     debt          |-> a.debt + d.debt]

Projectable(a, d) ==
    /\ a.paid + d.paid >= 0
    /\ a.promo + d.promo >= 0
    /\ a.reservedPaid + d.reservedPaid >= 0
    /\ a.reservedPromo + d.reservedPromo >= 0
    /\ a.debt + d.debt >= 0

-----------------------------------------------------------------------------
GrantDeltas(amount) == BalanceDeltas(0, amount, 0)

\* A payment repays debt before it becomes spendable.
CreditDeltas(a, amount) ==
    LET repaid == MinMicros(a.debt, amount)
    IN  BalanceDeltas(amount - repaid, 0, -repaid)

\* Variant: what is taken back is owed as well.
PaidReversalDeltasOwedTwice(a, amount) ==
    BalanceDeltas(-MinMicros(a.paid, amount), 0, amount)

\* A refund or dispute takes back paid balance, and the rest becomes debt.
PaidReversalDeltas(a, amount) ==
    LET taken == MinMicros(a.paid, amount)
    IN  BalanceDeltas(-taken, 0, amount - taken)

\* Variant: both parts of the credit repay the same debt.
UsageCreditDeltasOverRepaying(a, paidAmount, promoAmount) ==
    LET paidToDebt  == MinMicros(paidAmount, a.debt)
        promoToDebt == MinMicros(promoAmount, a.debt)
    IN  BalanceDeltas(paidAmount - paidToDebt, promoAmount - promoToDebt,
                      -(paidToDebt + promoToDebt))

\* An over-charged call is credited back: debt first, paid-origin money
\* before promotional-origin money, remainders to the bucket they came from.
UsageCreditDeltas(a, paidAmount, promoAmount) ==
    LET paidToDebt  == MinMicros(paidAmount, a.debt)
        promoToDebt == MinMicros(promoAmount, a.debt - paidToDebt)
    IN  BalanceDeltas(paidAmount - paidToDebt, promoAmount - promoToDebt,
                      -(paidToDebt + promoToDebt))

\* Variant: what the promotional balance does not cover is owed at once.
UsageDebitDeltasSkippingPaid(a, amount) ==
    LET promoDebit == MinMicros(a.promo, amount)
    IN  BalanceDeltas(0, -promoDebit, amount - promoDebit)

\* An under-charged call is debited: promotional, then paid, then debt.
UsageDebitDeltas(a, amount) ==
    LET promoDebit == MinMicros(a.promo, amount)
        paidDebit  == MinMicros(a.paid, amount - promoDebit)
    IN  BalanceDeltas(-paidDebit, -promoDebit,
                      amount - promoDebit - paidDebit)

DebtDeltas(amount) == BalanceDeltas(0, 0, amount)

-----------------------------------------------------------------------------
\* Variant: the whole promotional balance is held whatever the amount.
PromoShareUncapped(a, amount, promoAllowed) ==
    IF promoAllowed THEN a.promo ELSE 0

\* Reservations.  Only a call's reservation may take promotional money.
PromoShare(a, amount, promoAllowed) ==
    IF promoAllowed THEN MinMicros(a.promo, amount) ELSE 0

ReservableMicros(a, promoAllowed) ==
    a.paid + (IF promoAllowed THEN a.promo ELSE 0)

\* A hold of paidPart paid and promoPart promotional micros is taken ...
ReserveDeltas(paidPart, promoPart) ==
    [paid |-> -paidPart, promo |-> -promoPart,
     reservedPaid |-> paidPart, reservedPromo |-> promoPart, debt |-> 0]

\* ... and given back whole ...
ReleaseDeltas(paidPart, promoPart) ==
    [paid |-> paidPart, promo |-> promoPart,
     reservedPaid |-> -paidPart, reservedPromo |-> -promoPart, debt |-> 0]

\* Variant: an overage is collected from promo whatever the purpose.
SettleDeltasPromoForAll(a, paidPart, promoPart, promoAllowed, actual) ==
    LET promoSpent == MinMicros(promoPart, actual)
        paidSpent  == MinMicros(paidPart, actual - promoSpent)
        over       == actual - promoSpent - paidSpent
        promoDebit == MinMicros(a.promo, over)
        paidDebit  == MinMicros(a.paid, over - promoDebit)
    IN  [paid |-> paidPart - paidSpent - paidDebit,
         promo |-> promoPart - promoSpent - promoDebit,
         reservedPaid |-> -paidPart, reservedPromo |-> -promoPart,
         debt |-> over - promoDebit - paidDebit]

\* Variant: only the spent part of the hold leaves the reserved columns.
SettleDeltasPartialLift(a, paidPart, promoPart, promoAllowed, actual) ==
    LET promoSpent == MinMicros(promoPart, actual)
        paidSpent  == MinMicros(paidPart, actual - promoSpent)
    IN  [paid |-> 0, promo |-> 0,
         reservedPaid |-> -paidSpent, reservedPromo |-> -promoSpent,
         debt |-> actual - promoSpent - paidSpent]

\* ... or spent: promotional part first, then paid; what the hold does not
\* cover is collected from the balances and finally recorded as debt.
SettleDeltas(a, paidPart, promoPart, promoAllowed, actual) ==
    LET promoSpent == MinMicros(promoPart, actual)
        paidSpent  == MinMicros(paidPart, actual - promoSpent)
        over       == actual - promoSpent - paidSpent
        promoDebit == IF promoAllowed THEN MinMicros(a.promo, over) ELSE 0
        paidDebit  == MinMicros(a.paid, over - promoDebit)
    IN  [paid          |-> paidPart - paidSpent - paidDebit,
         promo         |-> promoPart - promoSpent - promoDebit,
         reservedPaid  |-> -paidPart,
         reservedPromo |-> -promoPart,
         debt          |-> over - promoDebit - paidDebit]
=============================================================================
