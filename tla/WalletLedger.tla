---------------------------- MODULE WalletLedger ----------------------------
(***************************************************************************)
(* The wallet of one organization: apps/server/src/modules/billing/        *)
(* wallet-ledger.service.ts.                                               *)
(*                                                                         *)
(* Every public method of WalletLedgerService is one Serializable          *)
(* transaction, retried on conflict, so it is one action here.  A method   *)
(* that throws (RangeError, InsufficientCreditError, ReservationStateError,*)
(* IdempotencyConflictError) or that finds its own idempotency key already *)
(* on the ledger changes nothing: those outcomes are the negations of the  *)
(* guards below and the steps that take them are stuttering steps.         *)
(*                                                                         *)
(* An idempotency key is namespaced by the operation (operationKey), so a  *)
(* ledger row is identified by the pair <<op, key>>.                       *)
(***************************************************************************)
EXTENDS LedgerDeltas, Sequences, FiniteSetsExt

CONSTANTS
    Keys,       \* idempotency keys a caller may choose
    Amounts,    \* amounts in micros a caller may pass
    NoRef,      \* reference of a row that is not about a reservation
    MaxRows     \* bound: rows on the ledger

ASSUME AmountsArePositive == Amounts \subseteq Nat \ {0}
ASSUME RefsAreDistinct == NoRef \notin Keys
ASSUME RowsAreBounded == MaxRows \in Nat

VARIABLES
    account,    \* the BillingAccount row
    ledger,     \* the BillingTransaction rows in commit order
    holds       \* the BillingReservation row of each reservation key

vars == <<account, ledger, holds>>

-----------------------------------------------------------------------------
\* PHONE_NUMBER stands for PHONE_NUMBER_PURCHASE and PHONE_NUMBER_RENEWAL,
\* which the ledger treats alike but for the type it writes on the row.
CallUsage == "CALL_USAGE"
PhoneNumber == "PHONE_NUMBER"
Purposes == {CallUsage, PhoneNumber}

Statuses == {"NONE", "ACTIVE", "SETTLED", "RELEASED"}

Ops == {"promotion", "credit", "paid-reversal", "usage-adjustment",
        "usage-adjustment-debit", "debt", "reserve", "settle", "release"}

HoldOps == {"reserve", "settle", "release"}
ClosingOps == {"settle", "release"}

Holds == [status: Statuses, purpose: Purposes, paid: Nat, promo: Nat,
          expired: BOOLEAN, settled: Nat, debtIncurred: Nat]

Rows == [op: Ops, key: Keys, ref: Keys \cup {NoRef}, gross: Nat,
         delta: Deltas, after: Accounts]

NoHold ==
    [status |-> "NONE", purpose |-> CallUsage, paid |-> 0, promo |-> 0,
     expired |-> FALSE, settled |-> 0, debtIncurred |-> 0]

HoldAmount(h) == h.paid + h.promo
PromoAllowed(purpose) == purpose = CallUsage

TypeOK ==
    /\ account \in Accounts
    /\ ledger \in Seq(Rows)
    /\ holds \in [Keys -> Holds]

Init ==
    /\ account = EmptyAccount
    /\ ledger = <<>>
    /\ holds = [k \in Keys |-> NoHold]

-----------------------------------------------------------------------------
\* findIdempotentTransaction: is this operation already on the ledger?
Recorded(op, key) ==
    \E i \in DOMAIN ledger : ledger[i].op = op /\ ledger[i].key = key

\* Variant: the row is written from the account read before the update.
PostStaleBalances(op, key, ref, gross, delta) ==
    /\ Len(ledger) < MaxRows
    /\ Projectable(account, delta)
    /\ account' = Projected(account, delta)
    /\ ledger' = Append(ledger, [op |-> op, key |-> key, ref |-> ref,
                                 gross |-> gross, delta |-> delta,
                                 after |-> account])

\* projectAccount, updateAccount and createLedgerTransaction, in that order:
\* refuse a negative column, move the account, append the row with the
\* deltas and the balances after them.
Post(op, key, ref, gross, delta) ==
    /\ Len(ledger) < MaxRows
    /\ Projectable(account, delta)
    /\ account' = Projected(account, delta)
    /\ ledger' = Append(ledger, [op |-> op, key |-> key, ref |-> ref,
                                 gross |-> gross, delta |-> delta,
                                 after |-> Projected(account, delta)])

\* One promotional grant per organization, whichever user claims it.
GrantSignupPromotionalCredit(user, amount) ==
    /\ \A i \in DOMAIN ledger : ledger[i].op # "promotion"
    /\ Post("promotion", user, NoRef, amount, GrantDeltas(amount))
    /\ UNCHANGED holds

CreditPaidBalance(key, amount) ==
    /\ ~Recorded("credit", key)
    /\ Post("credit", key, NoRef, amount, CreditDeltas(account, amount))
    /\ UNCHANGED holds

DebitPaidBalance(key, amount) ==
    /\ ~Recorded("paid-reversal", key)
    /\ Post("paid-reversal", key, NoRef, amount,
            PaidReversalDeltas(account, amount))
    /\ UNCHANGED holds

CreditUsageAdjustment(key, paidAmount, promoAmount) ==
    /\ paidAmount + promoAmount > 0
    /\ ~Recorded("usage-adjustment", key)
    /\ Post("usage-adjustment", key, NoRef, paidAmount + promoAmount,
            UsageCreditDeltas(account, paidAmount, promoAmount))
    /\ UNCHANGED holds

DebitUsageAdjustment(key, amount) ==
    /\ ~Recorded("usage-adjustment-debit", key)
    /\ Post("usage-adjustment-debit", key, NoRef, amount,
            UsageDebitDeltas(account, amount))
    /\ UNCHANGED holds

RecordOutstandingDebt(key, amount) ==
    /\ ~Recorded("debt", key)
    /\ Post("debt", key, NoRef, amount, DebtDeltas(amount))
    /\ UNCHANGED holds

-----------------------------------------------------------------------------
\* reserveCredit, a key seen for the first time.
ReserveCredit(key, purpose, amount) ==
    LET promoPart == PromoShare(account, amount, PromoAllowed(purpose))
        paidPart  == amount - promoPart
    IN  /\ holds[key].status = "NONE"
        /\ account.debt = 0
        /\ ReservableMicros(account, PromoAllowed(purpose)) >= amount
        /\ Post("reserve", key, key, amount, ReserveDeltas(paidPart, promoPart))
        /\ holds' = [holds EXCEPT ![key] =
                        [NoHold EXCEPT !.status = "ACTIVE",
                                       !.purpose = purpose,
                                       !.paid = paidPart,
                                       !.promo = promoPart]]

\* reserveCredit, a retry that finds its own hold active but expired: renewed
\* when the retry carries a fresh expiresAt, refused (no change) otherwise.
RenewReservation(key) ==
    /\ holds[key].status = "ACTIVE"
    /\ holds[key].expired
    /\ holds' = [holds EXCEPT ![key].expired = FALSE]
    /\ UNCHANGED <<account, ledger>>

\* Variant: the reservation row stores at most what it held.
SettleReservationCapped(key, hold, actual) ==
    LET h     == holds[hold]
        delta == SettleDeltas(account, h.paid, h.promo,
                              PromoAllowed(h.purpose), actual)
    IN  /\ ~Recorded("settle", key)
        /\ h.status = "ACTIVE"
        /\ Post("settle", key, hold, actual, delta)
        /\ holds' = [holds EXCEPT ![hold] =
                        [h EXCEPT !.status = "SETTLED",
                                  !.settled = MinMicros(actual, HoldAmount(h)),
                                  !.debtIncurred = delta.debt]]

\* settleReservation: the caller's key is its own, the reservation is named
\* by id, so two settlements of one reservation may carry different keys.
SettleReservation(key, hold, actual) ==
    LET h     == holds[hold]
        delta == SettleDeltas(account, h.paid, h.promo,
                              PromoAllowed(h.purpose), actual)
    IN  /\ ~Recorded("settle", key)
        /\ h.status = "ACTIVE"
        /\ Post("settle", key, hold, actual, delta)
        /\ holds' = [holds EXCEPT ![hold] =
                        [h EXCEPT !.status = "SETTLED",
                                  !.settled = actual,
                                  !.debtIncurred = delta.debt]]

\* releaseReservation: by a caller that gives up, or by the expiry sweeper.
ReleaseReservation(key, hold) ==
    LET h == holds[hold]
    IN  /\ ~Recorded("release", key)
        /\ h.status = "ACTIVE"
        /\ Post("release", key, hold, HoldAmount(h),
                ReleaseDeltas(h.paid, h.promo))
        /\ holds' = [holds EXCEPT ![hold].status = "RELEASED"]

\* The clock passes a hold's expiresAt (a hold created without one stays in
\* the behaviours where this step is not taken).
PassExpiry(key) ==
    /\ holds[key].status = "ACTIVE"
    /\ ~holds[key].expired
    /\ holds' = [holds EXCEPT ![key].expired = TRUE]
    /\ UNCHANGED <<account, ledger>>

MoveMoney ==
    \E key \in Keys, amount \in Amounts :
        \/ GrantSignupPromotionalCredit(key, amount)
        \/ CreditPaidBalance(key, amount)
        \/ DebitPaidBalance(key, amount)
        \/ DebitUsageAdjustment(key, amount)
        \/ RecordOutstandingDebt(key, amount)

AdjustUsage ==
    \E key \in Keys, paidAmount, promoAmount \in Amounts \cup {0} :
        CreditUsageAdjustment(key, paidAmount, promoAmount)

UseHold ==
    \E key \in Keys :
        \/ \E purpose \in Purposes, amount \in Amounts :
              ReserveCredit(key, purpose, amount)
        \/ \E hold \in Keys, actual \in Amounts \cup {0} :
              SettleReservation(key, hold, actual)
        \/ \E hold \in Keys : ReleaseReservation(key, hold)
        \/ RenewReservation(key)
        \/ PassExpiry(key)

Next == MoveMoney \/ AdjustUsage \/ UseHold

Spec == Init /\ [][Next]_vars

-----------------------------------------------------------------------------
(* What the wallet promises.                                               *)

\* The ledger is a full audit trail of the account: every row's balances are
\* the previous row's plus its deltas, and the account is where the last row
\* left it (updateAccount and createLedgerTransaction never disagree).
BalancesBefore(i) == IF i = 1 THEN EmptyAccount ELSE ledger[i - 1].after

LedgerReplays ==
    /\ account = BalancesBefore(Len(ledger) + 1)
    /\ \A i \in DOMAIN ledger :
          ledger[i].after = Projected(BalancesBefore(i), ledger[i].delta)

\* A reservation's rows tell exactly one story: one row opened it, at most
\* one row closed it, the closing row undoes the opening row's reserved
\* columns to the micro, and the reservation row's status, settled amount and
\* debt are those of the closing row.  Two settlements under different keys,
\* or a settlement racing the sweeper's release, can not both succeed.
RowsOf(k, ops) == {i \in DOMAIN ledger : ledger[i].op \in ops /\ ledger[i].ref = k}

ClosedAs(h, row) ==
    /\ row.delta.reservedPaid = -h.paid
    /\ row.delta.reservedPromo = -h.promo
    /\ \/ /\ row.op = "release" /\ h.status = "RELEASED"
          /\ row.gross = HoldAmount(h)
       \/ /\ row.op = "settle" /\ h.status = "SETTLED"
          /\ row.gross = h.settled
          /\ row.delta.debt = h.debtIncurred

HoldStory(k) ==
    LET opened == RowsOf(k, {"reserve"})
        closed == RowsOf(k, ClosingOps)
    IN  /\ \A i, j \in opened : i = j
        /\ \A i, j \in closed : i = j
        /\ holds[k].status = "NONE" <=> opened = {}
        /\ holds[k].status \in {"NONE", "ACTIVE"} <=> closed = {}
        /\ \A i \in opened : /\ ledger[i].delta.reservedPaid = holds[k].paid
                              /\ ledger[i].delta.reservedPromo = holds[k].promo
        /\ \A i \in closed : ClosedAs(holds[k], ledger[i])

OneOutcomePerHold == \A k \in Keys : HoldStory(k)

\* Debt is the last resort: a row that adds debt leaves no paid balance, and
\* if it charges call usage no promotional balance either.  (The exception is
\* recordOutstandingDebt, which only records debt.)  And a row that repays
\* debt leaves nothing it could have repaid with.
LeavesNoPromo(row) ==
    \/ row.op = "usage-adjustment-debit"
    \/ row.op = "settle" /\ holds[row.ref].purpose = CallUsage

LastResort(row) ==
    /\ row.delta.debt > 0 /\ row.op # "debt" =>
          /\ row.after.paid = 0
          /\ LeavesNoPromo(row) => row.after.promo = 0
    /\ /\ row.op \in {"credit", "usage-adjustment"}
       /\ row.delta.paid > 0 \/ row.delta.promo > 0
       => row.after.debt = 0

DebtIsLastResort == \A i \in DOMAIN ledger : LastResort(ledger[i])

\* A phone number is never paid for with promotional money: no row of a
\* number reservation, from the hold through an over-spent settlement,
\* touches a promotional column.
SparesPromo(row) ==
    row.op \in HoldOps /\ holds[row.ref].purpose # CallUsage =>
        row.delta.promo = 0 /\ row.delta.reservedPromo = 0

NumbersNeverSpendPromo == \A i \in DOMAIN ledger : SparesPromo(ledger[i])

\* The reserved columns of the account are exactly the sum of the active
\* reservations, column by column: no hold is orphaned when its reservation
\* closes, and no reserved micro stays without a reservation to return it.
\* This is what makes settleReservation and releaseReservation safe from
\* projectAccount's RangeError.
ActiveHolds == {k \in Keys : holds[k].status = "ACTIVE"}
PaidHeld(rows, keys) == MapThenSumSet(LAMBDA k : rows[k].paid, keys)
PromoHeld(rows, keys) == MapThenSumSet(LAMBDA k : rows[k].promo, keys)

HoldsBackReservedColumns ==
    /\ account.reservedPaid = PaidHeld(holds, ActiveHolds)
    /\ account.reservedPromo = PromoHeld(holds, ActiveHolds)

-----------------------------------------------------------------------------
\* The wallet implements the escrow account: the five columns are one signed
\* balance, every reservation is opened within it and closed once, and every
\* operation moves it by exactly its amount.
FreeMicros(a) == a.paid + a.promo - a.debt
Escrowed(h) == IF h.status = "ACTIVE" THEN HoldAmount(h) ELSE 0

Escrow == INSTANCE WalletEscrow WITH
    free   <- FreeMicros(account),
    phase  <- [k \in Keys |-> holds[k].status],
    escrow <- [k \in Keys |-> Escrowed(holds[k])]

ImplementsEscrow == Escrow!Spec
=============================================================================
