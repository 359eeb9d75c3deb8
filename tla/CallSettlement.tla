--------------------------- MODULE CallSettlement ---------------------------
(***************************************************************************)
(* What a telephony call finally costs: telephony-reconciliation.service.ts*)
(*                                                                         *)
(* While a call runs its wallet is charged an estimate.  When the provider *)
(* posts its price a reconciler replaces the estimate: it debits what is   *)
(* missing, or refunds what was too much to the buckets that funded the    *)
(* call.  Reconcilers overlap, crash, and take over stale claims.          *)
(*                                                                         *)
(* Abstractions: a call is charged by one hold and its settlement (how a   *)
(* call gets there is CallMetering); its final total, the measured usage   *)
(* plus the provider's posted price, is one number, fixed when it ends.    *)
(***************************************************************************)
EXTENDS LedgerDeltas, FiniteSets, Functions

CONSTANTS
    Calls,          \* the calls of one organization
    Reconcilers,    \* processes that run reconcileTelephonyCosts
    HoldMicros,     \* micros one call reserves
    Charges,        \* what a call's estimate, or its final total, may be
    Promo,          \* the promotional credit the organization was granted
    Deposits,       \* amounts of the payments it may make
    MaxDeposited,   \* bound: money paid in
    MaxCrashes,     \* bound: crashes of reconcilers
    NoCall          \* not a call

ASSUME CallsAreDistinct == IsFiniteSet(Calls) /\ NoCall \notin Calls
ASSUME AmountsAreMicros ==
    /\ Charges \subseteq Nat /\ Deposits \subseteq Nat \ {0}
    /\ {HoldMicros, Promo, MaxDeposited, MaxCrashes} \subseteq Nat

VARIABLES
    account,    \* the BillingAccount row
    deposited,  \* what has been paid in
    session,    \* the CallBillingSession row of each call
    hold,       \* the paid and promotional part of each call's hold
    funding,    \* what each call's settlement took from each bucket
    adjusted,   \* the provider-final adjustment of each call, once made
    proc,       \* what each reconciler is doing
    crashes

vars == <<account, deposited, session, hold, funding, adjusted, proc, crashes>>

Positive(n) == IF n > 0 THEN n ELSE 0
Idle == [pc |-> "idle", call |-> NoCall, total |-> 0, debt |-> FALSE]
NoFunding == [paid |-> 0, promo |-> 0, debt |-> 0]

Init ==
    /\ account = [EmptyAccount EXCEPT !.promo = Promo]
    /\ deposited = 0
    /\ \E final \in [Calls -> Charges] :
          session = [c \in Calls |-> [status |-> "NEW", total |-> 0,
                                      final |-> final[c], claimed |-> FALSE,
                                      stale |-> FALSE]]
    /\ hold = [c \in Calls |-> NoFunding]
    /\ funding = [c \in Calls |-> NoFunding]
    /\ adjusted = [c \in Calls |-> "NO"]
    /\ proc = [q \in Reconcilers |-> Idle]
    /\ crashes = 0

-----------------------------------------------------------------------------
(* The wallet's other traffic.                                             *)

\* creditPaidBalance: a payment repays debt first.
Pay(amount) ==
    /\ deposited + amount <= MaxDeposited
    /\ deposited' = deposited + amount
    /\ account' = Projected(account, CreditDeltas(account, amount))
    /\ UNCHANGED <<session, hold, funding, adjusted, proc, crashes>>

\* reserveUsageCredit for a new call.
Admit(c) ==
    LET promoPart == PromoShare(account, HoldMicros, TRUE)
    IN  /\ session[c].status = "NEW"
        /\ account.debt = 0
        /\ ReservableMicros(account, TRUE) >= HoldMicros
        /\ account' = Projected(account, ReserveDeltas(HoldMicros - promoPart, promoPart))
        /\ hold' = [hold EXCEPT ![c] = [NoFunding EXCEPT !.paid = HoldMicros - promoPart,
                                                         !.promo = promoPart]]
        /\ session' = [session EXCEPT ![c].status = "ACTIVE"]
        /\ UNCHANGED <<deposited, funding, adjusted, proc, crashes>>

\* The call ends: its hold is settled with the estimate, and the row tells
\* what it took from each bucket (callFundingSources reads it there).
End(c, estimate) ==
    LET d == SettleDeltas(account, hold[c].paid, hold[c].promo, TRUE, estimate)
    IN  /\ session[c].status = "ACTIVE"
        /\ account' = Projected(account, d)
        /\ funding' = [funding EXCEPT ![c] =
                          [paid  |-> Positive(-d.reservedPaid - d.paid),
                           promo |-> Positive(-d.reservedPromo - d.promo),
                           debt  |-> Positive(d.debt)]]
        /\ session' = [session EXCEPT ![c].status = "RECONCILING",
                                      ![c].total = estimate]
        /\ UNCHANGED <<deposited, hold, adjusted, proc, crashes>>

-----------------------------------------------------------------------------
(* Reconciliation.                                                         *)

\* Variant: only calls that ended owing more than they had held come back.
PromoteOwnDebt(c) ==
    /\ session[c].status = "DEBT"
    /\ funding[c].debt > 0
    /\ session' = [session EXCEPT ![c].status = "RECONCILING"]
    /\ UNCHANGED <<account, deposited, hold, funding, adjusted, proc, crashes>>

\* promoteEndedDebtSessionsForReconciliation.
PromoteEndedDebt(c) ==
    /\ session[c].status = "DEBT"
    /\ session' = [session EXCEPT ![c].status = "RECONCILING"]
    /\ UNCHANGED <<account, deposited, hold, funding, adjusted, proc, crashes>>

\* The session is read with the candidates, before it is claimed.
ReadCandidate(q, c) ==
    /\ proc[q].pc = "idle"
    /\ session[c].status = "RECONCILING"
    /\ proc' = [proc EXCEPT ![q] = [Idle EXCEPT !.pc = "claim", !.call = c,
                                                !.total = session[c].total]]
    /\ UNCHANGED <<account, deposited, session, hold, funding, adjusted, crashes>>

\* Variant: a claim is never taken over.
ClaimUnheld(q) ==
    LET c == proc[q].call
        wins == session[c].status = "RECONCILING" /\ ~session[c].claimed
    IN  /\ proc[q].pc = "claim"
        /\ session' = IF wins THEN [session EXCEPT ![c].claimed = TRUE] ELSE session
        /\ proc' = [proc EXCEPT ![q] = IF wins THEN [@ EXCEPT !.pc = "adjust"] ELSE Idle]
        /\ UNCHANGED <<account, deposited, hold, funding, adjusted, crashes>>

\* claimSession.
Claim(q) ==
    LET c == proc[q].call
        wins == /\ session[c].status = "RECONCILING"
                /\ ~session[c].claimed \/ session[c].stale
    IN  /\ proc[q].pc = "claim"
        /\ session' = IF wins THEN [session EXCEPT ![c].claimed = TRUE,
                                                   ![c].stale = FALSE]
                      ELSE session
        /\ proc' = [proc EXCEPT ![q] = IF wins THEN [@ EXCEPT !.pc = "adjust"] ELSE Idle]
        /\ UNCHANGED <<account, deposited, hold, funding, adjusted, crashes>>

\* retrySession: the provider has no price yet, or a step failed.
Retry(q) ==
    LET c == proc[q].call
    IN  /\ proc[q].pc = "adjust"
        /\ session' = IF session[c].status = "RECONCILING"
                      THEN [session EXCEPT ![c].claimed = FALSE, ![c].stale = FALSE]
                      ELSE session
        /\ proc' = [proc EXCEPT ![q] = Idle]
        /\ UNCHANGED <<account, deposited, hold, funding, adjusted, crashes>>

\* Variant: a refund is paid-origin whatever funded the call.
AllocateUsageRefundPaidOnly(refund, from) == [paid |-> refund, promo |-> 0]

\* allocateUsageRefund: what was owed or paid comes back before what was
\* promotional.
AllocateUsageRefund(refund, from) ==
    LET paid == MinMicros(refund, from.debt + from.paid)
    IN  [paid |-> paid, promo |-> refund - paid]

\* The adjustment has one idempotency key per call.
AdjustmentDeltas(c, difference) ==
    IF difference > 0 THEN UsageDebitDeltas(account, difference)
    ELSE LET refund == AllocateUsageRefund(-difference, funding[c])
         IN  UsageCreditDeltas(account, refund.paid, refund.promo)

\* Variant: every attempt adjusts again.
AdjustEveryTime(q) ==
    LET c == proc[q].call
        difference == session[c].final - proc[q].total
    IN  /\ proc[q].pc = "adjust"
        /\ adjusted' = [adjusted EXCEPT ![c] = "YES"]
        /\ account' = Projected(account, AdjustmentDeltas(c, difference))
        /\ proc' = [proc EXCEPT ![q] = [@ EXCEPT !.pc = "finish",
                                                 !.debt = account'.debt > 0]]
        /\ UNCHANGED <<deposited, session, hold, funding, crashes>>

\* finalizeProviderCost, the wallet transaction: nothing to do, done before
\* by this or another reconciler, or done now.
Adjust(q) ==
    LET c == proc[q].call
        difference == session[c].final - proc[q].total
        replays == difference = 0 \/ adjusted[c] = "YES"
    IN  /\ proc[q].pc = "adjust"
        /\ adjusted' = IF replays THEN adjusted ELSE [adjusted EXCEPT ![c] = "YES"]
        /\ account' = IF replays THEN account
                      ELSE Projected(account, AdjustmentDeltas(c, difference))
        /\ proc' = [proc EXCEPT ![q] = [@ EXCEPT !.pc = "finish",
                                                 !.debt = account'.debt > 0]]
        /\ UNCHANGED <<deposited, session, hold, funding, crashes>>

\* finalizeProviderCost, the session.  Losing the claim to one who finished
\* is fine; otherwise the error path drops the claim.
Finish(q) ==
    LET c == proc[q].call
    IN  /\ proc[q].pc = "finish"
        /\ session' = IF session[c].status = "RECONCILING"
                      THEN [session EXCEPT
                               ![c].status = IF proc[q].debt THEN "DEBT" ELSE "SETTLED",
                               ![c].total = session[c].final,
                               ![c].claimed = FALSE, ![c].stale = FALSE]
                      ELSE session
        /\ proc' = [proc EXCEPT ![q] = Idle]
        /\ UNCHANGED <<account, deposited, hold, funding, adjusted, crashes>>

\* CLAIM_STALE_MS passes.
ClaimAges(c) ==
    /\ session[c].claimed /\ ~session[c].stale
    /\ session' = [session EXCEPT ![c].stale = TRUE]
    /\ UNCHANGED <<account, deposited, hold, funding, adjusted, proc, crashes>>

Crash(q) ==
    /\ proc[q].pc # "idle"
    /\ crashes < MaxCrashes
    /\ crashes' = crashes + 1
    /\ proc' = [proc EXCEPT ![q] = Idle]
    /\ UNCHANGED <<account, deposited, session, hold, funding, adjusted>>

Reconcile(q) ==
    \/ \E c \in Calls : ReadCandidate(q, c)
    \/ Claim(q) \/ Retry(q) \/ Adjust(q) \/ Finish(q)

Next ==
    \/ \E amount \in Deposits : Pay(amount)
    \/ \E c \in Calls :
          \/ Admit(c)
          \/ \E estimate \in Charges : End(c, estimate)
          \/ PromoteEndedDebt(c)
          \/ ClaimAges(c)
    \/ \E q \in Reconcilers : Reconcile(q) \/ Crash(q)

Spec == Init /\ [][Next]_vars

\* The cron job runs for ever, and a provider eventually posts the price of
\* each call.
Fairness ==
    /\ \A q \in Reconcilers :
          /\ WF_vars(Claim(q)) /\ WF_vars(Finish(q))
          /\ \A c \in Calls : /\ SF_vars(ReadCandidate(q, c))
                              /\ SF_vars(proc[q].call = c /\ Adjust(q))
    /\ \A c \in Calls : WF_vars(ClaimAges(c)) /\ WF_vars(PromoteEndedDebt(c))

FairSpec == Spec /\ Fairness

-----------------------------------------------------------------------------
(* Properties.                                                             *)

\* The five columns never go negative, and every row is well formed.
TypeOK ==
    /\ account \in Accounts
    /\ deposited \in 0..MaxDeposited
    /\ session \in [Calls -> [status : {"NEW", "ACTIVE", "RECONCILING", "SETTLED", "DEBT"},
                              total : Nat, final : Charges,
                              claimed : BOOLEAN, stale : BOOLEAN]]
    /\ hold \in [Calls -> [paid : Nat, promo : Nat, debt : Nat]]
    /\ funding \in [Calls -> [paid : Nat, promo : Nat, debt : Nat]]
    /\ adjusted \in [Calls -> {"NO", "YES"}]
    /\ proc \in [Reconcilers -> [pc : {"idle", "claim", "adjust", "finish"},
                                 call : Calls \cup {NoCall}, total : Nat,
                                 debt : BOOLEAN]]
    /\ crashes \in 0..MaxCrashes

Finalized(c) == session[c].status \in {"SETTLED", "DEBT"}

\* What call c has cost its organization so far.
Cost(c) == IF adjusted[c] = "YES" /\ ~Finalized(c) THEN session[c].final
           ELSE session[c].total

\* However often a finalization is repeated, overtaken or cut short, the
\* wallet is charged, in all, what the sessions show: an estimate until the
\* adjustment is posted, the provider-final total from then on
\* (finalizeProviderCost).
WalletPaysSessionTotals ==
    account.paid + account.promo + account.reservedPaid + account.reservedPromo
        - account.debt
      = Promo + deposited - SumFunction([c \in Calls |-> Cost(c)])

\* The paid balance, which alone may buy numbers, never exceeds what was paid
\* in: no refund of usage turns promotional credit into paid credit
\* (creditUsageAdjustment, "promo can never become number-eligible paid
\* credit").
PaidCreditWasPaid == account.paid + account.reservedPaid <= deposited

\* That much holds at least until a call has ended owing money while the
\* organization made another one (allocateUsageRefund counts what a call owed
\* as paid, whatever repaid it since).
RefundsKeepBuckets ==
    \/ \E c, d \in Calls : /\ c # d
                           /\ funding[c].debt > 0 /\ session[d].status # "NEW"
    \/ PaidCreditWasPaid

\* A call that waits for the provider's price gets it, although reconcilers
\* crash and leave their claims behind.
EveryCallIsFinalized ==
    \A c \in Calls : session[c].status = "RECONCILING" ~> Finalized(c)

\* The DEBT mark of a call follows the account, which other calls indebt as
\* well: once the organization stays out of debt every ended call becomes
\* SETTLED, for good (promoteEndedDebtSessionsForReconciliation).
DebtMarksClear ==
    <>[](account.debt = 0) =>
        \A c \in Calls : session[c].status = "RECONCILING" ~> [](session[c].status = "SETTLED")
=============================================================================
