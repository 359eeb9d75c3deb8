----------------------------- MODULE StripeTopUp -----------------------------
(***************************************************************************)
(* One top-up of a wallet through Stripe: apps/server/src/modules/billing/ *)
(* stripe-wallet.service.ts and stripe-wallet-state.ts.                    *)
(*                                                                         *)
(* The TopUp row is worked on by webhook handlers, the reload's own        *)
(* confirmation, checkout requests and the maintenance sweep; each is a    *)
(* worker whose database transactions and Stripe calls are separate steps. *)
(* Stripe itself (the payment, its refunds, a dispute, the events it       *)
(* delivers at least once and in any order) is external.                   *)
(*                                                                         *)
(* A token in the code is a random UUID: here it is the worker that drew   *)
(* it, or Dead when that worker died.  A lease expires long after its      *)
(* holder should be done: it is taken over when the holder is dead or, if  *)
(* Stalls, at any time.                                                    *)
(***************************************************************************)
EXTENDS LedgerDeltas, TLC

CONSTANTS
    Workers,        \* processes of the server
    Kinds,          \* subset of {"MANUAL", "AUTOMATIC"}
    Amount,         \* principal the top-up credits
    Tax,            \* tax the customer pays on top
    RefundCents,    \* cumulative refunds Stripe may report, tax included
    DisputeCents,   \* what a dispute is about, tax included
    MaxAttempts,    \* rounds of one reconciliation
    Stalls,         \* whether workers may outlive their leases
    MaxFaults,      \* bound: errors and deaths of workers
    MaxMoves,       \* bound: refunds and moves of the dispute at Stripe
    None, Dead

ASSUME AmountIsPositive == Amount \in Nat \ {0} /\ Tax \in Nat
ASSUME CentsAreCounts == RefundCents \subseteq Nat \ {0} /\ DisputeCents \in Nat \ {0}
ASSUME BoundsAreCounts == MaxAttempts \in Nat /\ MaxFaults \in Nat /\ MaxMoves \in Nat
ASSUME TokensDiffer == None # Dead /\ None \notin Workers /\ Dead \notin Workers

VARIABLES
    topUp,      \* the TopUp row
    posted,     \* the ledger rows about it: key and amount
    book,       \* their sums by reference type
    stripe,     \* the payment at Stripe
    webhook,    \* the StripeWebhookEvent row of each event
    proc,       \* local state of each worker
    faults      \* errors and deaths so far

vars == <<topUp, posted, book, stripe, webhook, proc, faults>>

Success == <<"succeeded", 0>>
Failure == <<"failed", 0>>
Refunded(cents) == <<"refunded", cents>>
DisputeIs(state) == <<"dispute", state>>

Events == {Success, Failure} \cup {Refunded(c) : c \in RefundCents}
          \cup {DisputeIs(s) : s \in {"OPEN", "WON", "LOST"}}

Idle == [pc |-> "idle"]

Init ==
    /\ \E kind \in Kinds :
          topUp = [kind |-> kind, status |-> "NONE", credited |-> 0, refunded |-> 0,
                   disputed |-> 0, refundTarget |-> 0, disputeTarget |-> 0,
                   disputeState |-> "NONE", pending |-> FALSE,
                   lease |-> None, processing |-> None]
    /\ posted = {}
    /\ book = [credited |-> 0, refunded |-> 0, debited |-> 0, released |-> 0]
    /\ stripe = [intent |-> "none", refunded |-> 0, dispute |-> "NONE", moves |-> 0]
    /\ webhook = [e \in Events |-> [status |-> "NONE", owner |-> None]]
    /\ proc = [w \in Workers |-> Idle]
    /\ faults = 0

At(w, pc) == proc[w].pc = pc
Goto(w, local) == proc' = [proc EXCEPT ![w] = local]
Jump(w, pc) == Goto(w, [proc[w] EXCEPT !.pc = pc])

\* A token column is free, or expired.
Takeable(token) == token \in {None, Dead} \/ Stalls

Emit(e) == webhook' = [webhook EXCEPT ![e].status = "RECEIVED"]

-----------------------------------------------------------------------------
(* Arithmetic of refunds and disputes.                                     *)

\* Variant: the provider's amount is taken for principal.
ShareWithTax(cents) == cents

\* principalShareMicros: the provider reports amounts with tax.
Share(cents) == MinMicros((cents * Amount) \div (Amount + Tax), Amount)

\* mergeDisputeState: a late "open" does not reopen a closed dispute.
MergedDispute(current, incoming) ==
    IF current \in {"WON", "LOST"} THEN current ELSE incoming

\* Variant: a dispute holds its share whatever has been refunded.
TargetsUncapped(row) ==
    [refunded |-> Share(row.refundTarget),
     disputed |-> IF row.disputeState \in {"OPEN", "LOST"}
                  THEN Share(row.disputeTarget) ELSE 0]

\* financialPrincipalTargets.
Targets(row) ==
    LET refunded == Share(row.refundTarget)
    IN  [refunded |-> refunded,
         disputed |-> IF row.disputeState \in {"OPEN", "LOST"}
                      THEN MinMicros(Share(row.disputeTarget), Amount - refunded)
                      ELSE 0]

\* financialTopUpStatus.
FinancialStatus(refunded, disputed) ==
    CASE disputed > 0       -> "DISPUTED"
      [] disputed = 0 /\ refunded >= Amount -> "REFUNDED"
      [] disputed = 0 /\ refunded \in 1..(Amount - 1) -> "PARTIALLY_REFUNDED"
      [] OTHER              -> "SUCCEEDED"

\* financialLedgerProgress over the sums b.
Progress(b) ==
    [refunded |-> b.refunded,
     disputed |-> IF b.debited > b.released THEN b.debited - b.released ELSE 0]

\* A wallet posting under an idempotency key: written once, replayed without
\* effect.  A replay with another amount throws and posts nothing either: a
\* reconciliation that met one could never finish, which WalletFollowsStripe
\* would notice.
Post(key, column, amount) ==
    IF \E row \in posted : row.key = key
    THEN UNCHANGED <<posted, book>>
    ELSE /\ posted' = posted \cup {[key |-> key, amount |-> amount]}
         /\ book' = [book EXCEPT ![column] = @ + amount]

-----------------------------------------------------------------------------
(* Creation: createTopUpCheckout, triggerAutoRecharge.                     *)

RequestCheckout(w) ==
    /\ At(w, "idle")
    /\ topUp.kind = "MANUAL" /\ topUp.credited = 0
    /\ topUp' = [topUp EXCEPT !.status = IF @ = "NONE" THEN "PENDING" ELSE @]
    /\ Goto(w, [pc |-> "checkout"])
    /\ UNCHANGED <<posted, book, stripe, webhook, faults>>

\* The session is created under the request's key, so all requests share it.
\* Any error, also one after its creation, is answered by a plain update.
CreateCheckout(w) ==
    /\ At(w, "checkout")
    /\ stripe' \in {stripe, [stripe EXCEPT !.intent = IF @ = "none" THEN "open" ELSE @]}
    /\ \/ /\ stripe'.intent # "none"
          /\ Goto(w, Idle)
          /\ UNCHANGED <<topUp, faults>>
       \/ /\ faults < MaxFaults
          /\ faults' = faults + 1
          /\ Goto(w, Idle)
          /\ topUp' = [topUp EXCEPT !.status = "FAILED"]
    /\ UNCHANGED <<posted, book, webhook>>

\* The partial unique index admits one pending reload; its context one ever.
TriggerAutoRecharge(w) ==
    /\ At(w, "idle")
    /\ topUp.kind = "AUTOMATIC" /\ topUp.status = "NONE"
    /\ topUp' = [topUp EXCEPT !.status = "PENDING"]
    /\ UNCHANGED <<posted, book, stripe, webhook, proc, faults>>

-----------------------------------------------------------------------------
(* confirmAutomaticTopUp, by the request that triggered it or the sweep.   *)

ClaimConfirmation(w) ==
    /\ At(w, "idle")
    /\ topUp.kind = "AUTOMATIC" /\ topUp.status = "PENDING"
    /\ Takeable(topUp.processing)
    /\ topUp' = [topUp EXCEPT !.processing = w]
    /\ Goto(w, [pc |-> "confirm", event |-> None])
    /\ UNCHANGED <<posted, book, stripe, webhook, faults>>

\* The payment is created, once per top-up, or fetched.  The answer shows it
\* as it is or, replayed, as it was when it was created.
ConfirmPayment(w) ==
    /\ At(w, "confirm")
    /\ IF stripe.intent = "none"
       THEN \E outcome \in {"open", "succeeded", "failed"} :
               /\ stripe' = [stripe EXCEPT !.intent = outcome]
               /\ CASE outcome = "succeeded" -> Emit(Success)
                    [] outcome = "failed"    -> Emit(Failure)
                    [] OTHER                 -> UNCHANGED webhook
       ELSE UNCHANGED <<stripe, webhook>>
    /\ \E answer \in {stripe'.intent} \cup
                     (IF stripe.intent = "none" THEN {} ELSE {"open"}) :
          Goto(w, [pc |-> "answered", event |-> None, answer |-> answer])
    /\ UNCHANGED <<topUp, posted, book, faults>>

\* No answer, though the payment may have been created: the reload is tried
\* again if isRetryableStripeError, and fails otherwise.
ConfirmationFails(w) ==
    /\ At(w, "confirm")
    /\ faults < MaxFaults
    /\ faults' = faults + 1
    /\ stripe' \in {stripe, [stripe EXCEPT !.intent = IF @ = "none" THEN "open" ELSE @]}
    /\ \E answer \in {"open", "failed"} :
          Goto(w, [pc |-> "answered", event |-> None, answer |-> answer])
    /\ UNCHANGED <<topUp, posted, book, webhook>>

\* reconcileAutomaticPaymentIntent, and the catch of confirmAutomaticTopUp.
ApplyConfirmation(w) ==
    LET failed == proc[w].answer = "failed"
    IN  /\ At(w, "answered")
        /\ IF proc[w].answer = "succeeded"
           THEN Goto(w, [pc |-> "fulfill", event |-> None]) /\ UNCHANGED topUp
           ELSE /\ Goto(w, Idle)
                /\ topUp' = IF topUp.processing = w
                            THEN [topUp EXCEPT !.processing = None,
                                     !.status = IF failed THEN "FAILED" ELSE "PENDING"]
                            ELSE topUp
        /\ UNCHANGED <<posted, book, stripe, webhook, faults>>

-----------------------------------------------------------------------------
(* processStripeWalletEvent: the claim of an event, and its handlers.      *)

Handler(e) == CASE e[1] = "succeeded" -> "fulfill"
                [] e[1] = "failed"    -> "fail"
                [] OTHER              -> "record"

ClaimEvent(w, e) ==
    /\ At(w, "idle")
    /\ \/ webhook[e].status \in {"RECEIVED", "FAILED"}
       \/ webhook[e].status = "PROCESSING" /\ Takeable(webhook[e].owner)
    /\ webhook' = [webhook EXCEPT ![e] = [status |-> "PROCESSING", owner |-> w]]
    /\ Goto(w, [pc |-> Handler(e), event |-> e])
    /\ UNCHANGED <<topUp, posted, book, stripe, faults>>

\* The claim is fenced: only its current holder completes the event.
CompleteEvent(w) ==
    LET e == proc[w].event
    IN  /\ At(w, "finish")
        /\ webhook' = IF e # None /\ webhook[e].owner = w
                      THEN [webhook EXCEPT ![e] = [status |-> "PROCESSED", owner |-> None]]
                      ELSE webhook
        /\ Goto(w, Idle)
        /\ UNCHANGED <<topUp, posted, book, stripe, faults>>

\* The sweep fails a pending reload of an account that has no payment method
\* any more (which may be at any time), even one that is being confirmed.
FailUnpayable(w) ==
    /\ At(w, "idle")
    /\ topUp.kind = "AUTOMATIC" /\ topUp.status = "PENDING"
    /\ topUp' = [topUp EXCEPT !.status = "FAILED"]
    /\ UNCHANGED <<posted, book, stripe, webhook, proc, faults>>

\* failCheckoutSession, failPaymentIntent.
FailPayment(w) ==
    /\ At(w, "fail")
    /\ topUp' = [topUp EXCEPT !.status = IF @ = "PENDING" THEN "FAILED" ELSE @]
    /\ Jump(w, "finish")
    /\ UNCHANGED <<posted, book, stripe, webhook, faults>>

\* fulfillTopUp: the row is read, the wallet is credited, the row is updated.
ReadForFulfillment(w) ==
    /\ At(w, "fulfill")
    /\ Goto(w, [pc |-> "credit", event |-> proc[w].event,
                refunded |-> topUp.refunded, disputed |-> topUp.disputed])
    /\ UNCHANGED <<topUp, posted, book, stripe, webhook, faults>>

CreditPayment(w) ==
    /\ At(w, "credit")
    /\ Post(<<"credit", 0>>, "credited", Amount)
    /\ Jump(w, "fulfilled")
    /\ UNCHANGED <<topUp, stripe, webhook, faults>>

MarkFulfilled(w) ==
    /\ At(w, "fulfilled")
    /\ topUp' = [topUp EXCEPT
                    !.status = FinancialStatus(proc[w].refunded, proc[w].disputed),
                    !.credited = Amount, !.processing = None]
    /\ Goto(w, [pc |-> "lease", event |-> proc[w].event])
    /\ UNCHANGED <<posted, book, stripe, webhook, faults>>

\* processChargeRefunds and recordDisputeTarget: what Stripe wants taken back
\* is recorded durably, in one transaction, before anything is done about it.
RecordTarget(w) ==
    LET e == proc[w].event
    IN  /\ At(w, "record")
        /\ topUp' =
              IF e[1] = "refunded"
              THEN [topUp EXCEPT !.refundTarget = IF @ > e[2] THEN @ ELSE e[2],
                                 !.pending = TRUE]
              ELSE [topUp EXCEPT !.disputeTarget = IF @ > DisputeCents THEN @
                                                   ELSE DisputeCents,
                                 !.disputeState = MergedDispute(@, e[2]),
                                 !.pending = TRUE]
        /\ Jump(w, "lease")
        /\ UNCHANGED <<posted, book, stripe, webhook, faults>>

-----------------------------------------------------------------------------
(* reconcileTopUpFinancialState, after an event or from the sweep.         *)

\* reconcilePendingStripeTopUps.
SpotPending(w) ==
    /\ At(w, "idle")
    /\ topUp.pending /\ Takeable(topUp.lease)
    /\ Goto(w, [pc |-> "lease", event |-> None])
    /\ UNCHANGED <<topUp, posted, book, stripe, webhook, faults>>

TakeLease(w) ==
    /\ At(w, "lease")
    /\ IF topUp.pending /\ Takeable(topUp.lease)
       THEN /\ topUp' = [topUp EXCEPT !.lease = w]
            /\ Goto(w, [pc |-> "read", event |-> proc[w].event, attempt |-> 1])
       ELSE Jump(w, "finish") /\ UNCHANGED topUp
    /\ UNCHANGED <<posted, book, stripe, webhook, faults>>

LeaseReturned(w) == IF topUp.lease = w THEN [topUp EXCEPT !.lease = None] ELSE topUp

Seen(row) == <<row.refundTarget, row.disputeTarget, row.disputeState>>

\* A target that beat the payment's success waits for fulfillTopUp.
ReadTargets(w) ==
    /\ At(w, "read")
    /\ IF topUp.credited = 0
       THEN /\ topUp' = LeaseReturned(w)
            /\ Goto(w, [pc |-> "finish", event |-> proc[w].event])
       ELSE /\ UNCHANGED topUp
            /\ Goto(w, [pc |-> "give-back", event |-> proc[w].event,
                        attempt |-> proc[w].attempt, seen |-> Seen(topUp),
                        desired |-> Targets(topUp), applied |-> Progress(book)])
    /\ UNCHANGED <<posted, book, stripe, webhook, faults>>

\* Variant: the progress is not read again after a posting.
PostedUnread(w, pc) == Goto(w, [proc[w] EXCEPT !.pc = pc])

\* Each posting is followed by a fresh read of the ledger's progress.
Posted(w, pc) ==
    Goto(w, [proc[w] EXCEPT !.pc = pc, !.applied = Progress(book')])

GiveBackDispute(w) ==
    LET local == proc[w]
        over  == local.applied.disputed - local.desired.disputed
    IN  /\ At(w, "give-back")
        /\ IF over > 0
           THEN Post(<<"dispute-release", local.desired.disputed>>, "released", over)
           ELSE UNCHANGED <<posted, book>>
        /\ Posted(w, "refund")
        /\ UNCHANGED <<topUp, stripe, webhook, faults>>

TakeBackRefund(w) ==
    LET local == proc[w]
        due   == local.desired.refunded - local.applied.refunded
    IN  /\ At(w, "refund")
        /\ IF due > 0
           THEN Post(<<"refund", local.desired.refunded>>, "refunded", due)
           ELSE UNCHANGED <<posted, book>>
        /\ Posted(w, "dispute")
        /\ UNCHANGED <<topUp, stripe, webhook, faults>>

TakeBackDispute(w) ==
    LET local == proc[w]
        due   == local.desired.disputed - local.applied.disputed
    IN  /\ At(w, "dispute")
        /\ IF due > 0
           THEN Post(<<"dispute", local.desired.disputed>>, "debited", due)
           ELSE UNCHANGED <<posted, book>>
        /\ Posted(w, "complete")
        /\ UNCHANGED <<topUp, stripe, webhook, faults>>

\* Variant: only the lease is compared, not the targets.
CompleteReconciliationBlind(w) ==
    LET local == proc[w]
    IN  /\ At(w, "complete")
        /\ topUp' = IF topUp.lease = w
                    THEN [topUp EXCEPT
                             !.refunded = local.applied.refunded,
                             !.disputed = local.applied.disputed,
                             !.status = FinancialStatus(local.applied.refunded,
                                                        local.applied.disputed),
                             !.pending = FALSE, !.lease = None]
                    ELSE topUp
        /\ Goto(w, [pc |-> "finish", event |-> local.event])
        /\ UNCHANGED <<posted, book, stripe, webhook, faults>>

\* A compare-and-set on the targets that were read: if they have advanced,
\* or the lease is gone, another round follows.
CompleteReconciliation(w) ==
    LET local == proc[w]
    IN  /\ At(w, "complete")
        /\ \/ /\ topUp.lease = w /\ Seen(topUp) = local.seen
              /\ topUp' = [topUp EXCEPT
                              !.refunded = local.applied.refunded,
                              !.disputed = local.applied.disputed,
                              !.status = FinancialStatus(local.applied.refunded,
                                                         local.applied.disputed),
                              !.pending = FALSE, !.lease = None]
              /\ Goto(w, [pc |-> "finish", event |-> local.event])
           \/ /\ ~(topUp.lease = w /\ Seen(topUp) = local.seen)
              /\ IF local.attempt < MaxAttempts
                 THEN /\ Goto(w, [pc |-> "read", event |-> local.event,
                                  attempt |-> local.attempt + 1])
                      /\ UNCHANGED topUp
                 ELSE /\ Goto(w, [pc |-> "finish", event |-> local.event])
                      /\ topUp' = LeaseReturned(w)
        /\ UNCHANGED <<posted, book, stripe, webhook, faults>>

-----------------------------------------------------------------------------
(* Failures of a worker.  An error returns the tokens it holds and marks   *)
(* its event FAILED; a death leaves everything as it is.                   *)

Tokens(w, left) ==
    /\ topUp' = [topUp EXCEPT !.lease = IF @ = w THEN left ELSE @,
                              !.processing = IF @ = w THEN left ELSE @]
    /\ webhook' = [e \in Events |->
          IF webhook[e].owner # w THEN webhook[e]
          ELSE [status |-> IF left = None THEN "FAILED" ELSE "PROCESSING",
                owner  |-> left]]

Throw(w) ==
    /\ proc[w].pc \notin {"idle", "checkout", "confirm", "answered", "finish"}
    /\ faults < MaxFaults
    /\ faults' = faults + 1
    /\ Tokens(w, None)
    /\ Goto(w, Idle)
    /\ UNCHANGED <<posted, book, stripe>>

Crash(w) ==
    /\ ~At(w, "idle")
    /\ faults < MaxFaults
    /\ faults' = faults + 1
    /\ Tokens(w, Dead)
    /\ Goto(w, Idle)
    /\ UNCHANGED <<posted, book, stripe>>

-----------------------------------------------------------------------------
(* Stripe.                                                                 *)

SettlePayment ==
    /\ stripe.intent = "open"
    /\ \E outcome \in {"succeeded", "failed"} :
          /\ stripe' = [stripe EXCEPT !.intent = outcome]
          /\ Emit(<<outcome, 0>>)
    /\ UNCHANGED <<topUp, posted, book, proc, faults>>

RefundCharge ==
    /\ stripe.intent = "succeeded" /\ stripe.moves < MaxMoves
    /\ \E cents \in RefundCents :
          /\ stripe.refunded < cents
          /\ stripe' = [stripe EXCEPT !.refunded = cents, !.moves = @ + 1]
          /\ Emit(Refunded(cents))
    /\ UNCHANGED <<topUp, posted, book, proc, faults>>

MoveDispute ==
    /\ stripe.intent = "succeeded" /\ stripe.moves < MaxMoves
    /\ \E state \in {"OPEN", "WON", "LOST"} :
          /\ stripe.dispute = IF state = "OPEN" THEN "NONE" ELSE "OPEN"
          /\ stripe' = [stripe EXCEPT !.dispute = state, !.moves = @ + 1]
          /\ Emit(DisputeIs(state))
    /\ UNCHANGED <<topUp, posted, book, proc, faults>>

-----------------------------------------------------------------------------
Work(w) ==
    \/ CreateCheckout(w)
    \/ ConfirmPayment(w) \/ ConfirmationFails(w) \/ ApplyConfirmation(w)
    \/ CompleteEvent(w) \/ FailPayment(w)
    \/ ReadForFulfillment(w) \/ CreditPayment(w) \/ MarkFulfilled(w)
    \/ RecordTarget(w)
    \/ TakeLease(w) \/ ReadTargets(w) \/ GiveBackDispute(w)
    \/ TakeBackRefund(w) \/ TakeBackDispute(w) \/ CompleteReconciliation(w)

Next ==
    \/ \E w \in Workers :
          \/ RequestCheckout(w) \/ TriggerAutoRecharge(w) \/ ClaimConfirmation(w)
          \/ FailUnpayable(w) \/ SpotPending(w) \/ Work(w) \/ Throw(w) \/ Crash(w)
    \/ \E w \in Workers, e \in Events : ClaimEvent(w, e)
    \/ SettlePayment \/ RefundCharge \/ MoveDispute

Spec == Init /\ [][Next]_vars

\* A worker that has started goes on, Stripe delivers events until each is
\* answered with success, and the sweep looks every minute for targets that
\* are pending.  Nothing makes anybody pay, refund or dispute.
Fairness ==
    /\ \A w \in Workers : WF_vars(Work(w))
    /\ SF_vars(\E w \in Workers, e \in Events : ClaimEvent(w, e))
    /\ SF_vars(\E w \in Workers : SpotPending(w))

FairSpec == Spec /\ Fairness

-----------------------------------------------------------------------------
(* What a top-up promises.                                                 *)

Tokenholders == Workers \cup {None, Dead}

TypeOK ==
    /\ topUp \in [kind : Kinds,
                  status : {"NONE", "PENDING", "FAILED", "SUCCEEDED", "REFUNDED",
                            "PARTIALLY_REFUNDED", "DISPUTED"},
                  credited : {0, Amount}, refunded : 0..Amount, disputed : 0..Amount,
                  refundTarget : RefundCents \cup {0}, disputeTarget : {0, DisputeCents},
                  disputeState : {"NONE", "OPEN", "WON", "LOST"}, pending : BOOLEAN,
                  lease : Tokenholders, processing : Tokenholders]
    /\ book \in [credited : Nat, refunded : Nat, debited : Nat, released : Nat]
    /\ \A row \in posted : row.amount \in Nat
    /\ stripe \in [intent : {"none", "open", "succeeded", "failed"},
                   refunded : RefundCents \cup {0},
                   dispute : {"NONE", "OPEN", "WON", "LOST"}, moves : 0..MaxMoves]
    /\ webhook \in [Events -> [status : {"NONE", "RECEIVED", "PROCESSING", "FAILED",
                                         "PROCESSED"}, owner : Tokenholders]]
    /\ faults \in 0..MaxFaults

\* However often and in whatever order Stripe reports, and wherever a worker
\* fails, the wallet is credited once, and refunds and a dispute together
\* never take back more than the principal, not even for a moment.
Promise == INSTANCE TopUpPromise WITH Principal <- Amount,
    credited <- book.credited, refunded <- book.refunded,
    held <- book.debited - book.released

KeepsPromise == Promise!Spec

\* When nothing is pending any more, the row tells what the ledger did.
ColumnsFollowLedger ==
    topUp.credited > 0 /\ ~topUp.pending =>
        [refunded |-> topUp.refunded, disputed |-> topUp.disputed] = Progress(book)

\* In the end the wallet reflects what happened to the payment at Stripe.
FollowsStripe ==
    /\ book.credited = IF stripe.intent = "succeeded" THEN Amount ELSE 0
    /\ book.refunded = Share(stripe.refunded)
    /\ book.debited - book.released =
          IF stripe.dispute \in {"OPEN", "LOST"}
          THEN MinMicros(Share(DisputeCents), Amount - Share(stripe.refunded)) ELSE 0

WalletFollowsStripe == <>[]FollowsStripe
=============================================================================
