--------------------------- MODULE NumberPurchase ---------------------------
(***************************************************************************)
(* Buying one phone number: apps/server/src/modules/numbers/               *)
(* number-purchase.service.ts, number-purchase.repository.ts and the       *)
(* recovery sweep of number-purchase-maintenance.service.ts.               *)
(*                                                                         *)
(* Several quotes for the same number compete.  Each has a saga row that   *)
(* requests and the sweep work on, one at a time as long as its lease      *)
(* lasts; every database statement, wallet transaction and provider call   *)
(* is a step.  The provider is external: it has the number once, its       *)
(* answers may be lost, and an order shows up in a lookup within           *)
(* AMBIGUOUS_PROVIDER_RETRY_DELAY_MS.                                      *)
(*                                                                         *)
(* A token is the worker that drew it, or Dead when that worker died: the  *)
(* lease is long against a request, so only the dead are succeeded.        *)
(***************************************************************************)
EXTENDS LeaseTokens, Naturals, FiniteSets, TLC

CONSTANTS
    Quotes,     \* signed quotes for the number
    Funds,      \* prices the wallet can pay at the start
    MaxFaults   \* bound: provider errors and deaths of workers

VARIABLES
    purchase,   \* the PhoneNumberPurchase row of each quote
    hold,       \* the status of its reservation
    funds,      \* what the wallet has left
    phone,      \* the quote whose purchase created the PhoneNumber row
    order,      \* the provider's order for each quote
    proc,       \* local state of each worker
    faults

vars == <<purchase, hold, funds, phone, order, proc, faults>>

Claimable == {"PENDING", "RESERVED", "PROVIDER_PENDING", "PROVIDER_PURCHASED",
              "NUMBER_PERSISTED"}
Active == Claimable \cup {"REQUIRES_ATTENTION"}

Idle == [pc |-> "idle"]

Init ==
    /\ purchase = [q \in Quotes |-> [status |-> "NONE", token |-> None, funded |-> FALSE,
                                     attempt |-> "none", expired |-> FALSE,
                                     retired |-> FALSE]]
    /\ hold = [q \in Quotes |-> "NONE"]
    /\ funds \in Funds
    /\ phone = None
    /\ order = [q \in Quotes |-> "none"]
    /\ proc = [w \in Workers |-> Idle]
    /\ faults = 0

At(w, pc) == proc[w].pc = pc
Goto(w, local) == proc' = [proc EXCEPT ![w] = local]
Step(w, pc) == Goto(w, [proc[w] EXCEPT !.pc = pc])
Stop(w) == Goto(w, Idle)

\* Variant: only what was given back is taken.
TakeableFree(token) == token = None

Takeable(token) == token \in {None, Dead}

\* updateOwned: a worker whose lease was taken over changes nothing.
Owned(w, q, row) ==
    purchase' = IF purchase[q].token = w THEN [purchase EXCEPT ![q] = row] ELSE purchase

\* markSucceeded, markFailed, markRequiresAttention.
Finish(w, q, status) ==
    /\ Owned(w, q, [purchase[q] EXCEPT !.status = status, !.token = None])
    /\ Stop(w)

\* recordRecoverableError: the row is up for the next attempt at once.
GiveUpForNow(w, q) ==
    /\ Owned(w, q, [purchase[q] EXCEPT !.token = None])
    /\ Stop(w)

-----------------------------------------------------------------------------
(* purchaseNumber, createPurchase, resumePurchase.                         *)

RequestPurchase(w, q) ==
    /\ At(w, "idle")
    /\ purchase[q].status = "NONE" /\ ~purchase[q].expired
    /\ phone = None
    /\ Goto(w, [pc |-> "insert", q |-> q, again |-> FALSE])
    /\ UNCHANGED <<purchase, hold, funds, phone, order, faults>>

\* The unique index admits one active purchase of the number.
InsertPurchase(w) ==
    LET q == proc[w].q
    IN  /\ At(w, "insert")
        /\ IF \A p \in Quotes : purchase[p].status \notin Active
           THEN /\ purchase' = IF purchase[q].status = "NONE"
                               THEN [purchase EXCEPT ![q].status = "PENDING"] ELSE purchase
                /\ Goto(w, [pc |-> "claim", q |-> q])
           ELSE IF purchase[q].status # "NONE"
           THEN Goto(w, [pc |-> "claim", q |-> q]) /\ UNCHANGED purchase
           ELSE Step(w, "retire") /\ UNCHANGED purchase
        /\ UNCHANGED <<hold, funds, phone, order, faults>>

\* failExpiredUnfunded, for the active purchase in the way; then once more.
RetireExpired(w) ==
    /\ At(w, "retire")
    /\ LET expired == {p \in Quotes : /\ purchase[p].status = "PENDING"
                                     /\ ~purchase[p].funded /\ purchase[p].expired
                                     /\ Takeable(purchase[p].token)}
       IN  /\ purchase' = [p \in Quotes |->
                  IF p \in expired
                  THEN [purchase[p] EXCEPT !.status = "FAILED", !.token = None,
                                           !.retired = TRUE]
                  ELSE purchase[p]]
           /\ IF expired # {} /\ ~proc[w].again
              THEN Goto(w, [proc[w] EXCEPT !.pc = "insert", !.again = TRUE])
              ELSE Stop(w)
    /\ UNCHANGED <<hold, funds, phone, order, faults>>

\* The same quote again, or the sweep; terminalResult lets go of what a failed
\* purchase still holds.
ResumePurchase(w, q) ==
    /\ At(w, "idle")
    /\ purchase[q].status \in Claimable
    /\ Goto(w, [pc |-> "claim", q |-> q])
    /\ UNCHANGED <<purchase, hold, funds, phone, order, faults>>

ReplayFailed(q) ==
    /\ purchase[q].status = "FAILED" /\ hold[q] = "ACTIVE"
    /\ hold' = [hold EXCEPT ![q] = "RELEASED"]
    /\ funds' = funds + 1
    /\ UNCHANGED <<purchase, phone, order, proc, faults>>

FirstStep(status) ==
    CASE status = "PENDING"                           -> "find-hold"
      [] status \in {"RESERVED", "PROVIDER_PENDING"}  -> "check-hold"
      [] status = "PROVIDER_PURCHASED"                -> "persist"
      [] status = "NUMBER_PERSISTED"                  -> "find-phone"

Claim(w) ==
    LET q == proc[w].q
        row == purchase[q]
    IN  /\ At(w, "claim")
        /\ IF row.status \in Claimable /\ Takeable(row.token)
           THEN /\ purchase' = [purchase EXCEPT ![q].token = w]
                /\ Goto(w, [pc |-> FirstStep(row.status), q |-> q, found |-> "NONE",
                            seen |-> row.status, definitive |-> FALSE])
           ELSE Stop(w) /\ UNCHANGED purchase
        /\ UNCHANGED <<hold, funds, phone, order, faults>>

-----------------------------------------------------------------------------
(* ensureReservation.                                                      *)

FindHold(w) ==
    LET q == proc[w].q
    IN  /\ At(w, "find-hold")
        /\ IF hold[q] = "NONE" /\ purchase[q].expired
           THEN Finish(w, q, "FAILED")
           ELSE /\ Goto(w, [proc[w] EXCEPT !.found = hold[q],
                               !.pc = IF hold[q] = "NONE" THEN "reserve" ELSE "held"])
                /\ UNCHANGED purchase
        /\ UNCHANGED <<hold, funds, phone, order, faults>>

\* Variant: the wallet is not asked whether it can pay.
ReserveUnchecked(w) ==
    LET q == proc[w].q
    IN  /\ At(w, "reserve")
        /\ hold' = [hold EXCEPT ![q] = IF @ = "NONE" THEN "ACTIVE" ELSE @]
        /\ funds' = IF hold[q] = "NONE" THEN funds - 1 ELSE funds
        /\ Goto(w, [proc[w] EXCEPT !.pc = "held", !.found = hold'[q]])
        /\ UNCHANGED <<purchase, phone, order, faults>>

\* Idempotent under the quote's key; the hold never expires by itself.
Reserve(w) ==
    LET q == proc[w].q
    IN  /\ At(w, "reserve")
        /\ IF hold[q] = "NONE" /\ funds = 0
           THEN GiveUpForNow(w, q) /\ UNCHANGED <<hold, funds>>
           ELSE /\ hold' = [hold EXCEPT ![q] = IF @ = "NONE" THEN "ACTIVE" ELSE @]
                /\ funds' = IF hold[q] = "NONE" THEN funds - 1 ELSE funds
                /\ Goto(w, [proc[w] EXCEPT !.pc = "held", !.found = hold'[q]])
                /\ UNCHANGED purchase
        /\ UNCHANGED <<phone, order, faults>>

RecordReservation(w) ==
    LET q == proc[w].q
        found == proc[w].found
    IN  /\ At(w, "held")
        /\ \/ found = "RELEASED" /\ Finish(w, q, "FAILED")
           \/ /\ found = "SETTLED"
              /\ Finish(w, q, IF phone = q THEN "SUCCEEDED" ELSE "REQUIRES_ATTENTION")
           \/ /\ found = "ACTIVE"
              /\ Owned(w, q, [purchase[q] EXCEPT !.status = "RESERVED", !.funded = TRUE])
              /\ IF purchase[q].token = w
                 THEN Goto(w, [proc[w] EXCEPT !.pc = "check-hold", !.seen = "RESERVED"])
                 ELSE Stop(w)
        /\ UNCHANGED <<hold, funds, phone, order, faults>>

-----------------------------------------------------------------------------
(* ensureProviderPurchase and the provider.                                *)

CheckHold(w) ==
    LET q == proc[w].q
    IN  /\ At(w, "check-hold")
        /\ CASE hold[q] = "ACTIVE" ->
                  /\ Step(w, IF \/ purchase[q].attempt # "none"
                                \/ proc[w].seen = "PROVIDER_PENDING"
                             THEN "look-up" ELSE "attempt")
                  /\ UNCHANGED purchase
             [] hold[q] = "RELEASED" -> Finish(w, q, "FAILED")
             [] OTHER                -> Finish(w, q, "REQUIRES_ATTENTION")
        /\ UNCHANGED <<hold, funds, phone, order, faults>>

\* What a lookup shows.  An order of a moment ago may not be visible yet.
Shown(q) == {order[q]} \cup (IF purchase[q].attempt = "recent" THEN {"none"} ELSE {})

LookUpAttempt(w) ==
    LET q == proc[w].q
    IN  /\ At(w, "look-up")
        /\ \/ \E result \in Shown(q) :
                 /\ result # "none"
                 /\ Goto(w, [proc[w] EXCEPT !.pc = "apply", !.found = result])
                 /\ UNCHANGED <<purchase, faults>>
           \/ /\ "none" \in Shown(q)
              /\ IF purchase[q].attempt = "recent" THEN GiveUpForNow(w, q)
                 ELSE Step(w, "attempt") /\ UNCHANGED purchase
              /\ UNCHANGED faults
           \/ /\ faults < MaxFaults
              /\ faults' = faults + 1
              /\ GiveUpForNow(w, q)
        /\ UNCHANGED <<hold, funds, phone, order>>

RecordProviderAttempt(w) ==
    LET q == proc[w].q
    IN  /\ At(w, "attempt")
        /\ Owned(w, q, [purchase[q] EXCEPT !.attempt = "recent"])
        /\ IF purchase[q].token = w THEN Step(w, "order") ELSE Stop(w)
        /\ UNCHANGED <<hold, funds, phone, order, faults>>

Taken == \E q \in Quotes : order[q] \in {"pending", "success"}

\* An order is accepted, refused at once, or fails; a repeated one is answered
\* as the first or refused.
Answers(q) ==
    IF ~Taken THEN {"pending", "success", "failure", "refused"}
    ELSE {"failure", "refused"} \cup ({order[q]} \cap {"pending", "success"})

PlaceOrder(w) ==
    LET q == proc[w].q
    IN  /\ At(w, "order")
        /\ \/ \E answer \in Answers(q) :
                 /\ order' = IF answer = "refused" \/ (Taken /\ order[q] # "none")
                             THEN order ELSE [order EXCEPT ![q] = answer]
                 /\ \/ /\ Goto(w, [proc[w] EXCEPT !.found = answer,
                              !.pc = IF answer = "refused" THEN "doubt" ELSE "apply",
                              !.definitive = answer = "refused"])
                       /\ UNCHANGED faults
                    \/ /\ faults < MaxFaults        \* the answer is lost
                       /\ faults' = faults + 1
                       /\ Step(w, "doubt")
           \/ /\ faults < MaxFaults                 \* the request is lost
              /\ faults' = faults + 1
              /\ Step(w, "doubt")
              /\ UNCHANGED order
        /\ UNCHANGED <<purchase, hold, funds, phone>>

\* Variant: any error is taken for a refusal.
LookUpDoubtNever(w) ==
    /\ At(w, "doubt")
    /\ Step(w, "refund")
    /\ UNCHANGED <<purchase, hold, funds, phone, order, faults>>

\* After an error the provider is asked before anything is concluded; a lookup
\* that fails counts as one that found nothing.
LookUpDoubt(w) ==
    LET q == proc[w].q
    IN  /\ At(w, "doubt")
        /\ \/ \E result \in Shown(q) \ {"none"} :
                 /\ Goto(w, [proc[w] EXCEPT !.pc = "apply", !.found = result])
                 /\ UNCHANGED <<purchase, faults>>
           \/ /\ \/ "none" \in Shown(q) /\ UNCHANGED faults
                 \/ faults < MaxFaults /\ faults' = faults + 1
              /\ IF proc[w].definitive
                 THEN Step(w, "refund") /\ UNCHANGED purchase
                 ELSE GiveUpForNow(w, q)
        /\ UNCHANGED <<hold, funds, phone, order>>

ApplyProviderResult(w) ==
    LET q == proc[w].q
    IN  /\ At(w, "apply")
        /\ CASE proc[w].found = "failure" -> Step(w, "refund") /\ UNCHANGED purchase
             [] proc[w].found = "pending" ->
                  /\ Owned(w, q, [purchase[q] EXCEPT !.status = "PROVIDER_PENDING",
                                                     !.token = None])
                  /\ Stop(w)
             [] proc[w].found = "success" ->
                  /\ Owned(w, q, [purchase[q] EXCEPT !.status = "PROVIDER_PURCHASED"])
                  /\ IF purchase[q].token = w THEN Step(w, "persist") ELSE Stop(w)
        /\ UNCHANGED <<hold, funds, phone, order, faults>>

\* Variant: the row is marked first, the money released by nobody.
RefundHoldKept(w) ==
    LET q == proc[w].q
    IN  /\ At(w, "refund")
        /\ Finish(w, q, IF hold[q] = "SETTLED" THEN "REQUIRES_ATTENTION" ELSE "FAILED")
        /\ UNCHANGED <<hold, funds, phone, order, faults>>

\* failProviderPurchase: the wallet first, then the row.
RefundHold(w) ==
    LET q == proc[w].q
    IN  /\ At(w, "refund")
        /\ IF hold[q] = "SETTLED"
           THEN Finish(w, q, "REQUIRES_ATTENTION") /\ UNCHANGED <<hold, funds>>
           ELSE /\ hold' = [hold EXCEPT ![q] = IF @ = "ACTIVE" THEN "RELEASED" ELSE @]
                /\ funds' = IF hold[q] = "ACTIVE" THEN funds + 1 ELSE funds
                /\ Step(w, "fail")
                /\ UNCHANGED purchase
        /\ UNCHANGED <<phone, order, faults>>

FailPurchase(w) ==
    /\ At(w, "fail")
    /\ Finish(w, proc[w].q, "FAILED")
    /\ UNCHANGED <<hold, funds, phone, order, faults>>

-----------------------------------------------------------------------------
(* persistPhone, settlement, success.                                      *)

PersistPhone(w) ==
    LET q == proc[w].q
    IN  /\ At(w, "persist")
        /\ CASE purchase[q].token # w -> Stop(w) /\ UNCHANGED <<purchase, phone>>
             [] purchase[q].token = w /\ phone \notin {None, q} ->
                  Finish(w, q, "REQUIRES_ATTENTION") /\ UNCHANGED phone
             [] OTHER ->
                  /\ phone' = q
                  /\ purchase' = [purchase EXCEPT ![q].status = "NUMBER_PERSISTED"]
                  /\ Step(w, "settle")
        /\ UNCHANGED <<hold, funds, order, faults>>

FindPhone(w) ==
    /\ At(w, "find-phone")
    /\ IF phone = proc[w].q
       THEN Step(w, "settle") /\ UNCHANGED purchase
       ELSE Finish(w, proc[w].q, "REQUIRES_ATTENTION")
    /\ UNCHANGED <<hold, funds, phone, order, faults>>

SettlePurchase(w) ==
    LET q == proc[w].q
    IN  /\ At(w, "settle")
        /\ IF hold[q] \in {"ACTIVE", "SETTLED"}
           THEN /\ hold' = [hold EXCEPT ![q] = "SETTLED"]
                /\ Step(w, "succeed")
                /\ UNCHANGED purchase
           ELSE Finish(w, q, "REQUIRES_ATTENTION") /\ UNCHANGED hold
        /\ UNCHANGED <<funds, phone, order, faults>>

MarkSucceeded(w) ==
    /\ At(w, "succeed")
    /\ Finish(w, proc[w].q, "SUCCEEDED")
    /\ UNCHANGED <<hold, funds, phone, order, faults>>

-----------------------------------------------------------------------------
(* Everybody else.                                                         *)

\* The owner deletes the number: the provider's resource and the row go.
DeleteNumber ==
    /\ phone # None
    /\ order' = [order EXCEPT ![phone] = "released"]
    /\ phone' = None
    /\ UNCHANGED <<purchase, hold, funds, proc, faults>>

\* The process dies; its lease runs out.
Crash(w) ==
    /\ ~At(w, "idle")
    /\ faults < MaxFaults
    /\ faults' = faults + 1
    /\ purchase' = [q \in Quotes |-> IF purchase[q].token # w THEN purchase[q]
                                     ELSE [purchase[q] EXCEPT !.token = Dead]]
    /\ Stop(w)
    /\ UNCHANGED <<hold, funds, phone, order>>

QuoteExpires(q) ==
    /\ ~purchase[q].expired
    /\ purchase' = [purchase EXCEPT ![q].expired = TRUE]
    /\ UNCHANGED <<hold, funds, phone, order, proc, faults>>

\* AMBIGUOUS_PROVIDER_RETRY_DELAY_MS is over; no request takes that long.
AttemptAges(q) ==
    /\ purchase[q].attempt = "recent"
    /\ \A w \in Workers : At(w, "order") \/ At(w, "doubt") => proc[w].q # q
    /\ purchase' = [purchase EXCEPT ![q].attempt = "old"]
    /\ UNCHANGED <<hold, funds, phone, order, proc, faults>>

DecideOrder(q) ==
    /\ order[q] = "pending"
    /\ order' \in {[order EXCEPT ![q] = o] : o \in {"success", "failure"}}
    /\ UNCHANGED <<purchase, hold, funds, phone, proc, faults>>

Work(w) ==
    \/ InsertPurchase(w) \/ RetireExpired(w) \/ Claim(w)
    \/ FindHold(w) \/ Reserve(w) \/ RecordReservation(w) \/ CheckHold(w)
    \/ LookUpAttempt(w) \/ RecordProviderAttempt(w) \/ PlaceOrder(w) \/ LookUpDoubt(w)
    \/ ApplyProviderResult(w) \/ RefundHold(w) \/ FailPurchase(w)
    \/ PersistPhone(w) \/ FindPhone(w) \/ SettlePurchase(w) \/ MarkSucceeded(w)

Next ==
    \/ \E w \in Workers : Work(w) \/ Crash(w)
    \/ \E w \in Workers, q \in Quotes : RequestPurchase(w, q) \/ ResumePurchase(w, q)
    \/ \E q \in Quotes : ReplayFailed(q) \/ QuoteExpires(q) \/ AttemptAges(q)
                         \/ DecideOrder(q)
    \/ DeleteNumber

Spec == Init /\ [][Next]_vars

\* Workers go on, the sweep resumes what is claimable every minute, time
\* passes, and the provider decides its orders.
Fairness ==
    /\ \A w \in Workers : WF_vars(Work(w))
    /\ \A q \in Quotes :
          /\ SF_vars(\E w \in Workers : /\ Takeable(purchase[q].token)
                                        /\ ResumePurchase(w, q))
          /\ WF_vars(QuoteExpires(q)) /\ WF_vars(AttemptAges(q)) /\ WF_vars(DecideOrder(q))

FairSpec == Spec /\ Fairness

-----------------------------------------------------------------------------
(* What a purchase promises.                                               *)

TypeOK ==
    /\ purchase \in [Quotes -> [status : Active \cup {"NONE", "SUCCEEDED", "FAILED"},
                                token : Workers \cup {None, Dead}, funded : BOOLEAN,
                                attempt : {"none", "recent", "old"}, expired : BOOLEAN,
                                retired : BOOLEAN]]
    /\ hold \in [Quotes -> {"NONE", "ACTIVE", "SETTLED", "RELEASED"}]
    /\ funds \in Nat
    /\ phone \in Quotes \cup {None}
    /\ order \in [Quotes -> {"none", "pending", "success", "failure", "released"}]
    /\ faults \in 0..MaxFaults

\* The money of a hold and the goods of an order, as the escrow sees them.
Escrowed ==
    [q \in Quotes |-> CASE hold[q] = "NONE"     -> "none"
                        [] hold[q] = "ACTIVE"   -> "held"
                        [] hold[q] = "SETTLED"  -> "paid"
                        [] hold[q] = "RELEASED" -> "back"]
Delivered ==
    [q \in Quotes |-> CASE order[q] \in {"none", "failure"}     -> "none"
                        [] order[q] = "pending"                 -> "ordered"
                        [] order[q] \in {"success", "released"} -> "acquired"]

Escrow == INSTANCE PurchaseEscrow WITH money <- Escrowed, goods <- Delivered

\* Whatever answer is lost and wherever a process dies, a number is ordered
\* against held money only, paid only when acquired, and the money goes back
\* only if the provider neither has delivered nor may still deliver.
KeepsEscrow == Escrow!Spec

\* A purchase that failed holds no money, unless another quote retired its row:
\* failExpiredUnfunded takes a hold that was never recorded for none.
OnlyRetiredPurchasesLeak ==
    \A q \in Quotes :
        purchase[q].status = "FAILED" /\ hold[q] = "ACTIVE" => purchase[q].retired

\* Every purchase comes to an end: the number is delivered and paid, or the
\* purchase failed, or somebody is asked to look at it.
EveryPurchaseEnds ==
    \A q \in Quotes :
        purchase[q].status \in Claimable
            ~> purchase[q].status \in {"SUCCEEDED", "FAILED", "REQUIRES_ATTENTION"}
=============================================================================
