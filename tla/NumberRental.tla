---------------------------- MODULE NumberRental ----------------------------
(***************************************************************************)
(* The life of one rented number: renewal, suspension and release          *)
(* (apps/server/src/modules/numbers/number-billing.service.ts,             *)
(* number-billing-operation.repository.ts, number-release.service.ts,      *)
(* number-renewal-fence.ts), its deletion (number-deletion.service.ts) and *)
(* its link to an agent (phone.service.ts).                                *)
(*                                                                         *)
(* Sweeps and payment webhooks work on the row under one operation token;  *)
(* database statements, wallet transactions and provider calls are steps   *)
(* of their own.  A token is the worker that drew it, or Dead when that    *)
(* worker died.  The lease of a worker that is merely slow may lapse; the  *)
(* row then is up for anybody, and stays the worker's until it is taken.   *)
(***************************************************************************)
EXTENDS LeaseTokens, Integers, Sequences, TLC

CONSTANTS
    Owner,          \* what its owner does: "links" and unlinks, "deletes" it
    MaxPeriods,     \* bound: periods of the rental
    MaxHolds,       \* bound: reservations made
    MaxDeposits,    \* bound: rents the owner pays in
    MaxFaults       \* bound: errors, deaths, and leases and holds outlived

ASSUME BoundsAreCounts ==
    {MaxPeriods, MaxHolds, MaxDeposits, MaxFaults} \subseteq Nat

VARIABLES
    number,     \* the PhoneNumber row
    provider,   \* the number at its provider and at LiveKit
    holds,      \* reservations for renewals, oldest first
    funds,      \* rents the wallet can pay
    proc,       \* local state of each worker
    spent       \* what has been used of the bounds

vars == <<number, provider, holds, funds, proc, spent>>

Idle == [pc |-> "idle"]

\* A number that was bought and linked.
Init ==
    /\ number = [status |-> "ACTIVE", period |-> 1, due |-> FALSE, overdue |-> FALSE,
                 agent |-> TRUE, remembered |-> FALSE, token |-> None,
                 lapsed |-> FALSE, authorized |-> FALSE]
    /\ provider = [number |-> "rented", bound |-> TRUE]
    /\ holds = <<>>
    /\ funds = 0
    /\ proc = [w \in Workers |-> Idle]
    /\ spent = [deposits |-> 0, faults |-> 0]

At(w, pc) == proc[w].pc = pc
Goto(w, local) == proc' = [proc EXCEPT ![w] = local]
Step(w, pc) == Goto(w, [proc[w] EXCEPT !.pc = pc])
Stop(w) == Goto(w, Idle)
Fault == spent.faults < MaxFaults /\ spent' = [spent EXCEPT !.faults = @ + 1]

\* Variant: a lease has no end.
TakeableFree == number.token = None

Takeable == number.token \in {None, Dead} \/ number.lapsed

Renewable == {"ACTIVE", "RELEASE_PENDING"}
Exists == number.status # "GONE"

OwnedBy(w, row) == [row EXCEPT !.token = w, !.lapsed = FALSE]
Unowned(row) == [row EXCEPT !.token = None, !.lapsed = FALSE, !.authorized = FALSE]

\* A worker that stops without giving its token back leaves the lease to run out.
Abandoned(w) == [number EXCEPT !.token = IF @ = w THEN Dead ELSE @]

-----------------------------------------------------------------------------
(* Claims.                                                                 *)

\* retryDueNumberRenewals and retrySuspendedNumberRenewalsAfterCredit: the
\* list is read before the numbers on it are claimed.
ListDue(w) ==
    /\ At(w, "idle")
    /\ number.due /\ number.status \in Renewable /\ ~number.overdue
    /\ Goto(w, [pc |-> "claim", period |-> number.period])
    /\ UNCHANGED <<number, provider, holds, funds, spent>>

Claimed(w, mode) ==
    [pc |-> "find-hold", mode |-> mode, period |-> number.period, hold |-> 0,
     agent |-> number.agent, remembered |-> number.remembered]

Deleting(as) == [pc |-> "check-claim", as |-> as]

\* claimRenewal.  The clock it compares with is that of the listing, when the
\* release was not due; a release scheduled since is later still.
ClaimRenewal(w) ==
    /\ At(w, "claim")
    /\ IF /\ number.status \in Renewable /\ number.period = proc[w].period
          /\ Takeable
       THEN /\ number' = OwnedBy(w, number)
            /\ Goto(w, Claimed(w, "scheduled"))
       ELSE Stop(w) /\ UNCHANGED number
    /\ UNCHANGED <<provider, holds, funds, spent>>

\* Variant: a release that was authorized is examined like any other.
ClaimReleaseAgain(w) ==
    /\ At(w, "idle")
    /\ \/ number.status = "RELEASE_PENDING" /\ number.overdue
       \/ number.status = "RELEASING"
    /\ Takeable
    /\ number' = OwnedBy(w, [number EXCEPT !.status = "RELEASING"])
    /\ Goto(w, Claimed(w, "last-chance"))
    /\ UNCHANGED <<provider, holds, funds, spent>>

\* releaseExpiredSuspensions: an authorized release is resumed, any other
\* number has a last chance to be paid.
ClaimRelease(w) ==
    /\ At(w, "idle")
    /\ \/ number.status = "RELEASE_PENDING" /\ number.overdue
       \/ number.status = "RELEASING"
    /\ Takeable
    /\ number' = OwnedBy(w, [number EXCEPT !.status = "RELEASING"])
    /\ Goto(w, IF number.authorized THEN Deleting("released")
               ELSE Claimed(w, "last-chance"))
    /\ UNCHANGED <<provider, holds, funds, spent>>

-----------------------------------------------------------------------------
(* renewClaimedNumber.                                                     *)

OfPeriod(p) == {i \in 1..Len(holds) : holds[i].period = p}
Latest(p) == IF OfPeriod(p) = {} THEN 0
             ELSE CHOOSE i \in OfPeriod(p) : \A j \in OfPeriod(p) : j <= i

\* Variant: a hold that a predecessor settled is not looked for.
FindHoldOpen(w) ==
    LET last == Latest(proc[w].period)
        open == last # 0 /\ holds[last].status = "ACTIVE"
    IN  /\ At(w, "find-hold")
        /\ Goto(w, IF open
                   THEN [proc[w] EXCEPT !.pc = "refresh", !.hold = last]
                   ELSE [proc[w] EXCEPT !.pc = "reserve", !.hold = last])
        /\ UNCHANGED <<number, provider, holds, funds, spent>>

\* The hold an earlier attempt for this period left behind is used again.
FindHold(w) ==
    LET last == Latest(proc[w].period)
        open == last # 0 /\ holds[last].status \in {"ACTIVE", "SETTLED"}
    IN  /\ At(w, "find-hold")
        /\ Goto(w, IF open
                   THEN [proc[w] EXCEPT !.hold = last,
                            !.pc = IF holds[last].status = "ACTIVE" THEN "refresh"
                                   ELSE "refresh-settled"]
                   ELSE [proc[w] EXCEPT !.pc = "reserve", !.hold = last])
        /\ UNCHANGED <<number, provider, holds, funds, spent>>

\* recordRenewalFailure, revertReleaseClaim.
FailedRow(w) ==
    LET mine == number.token = w
    IN  IF proc[w].mode = "scheduled"
        THEN IF mine /\ number.status \in Renewable
             THEN [number EXCEPT !.token = None, !.lapsed = FALSE] ELSE number
        ELSE IF mine /\ number.status = "RELEASING"
             THEN Unowned([number EXCEPT !.status = "RELEASE_PENDING"]) ELSE number

\* The price is fetched (and may fail to be) and reserved under a key made of
\* the period and of the released hold it follows.
Reserve(w) ==
    LET p    == proc[w].period
        same == {i \in OfPeriod(p) : holds[i].after = proc[w].hold}
    IN  /\ At(w, "reserve")
        /\ \/ /\ same # {}
              /\ \E i \in same :
                    IF holds[i].status = "RELEASED"
                    THEN number' = FailedRow(w) /\ Stop(w)
                    ELSE /\ Goto(w, [proc[w] EXCEPT !.hold = i,
                                !.pc = IF holds[i].status = "ACTIVE" THEN "refresh"
                                       ELSE "refresh-settled"])
                         /\ UNCHANGED number
              /\ UNCHANGED <<holds, funds, spent>>
           \/ /\ same = {} /\ funds > 0 /\ Len(holds) < MaxHolds
              /\ holds' = Append(holds, [period |-> p, after |-> proc[w].hold,
                                         status |-> "ACTIVE"])
              /\ funds' = funds - 1
              /\ Goto(w, [proc[w] EXCEPT !.hold = Len(holds) + 1, !.pc = "refresh"])
              /\ UNCHANGED <<number, spent>>
           \/ /\ same = {} /\ funds = 0
              /\ Step(w, IF proc[w].mode = "scheduled" THEN "suspend" ELSE "reload")
              /\ UNCHANGED <<number, holds, funds, spent>>
           \/ /\ Fault
              /\ number' = FailedRow(w) /\ Stop(w)
              /\ UNCHANGED <<holds, funds>>
        /\ UNCHANGED provider

Holder(w) == number.token = w /\ number.status \in Renewable \cup {"RELEASING"}

\* settleRenewalUnderClaim: the last look at the claim before money moves.
RefreshClaim(w) ==
    /\ At(w, "refresh") \/ At(w, "refresh-settled")
    /\ IF Holder(w) THEN /\ number' = OwnedBy(w, number)
                         /\ Step(w, IF At(w, "refresh") THEN "settle" ELSE "complete")
       ELSE /\ UNCHANGED number
            /\ IF At(w, "refresh") THEN Step(w, "let-go") ELSE Stop(w)
    /\ UNCHANGED <<provider, holds, funds, spent>>

Released(i) ==
    IF holds[i].status = "ACTIVE"
    THEN holds' = [holds EXCEPT ![i].status = "RELEASED"] /\ funds' = funds + 1
    ELSE UNCHANGED <<holds, funds>>

LetGo(w) ==
    /\ At(w, "let-go")
    /\ Released(proc[w].hold)
    /\ Stop(w)
    /\ UNCHANGED <<number, provider, spent>>

Settle(w) ==
    LET i == proc[w].hold
    IN  /\ At(w, "settle")
        /\ IF holds[i].status = "RELEASED"
           THEN number' = FailedRow(w) /\ Stop(w) /\ UNCHANGED holds
           ELSE /\ holds' = [holds EXCEPT ![i].status = "SETTLED"]
                /\ Step(w, "complete")
                /\ UNCHANGED number
        /\ UNCHANGED <<provider, funds, spent>>

CompleteRenewal(w) ==
    /\ At(w, "complete")
    /\ IF Holder(w)
       THEN /\ number' = Unowned([number EXCEPT !.status = "ACTIVE", !.overdue = FALSE,
                                    !.period = @ + 1, !.due = FALSE])
            /\ Goto(w, [pc |-> "restore"])
       ELSE Stop(w) /\ UNCHANGED number
    /\ UNCHANGED <<provider, holds, funds, spent>>

-----------------------------------------------------------------------------
(* Nothing to pay with: suspendClaimedNumber, or the end of the last chance. *)

Suspend(w) ==
    /\ At(w, "suspend")
    /\ IF number.token = w /\ number.status \in Renewable
       THEN /\ number' = Unowned([number EXCEPT !.status = "RELEASE_PENDING",
                            !.remembered = proc[w].remembered \/ proc[w].agent])
            /\ IF proc[w].agent THEN Step(w, "detach") ELSE Stop(w)
       ELSE Stop(w) /\ UNCHANGED number
    /\ UNCHANGED <<provider, holds, funds, spent>>

\* The tail of a suspension looks neither at the claim nor at the row.
Detach(w) ==
    /\ At(w, "detach")
    /\ \/ /\ provider' = [provider EXCEPT !.bound = FALSE]
          /\ Step(w, "unlink")
          /\ UNCHANGED spent
       \/ Fault /\ Stop(w) /\ UNCHANGED provider
    /\ UNCHANGED <<number, holds, funds>>

Unlink(w) ==
    /\ At(w, "unlink")
    /\ number' = [number EXCEPT !.agent = FALSE]
    /\ Stop(w)
    /\ UNCHANGED <<provider, holds, funds, spent>>

\* triggerAutoRecharge: while a reload may still pay, the number is kept.
TryReload(w) ==
    /\ At(w, "reload")
    /\ \/ Fault /\ number' = FailedRow(w) /\ Stop(w)
       \/ Step(w, "authorize") /\ UNCHANGED <<number, spent>>
    /\ UNCHANGED <<provider, holds, funds>>

\* authorizeRelease: the point of no return.
AuthorizeRelease(w) ==
    /\ At(w, "authorize")
    /\ IF number.status = "RELEASING" /\ number.token = w /\ ~number.authorized
       THEN /\ number' = OwnedBy(w, [number EXCEPT !.authorized = TRUE])
            /\ Goto(w, Deleting("released"))
       ELSE Stop(w) /\ UNCHANGED number
    /\ UNCHANGED <<provider, holds, funds, spent>>

-----------------------------------------------------------------------------
(* createNumberDeleter, with a release claim or for the owner.             *)

OwnerDeletes(w) ==
    /\ "deletes" \in Owner /\ At(w, "idle") /\ Exists
    /\ Goto(w, Deleting("returned"))
    /\ UNCHANGED <<number, provider, holds, funds, spent>>

\* The owner needs no claim, only a row.
MayDelete(w) ==
    IF proc[w].as = "returned" THEN Exists
    ELSE number.status = "RELEASING" /\ number.token = w /\ number.authorized

\* refreshClaimedNumberForRelease.
Refreshed(w) == IF proc[w].as = "returned" THEN number ELSE OwnedBy(w, number)

CheckReleaseClaim(w) ==
    /\ At(w, "check-claim")
    /\ IF MayDelete(w) THEN /\ number' = Refreshed(w)
                            /\ Step(w, IF number.agent THEN "take-down" ELSE "delete")
       ELSE Stop(w) /\ UNCHANGED number
    /\ UNCHANGED <<provider, holds, funds, spent>>

TakeDown(w) ==
    /\ At(w, "take-down")
    /\ \/ /\ provider' = [provider EXCEPT !.bound = FALSE]
          /\ Step(w, IF proc[w].as = "returned" THEN "delete" ELSE "check-again")
          /\ UNCHANGED <<number, spent>>
       \/ Fault /\ number' = Abandoned(w) /\ Stop(w) /\ UNCHANGED provider
    /\ UNCHANGED <<holds, funds>>

CheckAgain(w) ==
    /\ At(w, "check-again")
    /\ IF MayDelete(w) THEN number' = Refreshed(w) /\ Step(w, "delete")
       ELSE Stop(w) /\ UNCHANGED number
    /\ UNCHANGED <<provider, holds, funds, spent>>

\* A number the provider does not know any more counts as deleted.
DeleteAtProvider(w) ==
    /\ At(w, "delete")
    /\ \/ /\ provider' = IF provider.number = "rented"
                         THEN [number |-> proc[w].as, bound |-> FALSE] ELSE provider
          /\ Step(w, "delete-row")
          /\ UNCHANGED <<number, spent>>
       \/ Fault /\ number' = Abandoned(w) /\ Stop(w) /\ UNCHANGED provider
    /\ UNCHANGED <<holds, funds>>

DeleteRow(w) ==
    /\ At(w, "delete-row")
    /\ number' = IF MayDelete(w)
                 THEN [number EXCEPT !.status = "GONE", !.agent = FALSE,
                                     !.due = FALSE, !.token = None,
                                     !.lapsed = FALSE] ELSE number
    /\ Stop(w)
    /\ UNCHANGED <<provider, holds, funds, spent>>

-----------------------------------------------------------------------------
(* linkAgentToNumber: for a renewed number, and for its owner.             *)

ListUnbound(w) ==
    /\ At(w, "idle")
    /\ number.status = "ACTIVE" /\ number.remembered /\ ~number.agent
    /\ Goto(w, [pc |-> "restore"])
    /\ UNCHANGED <<number, provider, holds, funds, spent>>

RestoreBinding(w) ==
    /\ At(w, "restore")
    /\ IF number.remembered /\ number.status = "ACTIVE"
       THEN Goto(w, [pc |-> IF number.agent THEN "link" ELSE "attach", restores |-> TRUE,
                     links |-> TRUE, attached |-> FALSE])
       ELSE Stop(w)
    /\ UNCHANGED <<number, provider, holds, funds, spent>>

\* Only a number that is paid for may be linked; any may be unlinked.
UpdateLink(w) ==
    /\ "links" \in Owner /\ At(w, "idle") /\ Exists
    /\ \E links \in BOOLEAN :
          /\ links # number.agent
          /\ links => number.status = "ACTIVE"
          /\ Goto(w, [pc |-> "attach", restores |-> FALSE, links |-> links,
                      attached |-> FALSE])
    /\ UNCHANGED <<number, provider, holds, funds, spent>>

Attach(w) ==
    /\ At(w, "attach")
    /\ \/ /\ provider' = [provider EXCEPT !.bound = proc[w].links /\ provider.number = "rented"]
          /\ Goto(w, [proc[w] EXCEPT !.pc = "link", !.attached = TRUE])
          /\ UNCHANGED spent
       \/ Fault /\ Stop(w) /\ UNCHANGED provider
    /\ UNCHANGED <<number, holds, funds>>

\* linkAgent finds the row by its id alone; if it is gone what was attached is
\* detached again.
Link(w) ==
    /\ At(w, "link")
    /\ IF Exists
       THEN /\ number' = [number EXCEPT !.agent = proc[w].links]
            /\ IF proc[w].restores THEN Step(w, "forget") ELSE Stop(w)
            /\ UNCHANGED provider
       ELSE /\ provider' = IF proc[w].attached
                           THEN [provider EXCEPT !.bound = ~proc[w].links] ELSE provider
            /\ Stop(w)
            /\ UNCHANGED number
    /\ UNCHANGED <<holds, funds, spent>>

Forget(w) ==
    /\ At(w, "forget")
    /\ number' = [number EXCEPT !.remembered = FALSE]
    /\ Stop(w)
    /\ UNCHANGED <<provider, holds, funds, spent>>

-----------------------------------------------------------------------------
(* Time, money, deaths.                                                    *)

BillingFallsDue ==
    /\ Exists /\ ~number.due /\ number.period <= MaxPeriods
    /\ number' = [number EXCEPT !.due = TRUE]
    /\ UNCHANGED <<provider, holds, funds, proc, spent>>

\* RELEASE_GRACE_MS after the suspension.
GraceEnds ==
    /\ number.status = "RELEASE_PENDING" /\ ~number.overdue
    /\ number' = [number EXCEPT !.overdue = TRUE]
    /\ UNCHANGED <<provider, holds, funds, proc, spent>>

Deposit ==
    /\ spent.deposits < MaxDeposits
    /\ spent' = [spent EXCEPT !.deposits = @ + 1]
    /\ funds' = funds + 1
    /\ UNCHANGED <<number, provider, holds, proc>>

\* Calls and other numbers spend from the same wallet.
Spend ==
    /\ funds > 0
    /\ funds' = funds - 1
    /\ UNCHANGED <<number, provider, holds, proc, spent>>

InUse(i) == \E w \in Workers : proc[w].pc \in {"refresh", "settle", "let-go"}
                               /\ proc[w].hold = i

Expire(i) ==
    /\ holds[i].status = "ACTIVE"
    /\ Released(i)
    /\ IF InUse(i) THEN Fault ELSE UNCHANGED spent

\* Variant: the sweep finds holds by way of their number.
ReleaseExpiredOfExisting ==
    /\ Exists /\ \E i \in 1..Len(holds) : Expire(i)
    /\ UNCHANGED <<number, provider, proc>>

\* After ten minutes the maintenance sweep releases a hold: seldom one that a
\* renewal is still about to settle.
ReleaseExpired ==
    /\ \E i \in 1..Len(holds) : Expire(i)
    /\ UNCHANGED <<number, provider, proc>>

\* A worker has not come back to its row for NUMBER_BILLING_OPERATION_LEASE_MS.
LeaseLapses ==
    /\ number.token \in Workers /\ ~number.lapsed
    /\ Fault
    /\ number' = [number EXCEPT !.lapsed = TRUE]
    /\ UNCHANGED <<provider, holds, funds, proc>>

Crash(w) ==
    /\ ~At(w, "idle")
    /\ Fault
    /\ number' = Abandoned(w)
    /\ Stop(w)
    /\ UNCHANGED <<provider, holds, funds>>

Work(w) ==
    \/ ClaimRenewal(w)
    \/ FindHold(w) \/ Reserve(w) \/ RefreshClaim(w) \/ LetGo(w) \/ Settle(w)
    \/ CompleteRenewal(w) \/ Suspend(w) \/ Detach(w) \/ Unlink(w)
    \/ TryReload(w) \/ AuthorizeRelease(w) \/ CheckReleaseClaim(w) \/ TakeDown(w)
    \/ CheckAgain(w) \/ DeleteAtProvider(w) \/ DeleteRow(w)
    \/ RestoreBinding(w) \/ Attach(w) \/ Link(w) \/ Forget(w)

Next ==
    \/ \E w \in Workers :
          \/ ListDue(w) \/ ClaimRelease(w) \/ ListUnbound(w) \/ UpdateLink(w)
          \/ OwnerDeletes(w)
          \/ Work(w) \/ Crash(w)
    \/ BillingFallsDue \/ GraceEnds \/ Deposit \/ Spend \/ ReleaseExpired
    \/ LeaseLapses

Spec == Init /\ [][Next]_vars

\* Workers go on, time passes, and the sweeps run every few minutes.
Fairness ==
    /\ \A w \in Workers : WF_vars(Work(w))
    /\ WF_vars(GraceEnds) /\ WF_vars(ReleaseExpired)
    /\ SF_vars(\E w \in Workers : ListDue(w))
    /\ SF_vars(\E w \in Workers : ClaimRelease(w))
    /\ SF_vars(\E w \in Workers : ListUnbound(w))

FairSpec == Spec /\ Fairness

-----------------------------------------------------------------------------
(* What a rental promises.                                                 *)

TypeOK ==
    /\ number \in [status : Renewable \cup {"RELEASING", "GONE"},
                   period : Nat \ {0}, due : BOOLEAN, overdue : BOOLEAN,
                   agent : BOOLEAN, remembered : BOOLEAN,
                   token : Workers \cup {None, Dead}, lapsed : BOOLEAN,
                   authorized : BOOLEAN]
    /\ provider \in [number : {"rented", "released", "returned"}, bound : BOOLEAN]
    /\ holds \in Seq([period : Nat \ {0}, after : Nat,
                      status : {"ACTIVE", "SETTLED", "RELEASED"}])
    /\ funds \in Nat
    /\ spent \in [deposits : Nat, faults : Nat]

PaidHolds(p) == {i \in OfPeriod(p) : holds[i].status = "SETTLED"}

\* Every period that the number lived through was paid exactly once, the
\* current one at most once, however the workers overlap.
RentPaidOnce ==
    /\ \A p \in 1..(number.period - 1) : \E i \in PaidHolds(p) : PaidHolds(p) = {i}
    /\ \A i, j \in PaidHolds(number.period) : i = j

\* Nobody's number is deleted at the provider while its row is paid for, and
\* no stale list brings one back: what the provider lost was authorized.
OnlyAuthorizedReleases == provider.number = "released" => number.authorized

\* After the point of no return no rent is collected and nothing revives the
\* number.
NoReturn ==
    [][number.authorized =>
          /\ number'.authorized
          /\ \A i \in 1..Len(holds) :
                holds'[i].status = "SETTLED" => holds[i].status = "SETTLED"]_vars

Reserved(i) == i <= Len(holds) /\ holds[i].status = "ACTIVE"

\* No rent stays reserved for ever.
HoldsClose == \A i \in 1..MaxHolds : Reserved(i) ~> ~Reserved(i)

\* An unpaid number is not kept for ever: it is paid or released.
UnpaidEnds == (number.status = "RELEASE_PENDING") ~> (number.status \in {"ACTIVE", "GONE"})
=============================================================================
