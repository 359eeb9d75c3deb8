---------------------------- MODULE CallMetering ----------------------------
(***************************************************************************)
(* The billing of one live call: admission, cumulative usage snapshots,    *)
(* cancellation, and the maintenance that ends what nobody else ends.      *)
(*                                                                         *)
(*   call-metering.service.ts        authorize, cancel, applyCallUsage...  *)
(*   billing-maintenance.service.ts  expired holds, half-applied tails     *)
(*   silent-call-watchdog.service.ts telephony calls that stop reporting   *)
(*                                                                         *)
(* Each request and each sweep is a process; each of its database          *)
(* operations is one action, and between two of them other processes run,  *)
(* the process may crash (its locals are lost) and time may pass.  Wallet  *)
(* operations are the Serializable transactions of WalletLedger, so they   *)
(* are atomic here and move the account by the same deltas.                *)
(*                                                                         *)
(* Abstractions: rated usage is one number that grows by one with every    *)
(* report but at most one; every hold is HoldMicros of paid money; a       *)
(* report may arrive at any time, any number of times and in any order.    *)
(***************************************************************************)
EXTENDS LedgerDeltas, FiniteSetsExt, TLC

CONSTANTS
    Requests,       \* processes serving the API
    Sweepers,       \* maintenance and watchdog processes
    LastReport,     \* the sequence of the final usage snapshot
    Generations,    \* bound: admissions of the same call
    MaxRecovery,    \* last recovery generation of a rolling hold
    HoldMicros,     \* micros one authorization reserves
    Funds,          \* what the wallet may hold when the call starts
    HasProvider,    \* is the call a telephony call?
    Lulls,          \* reports that may bring no new usage; 0 stands for none
    Stalls,         \* may a request or a sweep outlive the timeouts?
    MaxCrashes,     \* bound: crashes of processes
    None            \* no hold, no key, no checkpoint

ASSUME BoundsAreNumbers ==
    /\ {LastReport, Generations, HoldMicros} \subseteq Nat \ {0}
    /\ {MaxRecovery, MaxCrashes} \subseteq Nat
    /\ Funds \subseteq Nat /\ Lulls \subseteq Nat
ASSUME SwitchesAreBooleans == {HasProvider, Stalls} \subseteq BOOLEAN

VARIABLES
    session,    \* the CallBillingSession row
    account,    \* the BillingAccount row of the organization
    holds,      \* the call's BillingReservation rows, by idempotency key
    charges,    \* the call's CALL_SETTLEMENT rows
    proc,       \* where each process is, and its locals
    env         \* crashes so far, whether a process has outlived a timeout, and
                \* the report that brings nothing new

vars == <<session, account, holds, charges, proc, env>>

-----------------------------------------------------------------------------
Processes == Requests \cup Sweepers
Reports == 1..LastReport

\* What the usage up to report n is rated at.
UsageMicros(n) == IF env.lull \in 1..n THEN n - 1 ELSE n

InitialKey(g) == <<"initial", g, 0>>
RollingKey(n, r) == <<"rolling", n, r>>
HoldKeys == {InitialKey(g) : g \in 1..Generations}
            \cup {RollingKey(n, r) : n \in Reports, r \in 0..MaxRecovery}

\* What a settlement remembers of the report it pays for.
Checkpoints == [n : Reports, cum : Nat, target : Nat, priorDebt : Nat]

ASSUME NoneIsNothing == None \notin HoldKeys \cup Checkpoints

NoSession == [status |-> "NONE", gen |-> 0, active |-> None, lastSeq |-> 0,
              claim |-> 0, aged |-> FALSE, quiet |-> FALSE, cum |-> 0,
              total |-> 0, debt |-> 0, tail |-> 0]

Idle == [pc |-> "idle"]

Init ==
    /\ session = NoSession
    /\ \E funds \in Funds : account = [EmptyAccount EXCEPT !.paid = funds]
    /\ holds = [k \in HoldKeys |-> [status |-> "NONE", by |-> None, late |-> FALSE]]
    /\ charges = {}
    /\ proc = [p \in Processes |-> Idle]
    /\ \E lull \in Lulls : env = [crashes |-> 0, stalled |-> FALSE, lull |-> lull]

Goto(p, local) == proc' = [proc EXCEPT ![p] = local]
At(p, pc) == proc[p].pc = pc

-----------------------------------------------------------------------------
(* The wallet, as the processes use it.                                    *)

Terminal(k) == holds[k].status \in {"SETTLED", "RELEASED"}

\* reserveUsageCredit: a new hold, or the caller's own hold again (renewed).
CanReserve(k) ==
    \/ holds[k].status = "ACTIVE"
    \/ /\ holds[k].status = "NONE"
       /\ account.debt = 0
       /\ ReservableMicros(account, TRUE) >= HoldMicros

Reserve(k) ==
    /\ holds' = [holds EXCEPT ![k] =
                    [status |-> "ACTIVE", by |-> None, late |-> FALSE]]
    /\ account' = IF holds[k].status = "ACTIVE" THEN account
                  ELSE Projected(account, ReserveDeltas(HoldMicros, 0))

\* releaseReservation: done by this key already, or doable, or an error.
ReleaseOK(k, key) == holds[k].status = "ACTIVE" \/ holds[k].by = key

\* Variant: whatever the hold's status.
ReleaseUnchecked(k, key) ==
    /\ holds' = [holds EXCEPT ![k].status = "RELEASED", ![k].by = key]
    /\ account' = Projected(account, ReleaseDeltas(HoldMicros, 0))

Release(k, key) ==
    IF holds[k].status = "ACTIVE"
    THEN /\ holds' = [holds EXCEPT ![k].status = "RELEASED", ![k].by = key]
         /\ account' = Projected(account, ReleaseDeltas(HoldMicros, 0))
    ELSE UNCHANGED <<holds, account>>

\* Rows: [key, hold, gross, debt, checkpoint, tail].
RowsOf(key) == {row \in charges : row.key = key}

\* settleReservation: the row it returns is the recorded one, or a new one.
Settlement(key, k, gross, checkpoint, tail) ==
    [key |-> key, hold |-> k, gross |-> gross,
     debt |-> SettleDeltas(account, HoldMicros, 0, TRUE, gross).debt,
     checkpoint |-> checkpoint, tail |-> tail]

\* Variant: a hold already closed is settled again under another key.
SettleOKAnyStatus(key, k, gross) ==
    \A row \in RowsOf(key) : row.hold = k /\ row.gross = gross

SettleOK(key, k, gross) ==
    IF RowsOf(key) = {} THEN holds[k].status = "ACTIVE"
    ELSE \A row \in RowsOf(key) : row.hold = k /\ row.gross = gross

Settle(row) ==
    IF RowsOf(row.key) = {}
    THEN /\ charges' = charges \cup {row}
         /\ holds' = [holds EXCEPT ![row.hold].status = "SETTLED",
                                   ![row.hold].by = row.key]
         /\ \E delta \in {SettleDeltas(account, HoldMicros, 0, TRUE, row.gross)} :
               account' = Projected(account, delta)
    ELSE UNCHANGED <<charges, holds, account>>

\* The recorded row under this key if there is one (an idempotent replay).
Recorded(row) == IF RowsOf(row.key) = {} THEN row
                 ELSE CHOOSE r \in RowsOf(row.key) : TRUE

-----------------------------------------------------------------------------
(* Admission: authorizeWalletCall and reauthorizeCanceledAdmission.        *)

\* An ACTIVE session is simply continued; other statuses are refused.
Authorize(p) ==
    /\ At(p, "idle")
    /\ session.status \in {"NONE", "ENDED"}
    /\ session.gen < Generations
    /\ Goto(p, [pc |-> "reserve-admission", from |-> session.status,
                gen |-> session.gen + 1])
    /\ UNCHANGED <<session, account, holds, charges, env>>

ReserveAdmission(p) ==
    /\ At(p, "reserve-admission")
    /\ LET k == InitialKey(proc[p].gen)
       IN  IF CanReserve(k)
           THEN Reserve(k) /\ Goto(p, [proc[p] EXCEPT !.pc = "admit"])
           ELSE UNCHANGED <<holds, account>> /\ Goto(p, Idle)
    /\ UNCHANGED <<session, charges, env>>

\* The row is created, or reset for another attempt, by a compare-and-set; the
\* loser of a race gives its hold back unless the winner is using it.  A reset
\* leaves createdAt, from which the watchdog counts: what was quiet stays so.
Admit(p) ==
    LET local == proc[p]
        k     == InitialKey(local.gen)
        wins  == session.status = local.from /\ session.gen = local.gen - 1
    IN  /\ At(p, "admit")
        /\ session' = IF wins
                      THEN [NoSession EXCEPT !.status = "ACTIVE",
                                !.gen = local.gen, !.active = k,
                                !.quiet = session.quiet]
                      ELSE session
        /\ Goto(p, IF wins \/ session.active = k THEN Idle
                   ELSE [local EXCEPT !.pc = "drop-admission"])
        /\ UNCHANGED <<account, holds, charges, env>>

DropAdmission(p) ==
    /\ At(p, "drop-admission")
    /\ Release(InitialKey(proc[p].gen), <<"raced", proc[p].gen>>)
    /\ Goto(p, Idle)
    /\ UNCHANGED <<session, charges, env>>

-----------------------------------------------------------------------------
(* cancelCallBillingAdmission: read, release the hold, end the session.    *)

CancelAdmission(p) ==
    /\ At(p, "idle")
    /\ session.active # None
    /\ Goto(p, [pc |-> "cancel", hold |-> session.active, gen |-> session.gen])
    /\ UNCHANGED <<session, account, holds, charges, env>>

ReleaseCanceled(p) ==
    LET key == <<"cancel", proc[p].gen>>
    IN  /\ At(p, "cancel")
        /\ IF ReleaseOK(proc[p].hold, key)
           THEN /\ Release(proc[p].hold, key)
                /\ Goto(p, [proc[p] EXCEPT !.pc = "end-canceled"])
           ELSE UNCHANGED <<holds, account>> /\ Goto(p, Idle)
        /\ UNCHANGED <<session, charges, env>>

EndCanceled(p) ==
    /\ At(p, "end-canceled")
    /\ session' = IF session.active = proc[p].hold
                  THEN [session EXCEPT !.status = "ENDED", !.active = None]
                  ELSE session
    /\ Goto(p, Idle)
    /\ UNCHANGED <<account, holds, charges, env>>

-----------------------------------------------------------------------------
(* applyCallUsageSnapshot.                                                 *)

\* A report for an unknown call first authorizes it (Authorize).  A telephony
\* leg that is refused is still recorded, for its provider's final price.
PersistDeniedProviderSession(n) ==
    /\ session.status = "NONE"
    /\ HasProvider
    /\ holds[InitialKey(1)].status = "NONE"
    /\ ~CanReserve(InitialKey(1))
    /\ session' = [NoSession EXCEPT !.status = "RECONCILING", !.gen = 1,
                                    !.lastSeq = n]
    /\ UNCHANGED <<account, holds, charges, proc, env>>

ReceiveSnapshot(p, n) ==
    /\ At(p, "idle")
    /\ session.status # "NONE"
    /\ Goto(p, [pc |-> "recover", n |-> n, sess |-> session])
    /\ UNCHANGED <<session, account, holds, charges, env>>

\* findPendingCallUsageCheckpoint: the settled checkpoint furthest ahead of
\* the session that was read, whose projection may have been lost.
PendingRows(sess) ==
    {row \in charges : /\ row.checkpoint # None
                       /\ row.checkpoint.n > sess.lastSeq}

FurthestPending(sess) ==
    {row \in PendingRows(sess) :
        \A other \in PendingRows(sess) : other.checkpoint.n <= row.checkpoint.n}

Over == {"ENDED", "SETTLED", "RECONCILING"}

\* The locals of completeUsageCheckpoint: the charged row (its debt is the
\* settlement's), whether the call must stop, and the hold it goes on with.
Completing(p, mode, sess, checkpoint, debt) ==
    [pc |-> "reserve-next", mode |-> mode, n |-> proc[p].n,
     checkpoint |-> checkpoint, debt |-> debt, owes |-> account'.debt > 0,
     stop |-> account'.debt > 0 \/ sess.status = "DEBT", next |-> None]

RecoverPending(p) ==
    LET sess == proc[p].sess
    IN  /\ At(p, "recover")
        /\ UNCHANGED <<session, account, holds, charges, env>>
        /\ \/ /\ PendingRows(sess) = {}
              /\ Goto(p, IF sess.status \in Over THEN Idle
                         ELSE [pc |-> "claim", n |-> proc[p].n])
           \/ \E row \in FurthestPending(sess) :
                 Goto(p, Completing(p, "recovering", sess, row.checkpoint, row.debt))

\* claimSnapshot: a compare-and-set that takes a free or a stale claim.
ClaimSnapshot(p) ==
    /\ At(p, "claim")
    /\ session.lastSeq < proc[p].n
    /\ session.claim = 0 \/ session.aged
    /\ session' = [session EXCEPT !.claim = proc[p].n, !.aged = FALSE,
                                  !.quiet = @ /\ session.lastSeq = 0]
    /\ Goto(p, [proc[p] EXCEPT !.pc = "charge-from"])
    /\ UNCHANGED <<account, holds, charges, env>>

\* A duplicate is answered without effect; a report that waited too long for
\* somebody else's claim is refused, and posted again later.
RefuseSnapshot(p) ==
    /\ At(p, "claim")
    /\ session.lastSeq >= proc[p].n \/ (session.claim # 0 /\ ~session.aged)
    /\ Goto(p, Idle)
    /\ UNCHANGED <<session, account, holds, charges, env>>

\* Variant: a report is charged in full, not from the last one on.
ChargeFromReported(p) ==
    LET n == proc[p].n
    IN  /\ At(p, "charge-from")
        /\ Goto(p, [pc |-> "charge", n |-> n, sess |-> session,
                    delta |-> UsageMicros(n),
                    checkpoint |-> [n |-> n, cum |-> UsageMicros(n),
                                    target |-> session.total + UsageMicros(n),
                                    priorDebt |-> session.debt]])
        /\ UNCHANGED <<session, account, holds, charges, env>>

\* The session is read again under the claim, and the charge is what the
\* cumulative usage adds to it.
ChargeFrom(p) ==
    LET n     == proc[p].n
        cum   == IF session.cum > UsageMicros(n) THEN session.cum ELSE UsageMicros(n)
        delta == cum - session.cum
    IN  /\ At(p, "charge-from")
        /\ Goto(p, [pc |-> "charge", n |-> n, sess |-> session, delta |-> delta,
                    checkpoint |-> [n |-> n, cum |-> cum,
                                    target |-> session.total + delta,
                                    priorDebt |-> session.debt]])
        /\ UNCHANGED <<session, account, holds, charges, env>>

\* The hold is settled with the charge; a session without a hold (its credit
\* ran out) is debited instead; nothing new, nothing written.
ChargeHold(p) ==
    LET local == proc[p]
        k     == local.sess.active
        key   == <<"settle", local.n>>
    IN  /\ At(p, "charge") /\ k # None
        /\ IF SettleOK(key, k, local.delta)
           THEN \E row \in {Settlement(key, k, local.delta, local.checkpoint, FALSE)} :
                   /\ Settle(row)
                   /\ Goto(p, Completing(p, "claimed", local.sess, local.checkpoint,
                                         Recorded(row).debt))
           ELSE /\ UNCHANGED <<charges, holds, account>>
                /\ Goto(p, [pc |-> "unclaim", n |-> local.n])
        /\ UNCHANGED <<session, env>>

ChargeTail(p) ==
    LET local == proc[p]
        delta == UsageDebitDeltas(account, local.delta)
        row   == [key |-> <<"tail", local.n>>, hold |-> None,
                  gross |-> local.delta, debt |-> delta.debt,
                  checkpoint |-> local.checkpoint, tail |-> FALSE]
    IN  /\ At(p, "charge") /\ local.sess.active = None /\ local.delta > 0
        /\ charges' = IF RowsOf(row.key) = {} THEN charges \cup {row} ELSE charges
        /\ account' = IF RowsOf(row.key) = {} THEN Projected(account, delta)
                      ELSE account
        /\ Goto(p, Completing(p, "claimed", local.sess, local.checkpoint,
                              Recorded(row).debt))
        /\ UNCHANGED <<session, holds, env>>

ChargeNothing(p) ==
    LET local == proc[p]
    IN  /\ At(p, "charge") /\ local.sess.active = None /\ local.delta = 0
        /\ UNCHANGED <<session, account, holds, charges, env>>
        /\ Goto(p, Completing(p, "claimed", local.sess, local.checkpoint, 0))

-----------------------------------------------------------------------------
(* completeUsageCheckpoint.                                                *)

Final(checkpoint) == checkpoint.n = LastReport

\* reserveRollingCreditWithRecovery: the first key of this report whose hold
\* is not already settled or released.
UsableKeys(n) ==
    {RollingKey(n, r) : r \in {q \in 0..MaxRecovery :
        /\ ~Terminal(RollingKey(n, q))
        /\ \A earlier \in 0..(q - 1) : Terminal(RollingKey(n, earlier))}}

ReserveNext(p) ==
    LET local   == proc[p]
        without == Final(local.checkpoint) \/ local.stop
        usable  == {k \in UsableKeys(local.checkpoint.n) : CanReserve(k)}
    IN  /\ At(p, "reserve-next")
        /\ UNCHANGED <<session, charges, env>>
        /\ \/ /\ ~without
              /\ \E k \in usable :
                    /\ Reserve(k)
                    /\ Goto(p, [local EXCEPT !.pc = "complete", !.next = k])
           \/ /\ without \/ usable = {}
              /\ UNCHANGED <<holds, account>>
              /\ Goto(p, [local EXCEPT !.pc = "complete",
                                !.stop = local.stop \/ ~Final(local.checkpoint)])

CompletedStatus(local) ==
    IF Final(local.checkpoint)
    THEN IF HasProvider THEN "RECONCILING" ELSE IF local.owes THEN "DEBT" ELSE "SETTLED"
    ELSE IF local.stop THEN "DEBT" ELSE "ACTIVE"

\* Variant: the session goes on with the hold it had.
CompleteKeepingHold(p) ==
    LET local == proc[p]
        c     == local.checkpoint
    IN  /\ At(p, "complete")
        /\ session' = [session EXCEPT
                          !.status = CompletedStatus(local), !.lastSeq = c.n,
                          !.claim = 0, !.cum = c.cum, !.total = c.target,
                          !.debt = c.priorDebt + local.debt]
        /\ Goto(p, Idle)
        /\ UNCHANGED <<account, holds, charges, env>>

\* The session row moves to the checkpoint unless it is there already or the
\* row is claimed, freshly, for another report.  Falling short throws: a
\* claiming request then drops its claim.  After a recovery the request goes
\* on with the session as it is now.
CompleteCheckpoint(p) ==
    LET local == proc[p]
        c     == local.checkpoint
        wins  == /\ session.lastSeq < c.n
                 /\ session.claim \in {0, c.n} \/ session.aged
        fails == ~wins /\ session.lastSeq < c.n
    IN  /\ At(p, "complete")
        /\ session' = IF wins
                      THEN [session EXCEPT
                                !.status = CompletedStatus(local), !.lastSeq = c.n,
                                !.claim = 0, !.aged = FALSE, !.quiet = FALSE,
                                !.cum = c.cum, !.total = c.target,
                                !.debt = c.priorDebt + local.debt,
                                !.active = local.next]
                      ELSE session
        /\ Goto(p, CASE local.mode = "claimed" /\ fails ->
                            [pc |-> "unclaim", n |-> local.n]
                     [] local.mode = "recovering" /\ ~fails ->
                            [pc |-> "recovered", n |-> local.n]
                     [] OTHER -> Idle)
        /\ UNCHANGED <<account, holds, charges, env>>

AfterRecovery(p) ==
    /\ At(p, "recovered")
    /\ Goto(p, IF session.status \in Over THEN Idle
               ELSE [pc |-> "claim", n |-> proc[p].n])
    /\ UNCHANGED <<session, account, holds, charges, env>>

Unclaim(p) ==
    /\ At(p, "unclaim")
    /\ session' = IF session.claim = proc[p].n
                  THEN [session EXCEPT !.claim = 0, !.aged = FALSE,
                                       !.quiet = @ /\ session.lastSeq = 0]
                  ELSE session
    /\ Goto(p, Idle)
    /\ UNCHANGED <<account, holds, charges, env>>

-----------------------------------------------------------------------------
(* Maintenance.                                                            *)

\* Variant: only calls that have reported before.
SpotSilentReporter(p) ==
    /\ At(p, "idle")
    /\ HasProvider /\ session.status = "ACTIVE" /\ session.quiet
    /\ session.lastSeq > 0
    /\ Goto(p, [pc |-> "settle-silent", hold |-> session.active, reported |-> TRUE])
    /\ UNCHANGED <<session, account, holds, charges, env>>

\* terminateSilentCalls: the room of a telephony call that has not reported
\* for long enough is deleted (an external step), then the call is billed.
SpotSilentCall(p) ==
    /\ At(p, "idle")
    /\ HasProvider /\ session.status = "ACTIVE" /\ session.quiet
    /\ Goto(p, [pc |-> "settle-silent", hold |-> session.active,
                reported |-> session.lastSeq > 0])
    /\ UNCHANGED <<session, account, holds, charges, env>>

\* endSilentSession: the whole hold is kept.  A hold already closed means, to
\* this code, that a late snapshot owns the session.
SettleSilent(p) ==
    LET local == proc[p]
        key   == <<"silent", local.hold>>
    IN  /\ At(p, "settle-silent")
        /\ IF SettleOK(key, local.hold, HoldMicros)
           THEN /\ \E row \in {Settlement(key, local.hold, HoldMicros, None,
                                         local.reported)} : Settle(row)
                /\ Goto(p, [local EXCEPT !.pc = "end-silent"])
           ELSE UNCHANGED <<charges, holds, account>> /\ Goto(p, Idle)
        /\ UNCHANGED <<session, env>>

EndSilent(p) ==
    LET local == proc[p]
    IN  /\ At(p, "end-silent")
        /\ session' = IF session.status = "ACTIVE" /\ session.active = local.hold
                      THEN [session EXCEPT
                               !.status = "RECONCILING", !.active = None,
                               !.total = @ + HoldMicros,
                               !.tail = @ + (IF local.reported THEN HoldMicros ELSE 0)]
                      ELSE session
        /\ Goto(p, Idle)
        /\ UNCHANGED <<account, holds, charges, env>>

\* Variant: only the holds a live call carries.
SpotExpiredCarried(p) ==
    /\ At(p, "idle")
    /\ session.status = "ACTIVE" /\ session.lastSeq > 0
    /\ holds[session.active].status = "ACTIVE" /\ holds[session.active].late
    /\ Goto(p, [pc |-> "settle-tail", hold |-> session.active])
    /\ UNCHANGED <<session, account, holds, charges, env>>

\* releaseExpiredBillingReservations finds an active hold past its expiry and
\* the ACTIVE session that carries it.  A call that has reported is charged
\* the whole hold; an admission nobody used is released and ended; a
\* telephony call that never reported is left to the watchdog.
SpotExpired(p) ==
    \E k \in HoldKeys :
        LET carried == session.status = "ACTIVE" /\ session.active = k
        IN  /\ At(p, "idle")
            /\ holds[k].status = "ACTIVE" /\ holds[k].late
            /\ ~(carried /\ session.lastSeq = 0 /\ HasProvider)
            /\ Goto(p, [pc |-> IF carried /\ session.lastSeq > 0
                               THEN "settle-tail" ELSE "release-expired",
                        hold |-> k])
            /\ UNCHANGED <<session, account, holds, charges, env>>

SettleTail(p) ==
    LET local == proc[p]
        key   == <<"expired-tail", local.hold>>
    IN  /\ At(p, "settle-tail")
        /\ IF SettleOK(key, local.hold, HoldMicros)
           THEN /\ \E row \in {Settlement(key, local.hold, HoldMicros, None, TRUE)} :
                      Settle(row)
                /\ Goto(p, [local EXCEPT !.pc = "apply-tail"])
           ELSE UNCHANGED <<charges, holds, account>> /\ Goto(p, Idle)
        /\ UNCHANGED <<session, env>>

\* Variant: the row is updated whatever it says by now.
ProjectTailAlways(k) ==
    session' = [session EXCEPT
                   !.status = IF HasProvider THEN "RECONCILING" ELSE "SETTLED",
                   !.active = None, !.total = @ + HoldMicros,
                   !.tail = @ + HoldMicros]

\* applySettledTailProjection, a compare-and-set on the hold.  A whole hold
\* never incurs debt.
ProjectTail(k) ==
    session' = IF session.status \in {"ACTIVE", "DEBT"} /\ session.active = k
               THEN [session EXCEPT
                        !.status = IF HasProvider THEN "RECONCILING" ELSE "SETTLED",
                        !.active = None, !.total = @ + HoldMicros,
                        !.tail = @ + HoldMicros]
               ELSE session

ApplyTail(p) ==
    /\ At(p, "apply-tail")
    /\ ProjectTail(proc[p].hold)
    /\ Goto(p, Idle)
    /\ UNCHANGED <<account, holds, charges, env>>

\* repairSettledTailProjections: a tail settled by a process that died before
\* the session was told.
RepairSettledTail(p) ==
    /\ At(p, "idle")
    /\ session.status \in {"ACTIVE", "DEBT"}
    /\ \E row \in charges : row.tail /\ row.hold = session.active
    /\ ProjectTail(session.active)
    /\ UNCHANGED <<account, holds, charges, proc, env>>

ReleaseExpired(p) ==
    /\ At(p, "release-expired")
    /\ Release(proc[p].hold, <<"expired", proc[p].hold>>)
    /\ Goto(p, [proc[p] EXCEPT !.pc = "end-expired"])
    /\ UNCHANGED <<session, charges, env>>

EndExpired(p) ==
    /\ At(p, "end-expired")
    /\ session' = IF session.status = "ACTIVE" /\ session.active = proc[p].hold
                  THEN [session EXCEPT !.status = "ENDED", !.active = None]
                  ELSE session
    /\ Goto(p, Idle)
    /\ UNCHANGED <<account, holds, charges, env>>

-----------------------------------------------------------------------------
(* Time and failures.                                                      *)

\* The timeouts (RESERVATION_TTL_MS, SNAPSHOT_CLAIM_STALE_MS, the watchdog's
\* graces) are long against a request or a sweep: they elapse between them,
\* or, if Stalls, at any time.
LongTimePasses ==
    LET idle == \A p \in Processes : At(p, "idle")
    IN  /\ Stalls \/ idle
        /\ env' = [env EXCEPT !.stalled = @ \/ ~idle]

HoldExpires(k) ==
    /\ LongTimePasses
    /\ holds[k].status = "ACTIVE" /\ ~holds[k].late
    /\ holds' = [holds EXCEPT ![k].late = TRUE]
    /\ UNCHANGED <<session, account, charges, proc>>

ClaimAges ==
    /\ LongTimePasses
    /\ session.claim # 0 /\ ~session.aged
    /\ session' = [session EXCEPT !.aged = TRUE]
    /\ UNCHANGED <<account, holds, charges, proc>>

CallFallsSilent ==
    /\ LongTimePasses
    /\ session.status = "ACTIVE" /\ ~session.quiet
    /\ session' = [session EXCEPT !.quiet = TRUE]
    /\ UNCHANGED <<account, holds, charges, proc>>

Crash(p) ==
    /\ ~At(p, "idle")
    /\ env.crashes < MaxCrashes
    /\ env' = [env EXCEPT !.crashes = @ + 1]
    /\ Goto(p, Idle)
    /\ UNCHANGED <<session, account, holds, charges>>

-----------------------------------------------------------------------------
Continue(p) ==
    \/ ReserveAdmission(p) \/ Admit(p) \/ DropAdmission(p)
    \/ ReleaseCanceled(p) \/ EndCanceled(p)
    \/ RecoverPending(p) \/ AfterRecovery(p)
    \/ ClaimSnapshot(p) \/ RefuseSnapshot(p) \/ ChargeFrom(p)
    \/ ChargeHold(p) \/ ChargeTail(p) \/ ChargeNothing(p)
    \/ ReserveNext(p) \/ CompleteCheckpoint(p) \/ Unclaim(p)

Request(p) ==
    \/ Authorize(p) \/ CancelAdmission(p)
    \/ \E n \in Reports : ReceiveSnapshot(p, n)
    \/ Continue(p)

Sweep(p) ==
    \/ SpotSilentCall(p) \/ SettleSilent(p) \/ EndSilent(p)
    \/ SpotExpired(p) \/ SettleTail(p) \/ ApplyTail(p) \/ RepairSettledTail(p)
    \/ ReleaseExpired(p) \/ EndExpired(p)

Next ==
    \/ \E p \in Requests : Request(p)
    \/ \E n \in Reports : PersistDeniedProviderSession(n)
    \/ \E p \in Sweepers : Sweep(p)
    \/ \E k \in HoldKeys : HoldExpires(k)
    \/ ClaimAges \/ CallFallsSilent
    \/ \E p \in Processes : Crash(p)

Spec == Init /\ [][Next]_vars

\* Requests that have started run on, time passes, and sweeps are scheduled
\* for ever, each making all its passes; nothing makes a caller call or a
\* reporter report.
Fairness ==
    /\ \A p \in Requests : WF_vars(Continue(p))
    /\ \A p \in Sweepers :
          /\ WF_vars(Sweep(p))
          /\ SF_vars(SpotSilentCall(p))
          /\ SF_vars(SpotExpired(p))
          /\ SF_vars(RepairSettledTail(p))
    /\ \A k \in HoldKeys : WF_vars(HoldExpires(k))
    /\ WF_vars(ClaimAges) /\ WF_vars(CallFallsSilent)

FairSpec == Spec /\ Fairness

-----------------------------------------------------------------------------
(* What the metering of a call promises.                                   *)

TypeOK ==
    /\ session \in [status : {"NONE", "ACTIVE", "ENDED", "DEBT", "RECONCILING",
                              "SETTLED"},
                    gen : 0..Generations, active : HoldKeys \cup {None},
                    lastSeq : 0..LastReport, claim : 0..LastReport,
                    aged : BOOLEAN, quiet : BOOLEAN, cum : Nat, total : Nat, debt : Nat,
                    tail : Nat]
    /\ account \in Accounts
    /\ \A k \in HoldKeys :
          holds[k].status \in {"NONE", "ACTIVE", "SETTLED", "RELEASED"}
    /\ \A row \in charges : /\ row.hold \in HoldKeys \cup {None}
                            /\ row.checkpoint \in Checkpoints \cup {None}
                            /\ {row.gross, row.debt} \subseteq Nat
    /\ env \in [crashes : 0..MaxCrashes, stalled : BOOLEAN, lull : Lulls]

UsageRows == {row \in charges : row.checkpoint # None}
Gross(rows) == MapThenSumSet(LAMBDA row : row.gross, rows)
Debt(rows) == MapThenSumSet(LAMBDA row : row.debt, rows)

\* However reports are duplicated, reordered or overlap, and wherever a
\* request dies, the wallet is charged for a call's usage exactly once: the
\* settlements add up to the largest cumulative usage they recorded.
UsageChargedOnce ==
    \/ UsageRows = {}
    \/ \E last \in UsageRows :
          /\ \A row \in UsageRows : row.checkpoint.cum <= last.checkpoint.cum
          /\ Gross(UsageRows) = last.checkpoint.cum

\* The session row is a projection of the ledger: its total and its debt are
\* those of the settlements up to its last report, plus the holds that were
\* kept whole once the session has been told of them.
Reflected ==
    {row \in charges : IF row.checkpoint = None THEN row.hold # session.active
                       ELSE row.checkpoint.n <= session.lastSeq}

SessionReflectsLedger ==
    /\ session.total = Gross(Reflected)
    /\ session.debt = Debt(Reflected)

\* The same as long as the call's credit lasts and every report brings new
\* usage, even if requests and sweeps stall for so long that another one takes
\* over: a hold is settled once, so whichever report settles it charges
\* everything up to that report.
ReservedUsageChargedOnce ==
    (\A row \in UsageRows : row.hold # None) => UsageChargedOnce

\* A call ended by its last report or by a sweep stays ended ("fails closed"):
\* a report still on its way does not make it live again.
EndedCallsFailClosed ==
    [][session.status \in {"RECONCILING", "SETTLED"} =>
          session'.status = session.status]_vars

\* As long as no process has died, a call that may go on has credit behind
\* it: its hold is active, or spent by a charge the session is still to be
\* told of, or being given back by a process that will end the session next.
Ending(k) ==
    \E p \in Processes : /\ proc[p].pc \in {"end-canceled", "end-expired",
                                            "end-silent", "apply-tail"}
                         /\ proc[p].hold = k

ActiveCallIsBacked ==
    env.crashes = 0 /\ session.status = "ACTIVE" =>
        \/ holds[session.active].status = "ACTIVE"
        \/ \E row \in charges :
              /\ row.hold = session.active
              /\ IF row.checkpoint = None THEN row.tail
                 ELSE row.checkpoint.n > session.lastSeq
        \/ Ending(session.active)

\* No authorization outlives its call: every hold, orphans of crashed, raced
\* and overtaken requests included, is eventually settled or released.
EveryHoldCloses ==
    \A k \in HoldKeys : holds[k].status = "ACTIVE" ~> holds[k].status # "ACTIVE"

\* A telephony call whose worker falls silent does not stay open: the
\* watchdog ends it, so that the provider's price is eventually billed.
SilentCallsEnd ==
    HasProvider /\ session.status = "ACTIVE" ~> session.status # "ACTIVE"

\* The same as long as no process dies or outlives a timeout.
SilentCallsEndOnSchedule ==
    [](env.crashes = 0 /\ ~env.stalled) => SilentCallsEnd
=============================================================================
