-------------------------- MODULE OutboundDispatch --------------------------
(***************************************************************************)
(* Outbound calls of one agent: a campaign and single ("quick") calls      *)
(* (apps/server/src/modules/outbound/outbound-call.service.ts,             *)
(* outbound-call.repository.ts, outbound-batch.service.ts).                *)
(*                                                                         *)
(* A pump reserves slots of the agent's concurrency limit for calls of the *)
(* campaign and queues a job per reserved call; workers run the jobs, which*)
(* admit the call to billing, dial and record the result.  Users cancel    *)
(* meanwhile.  Database statements, transactions and provider calls are    *)
(* steps of their own; processes die, and a job whose worker died or lost  *)
(* its lock is given to another worker.                                    *)
(*                                                                         *)
(* External: BullMQ (job), LiveKit (leg), the AI worker that reports ended *)
(* calls.  The daily limit is left out.                                    *)
(***************************************************************************)
EXTENDS Naturals, FiniteSets

CONSTANTS
    Calls,      \* recipients of the campaign
    Quick,      \* calls that a user starts one by one
    Workers,    \* processes: queue workers and API requests
    Limit,      \* concurrent_calls_limit of the agent
    MaxFaults   \* bound: deaths, lost job locks, failed statements

ASSUME CallsAreFew ==
    /\ IsFiniteSet(Calls) /\ IsFiniteSet(Quick) /\ Calls \cap Quick = {}
    /\ IsFiniteSet(Workers) /\ Limit \in Nat /\ MaxFaults \in Nat

VARIABLES
    campaign,   \* status of the Campaign row
    row,        \* the OutboundCall rows
    session,    \* their billing sessions
    leg,        \* the callees' participants in the rooms
    dials,      \* how often each callee was dialled
    job,        \* the dispatch-call job of each call of the campaign
    proc,       \* local state of each worker
    faults

vars == <<campaign, row, session, leg, dials, job, proc, faults>>

All == Calls \cup Quick
Idle == [pc |-> "idle"]

\* An imported campaign; the calls of over were made before.
InitAfter(over) ==
    /\ campaign = IF over \cap Calls = {} THEN "SCHEDULED" ELSE "ACTIVE"
    /\ row = [c \in All |-> [status |-> IF c \in over THEN "COMPLETED"
                                        ELSE IF c \in Calls THEN "SCHEDULED" ELSE "NONE",
                             cancelled |-> FALSE]]
    /\ session = [c \in All |-> IF c \in over THEN "SETTLED" ELSE "NONE"]
    /\ leg = [c \in All |-> IF c \in over THEN "reported" ELSE "none"]
    /\ dials = [c \in All |-> IF c \in over THEN 1 ELSE 0]
    /\ job = [c \in Calls |-> "none"]
    /\ proc = [w \in Workers |-> Idle]

Init == InitAfter({}) /\ faults = 0

At(w, pc) == proc[w].pc = pc
Goto(w, local) == proc' = [proc EXCEPT ![w] = local]
Step(w, pc) == Goto(w, [proc[w] EXCEPT !.pc = pc])
Stop(w) == Goto(w, Idle)
Fault == faults < MaxFaults /\ faults' = faults + 1

Put(c, status) == row' = [row EXCEPT ![c].status = status]
With(status) == {c \in All : row[c].status \in status}

-----------------------------------------------------------------------------
(* Slots.                                                                  *)

Reserved == With({"PROCESSED", "IN_PROGRESS"})

\* Variant: a reserved call takes a slot only once it is under way.
ActiveCallsUnderWay == With({"IN_PROGRESS"}) \cup {c \in All : session[c] = "ACTIVE"}

\* readAgentDispatchCapacity: a call counts by its row or by its session.
ActiveCalls == Reserved \cup {c \in All : session[c] = "ACTIVE"}
Free == IF Cardinality(ActiveCalls) < Limit THEN Limit - Cardinality(ActiveCalls) ELSE 0

\* markCampaignActive; a cancellation holds the campaign's row till it commits.
Locked == \E w \in Workers : At(w, "cancel-rows")

Pump(w) ==
    /\ At(w, "idle") /\ ~Locked
    /\ campaign \in {"SCHEDULED", "ACTIVE"}
    /\ campaign' = "ACTIVE"
    /\ Goto(w, [pc |-> "claim-slots"])
    /\ UNCHANGED <<row, session, leg, dials, job, faults>>

Claim(w, again) ==
    LET waiting == With({"SCHEDULED"}) \cap Calls
    IN  /\ At(w, "claim-slots")
        /\ IF campaign # "ACTIVE" THEN Stop(w) /\ UNCHANGED row
           ELSE \E claimed \in SUBSET waiting :
                  /\ \/ claimed = waiting /\ Cardinality(waiting) <= Free
                     \/ Cardinality(claimed) = Free
                  /\ row' = [c \in All |-> IF c \in claimed
                                           THEN [row[c] EXCEPT !.status = "PROCESSED"]
                                           ELSE row[c]]
                  /\ Goto(w, [pc |-> "enqueue",
                              pending |-> claimed \cup again,
                              over |-> (waiting \cup Reserved) \cap Calls = {}])
        /\ UNCHANGED <<campaign, session, leg, dials, job, faults>>

\* Variant: only calls that are reserved now are queued.
ClaimSlotsOnce(w) == Claim(w, {})

\* claimCampaignDispatchSlots, serialized by a lock on the agent.  Calls that
\* were reserved before are queued again.
ClaimSlots(w) == Claim(w, With({"PROCESSED"}) \cap Calls)

EnqueueUnless(w, there) ==
    /\ At(w, "enqueue")
    /\ job' = [c \in Calls |-> IF c \in proc[w].pending /\ job[c] \notin there
                               THEN "waiting" ELSE job[c]]
    /\ IF proc[w].over THEN Step(w, "complete") ELSE Stop(w)
    /\ UNCHANGED <<campaign, row, session, leg, dials, faults>>

\* Variant: a job has a fresh id each time, so a running one does not count.
EnqueueAgain(w) == EnqueueUnless(w, {"waiting"})

\* A job keeps its id as long as it exists, so nothing is queued twice.
Enqueue(w) == EnqueueUnless(w, {"waiting", "running"})

MarkCampaignCompleted(w) ==
    /\ At(w, "complete") /\ ~Locked
    /\ campaign' = IF campaign = "ACTIVE" THEN "COMPLETED" ELSE campaign
    /\ Stop(w)
    /\ UNCHANGED <<row, session, leg, dials, job, faults>>

-----------------------------------------------------------------------------
(* createQuickOutboundCall up to its admission.                            *)

CreateQuickCall(w, q) ==
    /\ At(w, "idle") /\ row[q].status = "NONE"
    /\ Put(q, "SCHEDULED")
    /\ Goto(w, [pc |-> "claim-quick", call |-> q])
    /\ UNCHANGED <<campaign, session, leg, dials, job, faults>>

ClaimQuickCall(w) ==
    LET q == proc[w].call
    IN  /\ At(w, "claim-quick")
        /\ IF row[q].status = "SCHEDULED" /\ Free > 0
           THEN Put(q, "PROCESSED") /\ Step(w, "authorize")
           ELSE Step(w, "return-admission") /\ UNCHANGED row
        /\ UNCHANGED <<campaign, session, leg, dials, job, faults>>

-----------------------------------------------------------------------------
(* dispatchScheduledOutboundCall, and the rest of a quick call.            *)

Dispatchable(c) == row[c].status = "PROCESSED" /\ campaign = "ACTIVE"

TakeJob(w, c) ==
    /\ At(w, "idle") /\ job[c] = "waiting"
    /\ IF Dispatchable(c)
       THEN /\ job' = [job EXCEPT ![c] = "running"]
            /\ Goto(w, [pc |-> "authorize", call |-> c])
       ELSE job' = [job EXCEPT ![c] = "none"] /\ UNCHANGED proc
    /\ UNCHANGED <<campaign, row, session, leg, dials, faults>>

\* The end of a request or of a job, unless the job was taken away before.
Finish(w) ==
    LET c == proc[w].call
    IN  /\ Stop(w)
        /\ job' = IF c \in Calls /\ job[c] = "running"
                  THEN [job EXCEPT ![c] = "none"] ELSE job

\* authorizeCallBilling: a cancelled admission is made again, that of an ended
\* call is not; the wallet, the plan and the number may refuse.
Authorize(w) ==
    LET c == proc[w].call
    IN  /\ At(w, "authorize")
        /\ \/ /\ session[c] # "SETTLED"
              /\ session' = [session EXCEPT ![c] = "ACTIVE"]
              /\ Step(w, IF c \in Calls THEN "look" ELSE "dial")
           \/ UNCHANGED session /\ Step(w, "return-admission")
        /\ UNCHANGED <<campaign, row, leg, dials, job, faults>>

\* outboundParticipantExists: an earlier run of the job may have dialled.
LookForCallee(w) ==
    /\ At(w, "look")
    /\ Step(w, IF leg[proc[w].call] = "live" THEN "mark" ELSE "dial")
    /\ UNCHANGED <<campaign, row, session, leg, dials, job, faults>>

\* createDispatch and createSipParticipant: the callee is dialled, or not, or
\* is dialled and the answer lost, which is an error to the caller.
Dial(w) ==
    LET c == proc[w].call
    IN  /\ At(w, "dial")
        /\ \/ UNCHANGED <<leg, dials, faults>> /\ Step(w, "return-admission")
           \/ /\ leg' = [leg EXCEPT ![c] = "live"]
              /\ dials' = [dials EXCEPT ![c] = @ + 1]
              /\ \/ Step(w, "mark") /\ UNCHANGED faults
                 \/ Step(w, "return-admission") /\ Fault
        /\ UNCHANGED <<campaign, row, session, job>>

\* Variant: a call that was cancelled meanwhile goes on ringing.
MarkInProgressOnly(w) ==
    LET c == proc[w].call
    IN  /\ At(w, "mark")
        /\ IF row[c].status \in {"SCHEDULED", "PROCESSED"}
           THEN Put(c, "IN_PROGRESS") ELSE UNCHANGED row
        /\ Finish(w)
        /\ UNCHANGED <<campaign, session, leg, dials, faults>>

\* markInProgress; the room of a call that was cancelled meanwhile is deleted.
MarkInProgress(w) ==
    LET c == proc[w].call
    IN  /\ At(w, "mark")
        /\ \/ /\ row[c].status \in {"SCHEDULED", "PROCESSED"}
              /\ Put(c, "IN_PROGRESS")
              /\ Finish(w)
              /\ UNCHANGED <<leg, faults>>
           \/ /\ row[c].status \notin {"SCHEDULED", "PROCESSED"}
              /\ leg' = [leg EXCEPT ![c] = IF @ = "live" THEN "over" ELSE @]
              /\ Step(w, "return-admission")
              /\ UNCHANGED <<row, job, faults>>
           \/ /\ Fault
              /\ Step(w, "return-admission")
              /\ UNCHANGED <<row, leg, job>>
        /\ UNCHANGED <<campaign, session, dials>>

\* cancelCallBillingAdmission, whose errors are swallowed.
ReturnAdmission(w) ==
    LET c == proc[w].call
    IN  /\ At(w, "return-admission")
        /\ session' = [session EXCEPT ![c] = IF @ = "ACTIVE" THEN "ENDED" ELSE @]
        /\ Step(w, IF c \in Calls THEN "check" ELSE "fail")
        /\ UNCHANGED <<campaign, row, leg, dials, job, faults>>

\* "Cancellation is a successful no-op for the queue."
CheckCancelled(w) ==
    /\ At(w, "check")
    /\ IF Dispatchable(proc[w].call) THEN Step(w, "fail") /\ UNCHANGED job
       ELSE Finish(w)
    /\ UNCHANGED <<campaign, row, session, leg, dials, faults>>

\* markFailed looks at no status; the queue's next attempts find nothing to do.
MarkFailed(w) ==
    /\ At(w, "fail")
    /\ Put(proc[w].call, "FAILED")
    /\ Finish(w)
    /\ UNCHANGED <<campaign, session, leg, dials, faults>>

-----------------------------------------------------------------------------
(* Cancellation.                                                           *)

\* markCampaignCancelled reads the calls under way before it fails the others.
CancelCampaign(w) ==
    /\ At(w, "idle") /\ ~Locked
    /\ campaign \in {"SCHEDULED", "ACTIVE", "CANCELLED"}
    /\ Goto(w, [pc |-> "cancel-rows", running |-> With({"IN_PROGRESS"}) \cap Calls])
    /\ UNCHANGED <<campaign, row, session, leg, dials, job, faults>>

CancelRows(w) ==
    /\ At(w, "cancel-rows")
    /\ campaign' = "CANCELLED"
    /\ row' = [c \in All |-> IF c \in Calls /\ row[c].status \in {"SCHEDULED", "PROCESSED"}
                             THEN [row[c] EXCEPT !.status = "FAILED"] ELSE row[c]]
    /\ Step(w, "stop-calls")
    /\ UNCHANGED <<session, leg, dials, job, faults>>

StopCalls(w) ==
    /\ At(w, "stop-calls")
    /\ leg' = [c \in All |-> IF c \in proc[w].running /\ leg[c] = "live"
                             THEN "over" ELSE leg[c]]
    /\ Stop(w)
    /\ UNCHANGED <<campaign, row, session, dials, job, faults>>

\* cancelOutboundCall, first half: the status is read here, overwritten later.
CancelCall(w, c) ==
    /\ At(w, "idle") /\ row[c].status = "SCHEDULED"
    /\ Goto(w, [pc |-> "cancel-call", call |-> c])
    /\ UNCHANGED <<campaign, row, session, leg, dials, job, faults>>

Cancelled(w, status) ==
    /\ At(w, "cancel-call")
    /\ row' = [row EXCEPT ![proc[w].call] = [status |-> status, cancelled |-> TRUE]]
    /\ Stop(w)
    /\ UNCHANGED <<campaign, session, leg, dials, job, faults>>

\* Variant: a cancelled call has a status of its own, as a campaign has.
MarkCancelledByName(w) == Cancelled(w, "CANCELLED")

\* markCancelled, the second half, looks at no status either.
MarkCancelled(w) == Cancelled(w, "FAILED")

-----------------------------------------------------------------------------
(* Everybody else.                                                         *)

HangUp(c) ==
    /\ leg[c] = "live"
    /\ leg' = [leg EXCEPT ![c] = "over"]
    /\ UNCHANGED <<campaign, row, session, dials, job, proc, faults>>

\* The AI worker's last usage report and its call log.  The server stores the
\* status it is sent, and a worker's log is always that of a COMPLETED call.
ReportCall(c) ==
    /\ leg[c] = "over"
    /\ row' = [row EXCEPT ![c].status = "COMPLETED"]
    /\ session' = [session EXCEPT ![c] = IF @ = "ACTIVE" THEN "SETTLED" ELSE @]
    /\ leg' = [leg EXCEPT ![c] = "reported"]
    /\ UNCHANGED <<campaign, dials, job, proc, faults>>

\* A call that a dead process left ACTIVE is ended by the billing sweeps.
EndSilentSession(c) ==
    /\ session[c] = "ACTIVE" /\ leg[c] # "live"
    /\ \A w \in Workers : "call" \in DOMAIN proc[w] => proc[w].call # c
    /\ session' = [session EXCEPT ![c] = "SETTLED"]
    /\ UNCHANGED <<campaign, row, leg, dials, job, proc, faults>>

Requeued(c) == IF c \in Calls /\ job[c] = "running"
               THEN [job EXCEPT ![c] = "waiting"] ELSE job

Crash(w) ==
    /\ ~At(w, "idle")
    /\ Fault
    /\ job' = IF "call" \in DOMAIN proc[w] THEN Requeued(proc[w].call) ELSE job
    /\ Stop(w)
    /\ UNCHANGED <<campaign, row, session, leg, dials>>

\* A worker did not renew the lock of its job in time; it works on regardless.
LoseJobLock(c) ==
    /\ job[c] = "running"
    /\ Fault
    /\ job' = Requeued(c)
    /\ UNCHANGED <<campaign, row, session, leg, dials, proc>>

Work(w) ==
    \/ ClaimSlots(w) \/ Enqueue(w) \/ MarkCampaignCompleted(w)
    \/ ClaimQuickCall(w) \/ Authorize(w) \/ LookForCallee(w) \/ Dial(w)
    \/ MarkInProgress(w) \/ ReturnAdmission(w) \/ CheckCancelled(w) \/ MarkFailed(w)
    \/ CancelRows(w) \/ StopCalls(w) \/ MarkCancelled(w)

Next ==
    \/ \E w \in Workers : Pump(w) \/ CancelCampaign(w) \/ Work(w) \/ Crash(w)
    \/ \E w \in Workers, q \in Quick : CreateQuickCall(w, q)
    \/ \E w \in Workers, c \in Calls : TakeJob(w, c)
    \/ \E w \in Workers, c \in All : CancelCall(w, c)
    \/ \E c \in All : HangUp(c) \/ ReportCall(c) \/ EndSilentSession(c)
    \/ \E c \in Calls : LoseJobLock(c)

Spec == Init /\ [][Next]_vars

\* Processes go on, jobs are taken, the pump comes back every few seconds,
\* calls end and are reported.
Fairness ==
    /\ \A w \in Workers : WF_vars(Work(w))
    /\ SF_vars(\E w \in Workers : Pump(w))
    /\ \A c \in Calls : SF_vars(\E w \in Workers : TakeJob(w, c))
    /\ \A c \in All : WF_vars(HangUp(c)) /\ WF_vars(ReportCall(c))
                      /\ WF_vars(EndSilentSession(c))

FairSpec == Spec /\ Fairness

-----------------------------------------------------------------------------
(* What outbound dispatch promises.                                        *)

TypeOK ==
    /\ campaign \in {"SCHEDULED", "ACTIVE", "COMPLETED", "CANCELLED"}
    /\ row \in [All -> [status : {"NONE", "SCHEDULED", "PROCESSED", "IN_PROGRESS",
                                  "FAILED", "COMPLETED"}, cancelled : BOOLEAN]]
    /\ session \in [All -> {"NONE", "ACTIVE", "ENDED", "SETTLED"}]
    /\ leg \in [All -> {"none", "live", "over", "reported"}]
    /\ dials \in [All -> Nat]
    /\ job \in [Calls -> {"none", "waiting", "running"}]
    /\ faults \in 0..MaxFaults

Live == {c \in All : leg[c] = "live"}

Undisturbed ==
    /\ faults = 0 /\ campaign # "CANCELLED"
    /\ \A c \in All : ~row[c].cancelled

\* Campaign and quick calls together never talk to more people than the agent
\* may, however pumps, jobs and requests overlap, until somebody cancels or
\* something fails.
LegsWithinLimit == Undisturbed => Cardinality(Live) <= Limit

\* Nobody is called twice for one call unless a process died or lost its job
\* in between ("recovers a prior SIP participant without dialing twice").
DialledOnce == \A c \in All : dials[c] <= 1 + faults

Quiet == /\ \A w \in Workers : At(w, "idle")
         /\ \A c \in Calls : job[c] = "none"

\* Whoever wins when a campaign is cancelled while its calls are dialled: once
\* all is quiet, who is on the line belongs to a call that is recorded as under
\* way, and a call recorded as failed holds no admission.
OutcomesAreRecorded ==
    Quiet /\ faults = 0 =>
        \A c \in All :
            row[c].cancelled
            \/ /\ leg[c] = "live" => row[c].status = "IN_PROGRESS"
               /\ row[c].status = "FAILED" => session[c] # "ACTIVE"

\* A campaign comes to its end as long as no quick call loses its process,
\* which would keep a slot for ever.
CampaignEnds ==
    [](\A q \in Quick : row[q].status = "PROCESSED" =>
           \E w \in Workers : "call" \in DOMAIN proc[w] /\ proc[w].call = q)
        => (campaign = "ACTIVE" ~> campaign \in {"COMPLETED", "CANCELLED"})
=============================================================================
