--------------------------- MODULE KnowledgeIndex ---------------------------
(***************************************************************************)
(* One knowledge source, the jobs that index it and its removal            *)
(* (apps/server/src/modules/kb, workers/kb.worker.ts, the deletion of      *)
(* agents in modules/agent; apps/ai/utils/kb_index_state.py,               *)
(* handlers/kb_handler.py and vector_provider_adapters.py).                *)
(*                                                                         *)
(* A source belongs to an agent and is searched in the agent's namespace.  *)
(* A row in Postgres says what state it is in, a job in Redis has it       *)
(* indexed, a background task of the AI service stores a new generation of *)
(* vectors and publishes it in the namespace's manifest, a second Redis    *)
(* hash, by compare-and-set.  A job's worker waits ten minutes for the     *)
(* task; the task does not know when the worker has given up.  Deleting a  *)
(* source, or the agent it belongs to, fences the manifest for good.       *)
(*                                                                         *)
(* External: BullMQ, which repeats a failed job, and a stalled one once.   *)
(* Left out: the content, so an outdated generation cannot be told from a  *)
(* new one; files in S3; HTTP requests that take effect after their        *)
(* timeout, except for the background task.                                *)
(***************************************************************************)
EXTENDS Naturals, Sequences

CONSTANTS
    Agents,
    User,         \* the user, who may delete the source
    None,
    MaxJobs,      \* bound: indexing jobs
    MaxAttempts,  \* attempts of a job (3 in the code)
    MaxTasks,     \* bound: background tasks of the AI service
    MaxFaults     \* bound: deaths, lost answers, failed calls

ASSUME BoundsAreCounts == {MaxJobs, MaxTasks} \subseteq Nat /\ MaxAttempts \in Nat \ {0}

Deleters == Agents \cup {User}  \* the agents have a worker each

VARIABLES
    row,       \* the KnowledgeSource row; meta: its job or its deletion
    agents,    \* the Agent rows
    request,   \* an API request that has the source indexed
    jobs,      \* the jobs of the kb-ingest queue
    owner,     \* Redis: the job that works in a namespace
    tasks,     \* the background tasks; task n stores generation n
    vectors,   \* generations stored in each namespace
    manifest,  \* Redis: the published generation of each namespace
    deletion,  \* local state of each deletion
    faults

vars == <<row, agents, request, jobs, owner, tasks, vectors, manifest, deletion, faults>>
index == <<vectors, manifest>>

\* Generation 0 predates the manifest: no entry in it means that 0 is live.
Entry(mark, gen) == [mark |-> mark, gen |-> gen]
Visible(a) == manifest[a].mark = "live" /\ manifest[a].gen \in vectors[a]

Exists == row.status \notin {"NONE", "GONE"}
Ready == [pc |-> "none"]
AtRest == [pc |-> "idle", agent |-> None]

InitWith(status, home) ==
    /\ row = [status |-> status, agent |-> home, meta |-> None, retryable |-> TRUE]
    /\ agents = [a \in Agents |-> "here"]
    /\ request = Ready
    /\ jobs = <<>> /\ tasks = <<>>
    /\ owner = [a \in Agents |-> None]
    /\ vectors = [a \in Agents |-> IF a = home THEN {0} ELSE {}]
    /\ manifest = [a \in Agents |-> Entry("live", 0)]
    /\ deletion = [d \in Deleters |-> AtRest]
    /\ faults = 0

\* No source yet, or one that was indexed before there was a manifest.
Init == InitWith("NONE", None) \/ \E a \in Agents : InitWith("ACTIVE", a)

Fault == faults < MaxFaults /\ faults' = faults + 1

-----------------------------------------------------------------------------
(* Requests.                                                               *)

NewJob(agent, previous, pc) ==
    /\ Len(jobs) < MaxJobs
    /\ jobs' = Append(jobs, [agent |-> agent, previous |-> previous, pc |-> pc, attempts |-> 0,
                             stalled |-> FALSE, task |-> 0, failure |-> "none"])

NextJob == Len(jobs) + 1
Index(agent) == [status |-> "PROCESSING", agent |-> agent, meta |-> NextJob, retryable |-> TRUE]
Enqueueing == request' = [pc |-> "enqueue", job |-> NextJob]

\* createKnowledgeSources; a deletion that is pending does not matter.
Create(a) ==
    /\ request = Ready /\ row.status = "NONE" /\ agents[a] # "gone"
    /\ row' = Index(a)
    /\ NewJob(a, None, "unsent")
    /\ Enqueueing
    /\ UNCHANGED <<agents, owner, tasks, index, deletion, faults>>

\* updateKnowledgeSource looks at the source ...
ReadForEdit(a) ==
    /\ request = Ready /\ Exists
    /\ row.status # "PROCESSING" /\ row.meta \notin Deleters
    /\ request' = [pc |-> "edit", to |-> a]
    /\ UNCHANGED <<row, agents, jobs, owner, tasks, index, deletion, faults>>

\* ... and prepareKnowledgeSourceUpdate only at its status.
PrepareEdit ==
    LET a == request.to
    IN  /\ request.pc = "edit"
        /\ IF Exists /\ row.status # "PROCESSING" /\ agents[a] # "gone"
           THEN /\ row' = Index(a)
                /\ NewJob(a, IF row.agent = a THEN None ELSE row.agent, "unsent")
                /\ Enqueueing
           ELSE request' = Ready /\ UNCHANGED <<row, jobs>>
        /\ UNCHANGED <<agents, owner, tasks, index, deletion, faults>>

ReadForRetry ==
    /\ request = Ready
    /\ row.status = "ERROR" /\ row.retryable /\ row.agent # None
    /\ request' = [pc |-> "retry", agent |-> row.agent]
    /\ UNCHANGED <<row, agents, jobs, owner, tasks, index, deletion, faults>>

\* claimRetry; the job goes to the agent that was read.
ClaimRetry ==
    /\ request.pc = "retry"
    /\ IF row.status = "ERROR"
       THEN row' = Index(row.agent) /\ NewJob(request.agent, None, "unsent") /\ Enqueueing
       ELSE request' = Ready /\ UNCHANGED <<row, jobs>>
    /\ UNCHANGED <<agents, owner, tasks, index, deletion, faults>>

\* reindexActiveKnowledgeSources queues first, with a delay, ...
AddReindex ==
    /\ request = Ready /\ row.status = "ACTIVE" /\ row.agent # None
    /\ NewJob(row.agent, None, "delayed")
    /\ request' = [pc |-> "claim", job |-> NextJob]
    /\ UNCHANGED <<row, agents, owner, tasks, index, deletion, faults>>

\* ... and claims the source afterwards.
ClaimReindex ==
    LET j == request.job
    IN  /\ request.pc = "claim"
        /\ IF row.status = "ACTIVE"
           THEN /\ row' = [row EXCEPT !.status = "PROCESSING", !.meta = j, !.retryable = TRUE]
                /\ jobs' = [jobs EXCEPT ![j].pc = "queued"]
           ELSE jobs' = [jobs EXCEPT ![j].pc = "done"] /\ UNCHANGED row
        /\ request' = Ready
        /\ UNCHANGED <<agents, owner, tasks, index, deletion, faults>>

Failed(retryable) == [row EXCEPT !.status = "ERROR", !.retryable = retryable]
Mine(j) == row.status = "PROCESSING" /\ row.meta = j

Enqueue ==
    LET j == request.job
    IN  /\ request.pc = "enqueue"
        /\ \/ jobs' = [jobs EXCEPT ![j].pc = "queued"] /\ UNCHANGED <<row, faults>>
           \/ /\ Fault
              /\ jobs' = [jobs EXCEPT ![j].pc = "done"]
              /\ row' = IF Mine(j) THEN Failed(TRUE) ELSE row
        /\ request' = Ready
        /\ UNCHANGED <<agents, owner, tasks, index, deletion>>

\* The API process dies.
RequestDies ==
    /\ request # Ready /\ Fault
    /\ request' = Ready
    /\ UNCHANGED <<row, agents, jobs, owner, tasks, index, deletion>>

-----------------------------------------------------------------------------
(* The worker of a job.                                                    *)

JobAt(j, pc) == jobs[j].pc = pc
JobGoes(j, pc) == jobs' = [jobs EXCEPT ![j].pc = pc]
Home(j) == jobs[j].agent

\* markProcessing.  The delay of a reindex outlasts its claim.
ClaimSource(j) ==
    /\ \/ JobAt(j, "queued")
       \/ JobAt(j, "delayed") /\ request.pc # "claim"
    /\ JobGoes(j, IF Mine(j) THEN "track" ELSE "done")
    /\ UNCHANGED <<row, agents, request, owner, tasks, index, deletion, faults>>

TrackKbJob(j) ==
    /\ JobAt(j, "track")
    /\ owner' = [owner EXCEPT ![Home(j)] = j]
    /\ JobGoes(j, IF jobs[j].previous = None THEN "send" ELSE "revoke")
    /\ UNCHANGED <<row, agents, request, tasks, index, deletion, faults>>

\* Every revocation has a mark of its own.
Revocation(j) == 2 * (j * MaxAttempts + jobs[j].attempts) + IF jobs[j].stalled THEN 1 ELSE 0

\* deleteKbDocumentVectors(permanent: false) for the previous agent.
RevokePrevious(j) ==
    LET a == jobs[j].previous
        old == manifest[a]
    IN  /\ JobAt(j, "revoke")
        /\ manifest' = IF old.mark = "deleted" THEN manifest
                       ELSE [manifest EXCEPT ![a] = Entry("revoked", Revocation(j))]
        /\ vectors' = IF old.mark = "live" THEN [vectors EXCEPT ![a] = @ \ {old.gen}] ELSE vectors
        /\ JobGoes(j, "send")
        /\ UNCHANGED <<row, agents, request, owner, tasks, deletion, faults>>

\* processKbDocuments; the task notes what is published as soon as it begins,
\* long before its job is attempted again.
SendDocument(j) ==
    LET now == manifest[Home(j)]
    IN  /\ JobAt(j, "send") /\ Len(tasks) < MaxTasks
        /\ tasks' = Append(tasks, [agent |-> Home(j), before |-> now, seen |-> now,
                                   pc |-> IF now.mark = "deleted" THEN "failed" ELSE "running"])
        /\ jobs' = [jobs EXCEPT ![j].pc = "wait", ![j].task = Len(tasks) + 1]
        /\ UNCHANGED <<row, agents, request, owner, index, deletion, faults>>

\* Variant: a job is repeated as often as it fails.
AlwaysRepeats(j, failure) ==
    [jobs EXCEPT ![j].pc = "queued", ![j].attempts = @ + 1, ![j].failure = failure]

\* isFinalKbJobAttempt; only a final failure is recorded.
AfterFailure(j, failure) ==
    LET final == failure = "fatal" \/ jobs[j].attempts + 1 >= MaxAttempts
    IN  [jobs EXCEPT ![j].pc = IF final THEN "hide" ELSE "queued",
                     ![j].attempts = @ + 1, ![j].failure = failure]

\* pollKbJob, assertKbProcessingSucceeded.
ReadResult(j) ==
    /\ JobAt(j, "wait")
    /\ \/ tasks[jobs[j].task].pc = "ok" /\ JobGoes(j, "activate")
       \/ /\ tasks[jobs[j].task].pc = "failed"
          /\ \E failure \in {"retryable", "fatal"} : jobs' = AfterFailure(j, failure)
    /\ UNCHANGED <<row, agents, request, owner, tasks, index, deletion, faults>>

\* A call fails, or the task takes longer than ten minutes.
JobThrows(j) ==
    /\ jobs[j].pc \in {"track", "revoke", "send", "wait"}
    /\ IF JobAt(j, "wait") /\ tasks[jobs[j].task].pc = "lost" THEN UNCHANGED faults ELSE Fault
    /\ jobs' = AfterFailure(j, "thrown")
    /\ UNCHANGED <<row, agents, request, owner, tasks, index, deletion>>

\* markActive; counting the sources of an agent that is gone aborts it.
MarkActive(j) ==
    /\ JobAt(j, "activate")
    /\ IF agents[Home(j)] = "gone" THEN jobs' = AfterFailure(j, "thrown") /\ UNCHANGED row
       ELSE /\ row' = IF Mine(j) /\ row.agent = Home(j)
                      THEN [row EXCEPT !.status = "ACTIVE", !.retryable = TRUE] ELSE row
            /\ JobGoes(j, "finish")
    /\ UNCHANGED <<agents, request, owner, tasks, index, deletion, faults>>

Disowned(j) == IF owner[Home(j)] = j THEN [owner EXCEPT ![Home(j)] = None] ELSE owner

FinishKbJob(j) ==
    /\ JobAt(j, "finish")
    /\ owner' = Disowned(j)
    /\ JobGoes(j, "done")
    /\ UNCHANGED <<row, agents, request, tasks, index, deletion, faults>>

\* finishKbJob(failed): whatever the owner of the namespace left is hidden.
HideFailed(j) ==
    LET a == Home(j)
    IN  /\ JobAt(j, "hide")
        /\ manifest' = IF owner[a] = j /\ manifest[a].mark = "live"
                       THEN [manifest EXCEPT ![a].mark = "failed"] ELSE manifest
        /\ owner' = Disowned(j)
        /\ JobGoes(j, "mark")
        /\ UNCHANGED <<row, agents, request, tasks, vectors, deletion, faults>>

\* markError, or applyProcessingSummary for what the AI service reported.
MarkFailed(j) ==
    LET reported == jobs[j].failure \in {"retryable", "fatal"}
    IN  /\ JobAt(j, "mark")
        /\ row' = IF Mine(j) /\ (reported => row.agent = Home(j) /\ agents[Home(j)] # "gone")
                  THEN Failed(jobs[j].failure # "fatal") ELSE row
        /\ JobGoes(j, "done")
        /\ UNCHANGED <<agents, request, owner, tasks, index, deletion, faults>>

\* The worker dies.  A running job is given to another worker, once; the
\* record of its failure, which is made after the job, is not repeated.
WorkerDies(j) ==
    /\ Fault
    /\ \/ /\ jobs[j].pc \in {"track", "revoke", "send", "wait", "activate", "finish"}
          /\ ~jobs[j].stalled
          /\ jobs' = [jobs EXCEPT ![j].pc = "queued", ![j].stalled = TRUE]
       \/ jobs[j].pc \in {"hide", "mark"} /\ JobGoes(j, "done")
    /\ UNCHANGED <<row, agents, request, owner, tasks, index, deletion>>

-----------------------------------------------------------------------------
(* The background task of the AI service (run_kb_job).                     *)

TaskAt(n, pc) == tasks[n].pc = pc
TaskGoes(n, pc) == tasks' = [tasks EXCEPT ![n].pc = pc]
Space(n) == tasks[n].agent

\* The document is fetched, cut and embedded; upsert stores its vectors.
StageVectors(n) ==
    LET a == Space(n)
    IN  /\ TaskAt(n, "running")
        /\ IF manifest[a].mark = "deleted" THEN TaskGoes(n, "failing") /\ UNCHANGED vectors
           ELSE /\ tasks' = [tasks EXCEPT ![n].pc = "staged", ![n].seen = manifest[a]]
                /\ vectors' = [vectors EXCEPT ![a] = @ \cup {n}]
        /\ UNCHANGED <<row, agents, request, jobs, owner, manifest, deletion, faults>>

\* Fetching, embedding or storing fails.
DocumentFails(n) ==
    /\ TaskAt(n, "running") /\ Fault
    /\ TaskGoes(n, "failing")
    /\ UNCHANGED <<row, agents, request, jobs, owner, index, deletion>>

PublishIf(n, accepted) ==
    LET a == Space(n)
    IN  /\ TaskAt(n, "staged")
        /\ IF accepted
           THEN /\ manifest' = [manifest EXCEPT ![a] = Entry("live", n)]
                /\ \/ TaskGoes(n, "published") /\ UNCHANGED faults
                   \/ Fault /\ TaskGoes(n, "failing")  \* nobody hears that it was
           ELSE TaskGoes(n, "failing") /\ UNCHANGED <<manifest, faults>>
        /\ vectors' = IF accepted THEN vectors ELSE [vectors EXCEPT ![a] = @ \ {n}]
        /\ UNCHANGED <<row, agents, request, jobs, owner, deletion>>

\* Variant: a plain write of the new generation.
PublishBlindly(n) == PublishIf(n, TRUE)

\* publish_confirmed: compare-and-set against what upsert saw.
Publish(n) == PublishIf(n, manifest[Space(n)] = tasks[n].seen)

\* The generation that was replaced is removed; if that fails it stays.
CleanReplaced(n) ==
    LET old == tasks[n].seen
    IN  /\ TaskAt(n, "published")
        /\ IF old.mark = "revoked" THEN UNCHANGED <<vectors, faults>>
           ELSE \/ vectors' = [vectors EXCEPT ![Space(n)] = @ \ {old.gen}] /\ UNCHANGED faults
                \/ Fault /\ UNCHANGED vectors
        /\ TaskGoes(n, "ok")
        /\ UNCHANGED <<row, agents, request, jobs, owner, manifest, deletion>>

GiveUpIf(n, current) ==
    LET a == Space(n)
    IN  /\ TaskAt(n, "failing")
        /\ \/ /\ manifest' = IF manifest[a].mark = "live" /\ current
                             THEN [manifest EXCEPT ![a].mark = "failed"] ELSE manifest
              /\ UNCHANGED faults
           \/ Fault /\ UNCHANGED manifest
        /\ TaskGoes(n, "failed")
        /\ UNCHANGED <<row, agents, request, jobs, owner, vectors, deletion>>

\* Variant: whatever is published by now is hidden.
GiveUpBlindly(n) == GiveUpIf(n, TRUE)

\* revoke_failed hides the generation that was live when the task began.
GiveUp(n) == GiveUpIf(n, manifest[Space(n)] = tasks[n].before)

\* The AI service restarts.
TaskDies(n) ==
    /\ tasks[n].pc \notin {"ok", "failed", "lost"} /\ Fault
    /\ TaskGoes(n, "lost")
    /\ UNCHANGED <<row, agents, request, jobs, owner, index, deletion>>

-----------------------------------------------------------------------------
(* Deletion, of the source by the user or along with its agent.            *)

DeletionAt(d, pc) == deletion[d].pc = pc
DeletionGoes(d, pc) == deletion' = [deletion EXCEPT ![d].pc = pc]
DeletionStops(d) == deletion' = [deletion EXCEPT ![d] = AtRest]

RequestAgentDeletion(a) ==
    /\ agents[a] = "here"
    /\ agents' = [agents EXCEPT ![a] = "deleting"]
    /\ UNCHANGED <<row, request, jobs, owner, tasks, index, deletion, faults>>

\* A worker lists the sources of the agent; recovery restarts it if it fails.
ListSources(a) ==
    /\ agents[a] = "deleting" /\ DeletionAt(a, "idle")
    /\ DeletionGoes(a, IF Exists /\ row.agent = a THEN "read" ELSE "drop")
    /\ UNCHANGED <<row, agents, request, jobs, owner, tasks, index, faults>>

ReadUnless(d, refused) ==
    /\ DeletionAt(d, IF d = User THEN "idle" ELSE "read")
    /\ IF Exists /\ ~refused
       THEN deletion' = [deletion EXCEPT ![d] = [pc |-> "claim", agent |-> row.agent]]
       ELSE DeletionStops(d)
    /\ UNCHANGED <<row, agents, request, jobs, owner, tasks, index, faults>>

\* Variant: a source that is being deleted already is refused.
ReadForDeletionOnce(d) == ReadUnless(d, row.meta \in Deleters)

\* claimKnowledgeSourceDeletion reads the row and then writes it.
ReadForDeletion(d) == ReadUnless(d, FALSE)

ClaimDeletion(d) ==
    /\ DeletionAt(d, "claim")
    /\ IF Exists
       THEN /\ row' = [row EXCEPT !.status = "ERROR", !.meta = d, !.retryable = FALSE]
            /\ DeletionGoes(d, "clean")
       ELSE DeletionStops(d) /\ UNCHANGED row
    /\ UNCHANGED <<agents, request, jobs, owner, tasks, index, faults>>

\* cleanupKnowledgeSourceAssets in the namespace of the agent that was read.
CleanAssets(d) ==
    LET a == deletion[d].agent
    IN  /\ DeletionAt(d, "clean")
        /\ IF a = None THEN DeletionGoes(d, "remove") /\ UNCHANGED <<index, faults>>
           ELSE /\ manifest' = [manifest EXCEPT ![a] = Entry("deleted", 0)]
                /\ \/ /\ vectors' = [vectors EXCEPT ![a] = {}]
                      /\ DeletionGoes(d, "remove") /\ UNCHANGED faults
                   \/ Fault /\ DeletionStops(d) /\ UNCHANGED vectors
        /\ UNCHANGED <<row, agents, request, jobs, owner, tasks>>

\* deleteKnowledgeSource.  A row that is gone keeps here the agent whose
\* namespace was cleaned.  Only the user is told that another request won.
RemoveSource(d) ==
    /\ DeletionAt(d, "remove")
    /\ row' = IF Exists /\ row.meta = d
              THEN [row EXCEPT !.status = "GONE", !.agent = deletion[d].agent] ELSE row
    /\ IF d = User THEN DeletionStops(d) ELSE DeletionGoes(d, "drop")
    /\ UNCHANGED <<agents, request, jobs, owner, tasks, index, faults>>

\* deleteAgent; the foreign key of a source it still has becomes null.
DropAgent(a) ==
    /\ DeletionAt(a, "drop")
    /\ agents' = [agents EXCEPT ![a] = "gone"]
    /\ row' = IF Exists /\ row.agent = a THEN [row EXCEPT !.agent = None] ELSE row
    /\ DeletionStops(a)
    /\ UNCHANGED <<request, jobs, owner, tasks, index, faults>>

DeletionDies(d) ==
    /\ ~DeletionAt(d, "idle") /\ Fault
    /\ DeletionStops(d)
    /\ UNCHANGED <<row, agents, request, jobs, owner, tasks, index>>

-----------------------------------------------------------------------------
Request ==
    \/ \E a \in Agents : Create(a) \/ ReadForEdit(a)
    \/ PrepareEdit \/ ReadForRetry \/ ClaimRetry
    \/ AddReindex \/ ClaimReindex \/ Enqueue \/ RequestDies

Work(j) ==
    \/ ClaimSource(j) \/ TrackKbJob(j) \/ RevokePrevious(j) \/ SendDocument(j) \/ ReadResult(j)
    \/ JobThrows(j) \/ MarkActive(j) \/ FinishKbJob(j) \/ HideFailed(j) \/ MarkFailed(j)
    \/ WorkerDies(j)

Process(n) ==
    \/ StageVectors(n) \/ DocumentFails(n) \/ Publish(n) \/ CleanReplaced(n)
    \/ GiveUp(n) \/ TaskDies(n)

Delete(d) ==
    \/ ReadForDeletion(d) \/ ClaimDeletion(d) \/ CleanAssets(d) \/ RemoveSource(d)

Next ==
    \/ Request
    \/ \E j \in DOMAIN jobs : Work(j)
    \/ \E n \in DOMAIN tasks : Process(n)
    \/ \E d \in Deleters : Delete(d) \/ DeletionDies(d)
    \/ \E a \in Agents : RequestAgentDeletion(a) \/ ListSources(a) \/ DropAgent(a)

Spec == Init /\ [][Next]_vars

\* Recovery restarts the deletion of an agent as long as its row is there.
Fairness == \A a \in Agents : WF_vars(ListSources(a) \/ Delete(a) \/ DropAgent(a))

FairSpec == Spec /\ Fairness

-----------------------------------------------------------------------------
Marks == {"live", "failed", "revoked", "deleted"}
Entries == [mark : Marks, gen : Nat]
Stages == {"unsent", "delayed", "queued", "track", "revoke", "send", "wait", "activate",
           "finish", "hide", "mark", "done"}

\* Every variable has its shape, and a job is attempted as often as its
\* queue allows.
TypeOK ==
    /\ row \in [status : {"NONE", "PROCESSING", "ACTIVE", "ERROR", "GONE"},
                agent : Agents \cup {None}, meta : (1..MaxJobs) \cup Deleters \cup {None},
                retryable : BOOLEAN]
    /\ agents \in [Agents -> {"here", "deleting", "gone"}]
    /\ \A j \in DOMAIN jobs :
         jobs[j] \in [agent : Agents, previous : Agents \cup {None}, pc : Stages,
                      attempts : 0..MaxAttempts, stalled : BOOLEAN, task : 0..MaxTasks,
                      failure : {"none", "thrown", "retryable", "fatal"}]
    /\ owner \in [Agents -> (1..MaxJobs) \cup {None}]
    /\ \A n \in DOMAIN tasks :
         tasks[n] \in [agent : Agents, before : Entries, seen : Entries,
                       pc : {"running", "staged", "published", "failing", "ok",
                             "failed", "lost"}]
    /\ vectors \in [Agents -> SUBSET (0..MaxTasks)]
    /\ manifest \in [Agents -> Entries]
    /\ deletion \in [Deleters -> [pc : {"idle", "read", "claim", "clean", "remove", "drop"},
                                  agent : Agents \cup {None}]]

\* A source that the console shows as ACTIVE is found by its agent, whatever
\* jobs that were given up, and their tasks, do late; unless a deletion that
\* was overtaken by an edit has fenced it.
ActiveIsServed ==
    row.status = "ACTIVE" /\ row.agent # None =>
        Visible(row.agent) \/ manifest[row.agent].mark = "deleted"

\* Once a source is removed, no task that was still under way brings it back
\* to the agent it was removed from.  (Another agent may still find it, when
\* it was moved and the deletion cancelled the job that would have revoked it
\* there, kb.worker.ts:48, or was itself overtaken by the move.)
GoneIsFenced ==
    row.status = "GONE" /\ row.agent # None =>
        manifest[row.agent].mark = "deleted" /\ ~Visible(row.agent)

\* The deletion of an agent that was accepted is carried out, whatever
\* happens to its source meanwhile.
AgentDeletionEnds == \A a \in Agents : agents[a] = "deleting" ~> agents[a] = "gone"
=============================================================================
