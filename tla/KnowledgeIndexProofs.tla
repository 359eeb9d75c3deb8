------------------------ MODULE KnowledgeIndexProofs ------------------------
(***************************************************************************)
(* Proofs about KnowledgeIndex for any number of agents, jobs, attempts,   *)
(* background tasks and faults.                                            *)
(***************************************************************************)
EXTENDS KnowledgeIndex, TLAPS

-----------------------------------------------------------------------------
(* The inductive invariant.                                                *)

Rows == [status : {"NONE", "PROCESSING", "ACTIVE", "ERROR", "GONE"},
         agent : Agents \cup {None}, meta : (1..MaxJobs) \cup Deleters \cup {None},
         retryable : BOOLEAN]

JobRecords == [agent : Agents, previous : Agents \cup {None}, pc : Stages,
               attempts : 0..MaxAttempts, stalled : BOOLEAN, task : 0..MaxTasks,
               failure : {"none", "thrown", "retryable", "fatal"}]

TaskRecords == [agent : Agents, before : Entries, seen : Entries,
                pc : {"running", "staged", "published", "failing", "ok", "failed", "lost"}]

Deletions == [pc : {"idle", "read", "claim", "clean", "remove", "drop"},
              agent : Agents \cup {None}]

RowTyped == row \in Rows /\ agents \in [Agents -> {"here", "deleting", "gone"}]

\* A job that may still be attempted has an attempt left.
Attemptable(job) ==
    job.pc \notin {"hide", "mark", "done"} => job.attempts < MaxAttempts

JobsTyped ==
    /\ jobs \in Seq(JobRecords) /\ Len(jobs) =< MaxJobs
    /\ \A j \in 1..Len(jobs) : Attemptable(jobs[j])

\* The job of a request waits for the request.
JobWaits(j, pc) == j \in 1..Len(jobs) /\ jobs[j].pc = pc

RequestTyped ==
    /\ request.pc = "edit" => request.to \in Agents
    /\ request.pc = "retry" => request.agent \in Agents
    /\ request.pc = "enqueue" => JobWaits(request.job, "unsent")
    /\ request.pc = "claim" => JobWaits(request.job, "delayed")

IndexTyped ==
    /\ owner \in [Agents -> (1..MaxJobs) \cup {None}]
    /\ vectors \in [Agents -> SUBSET (0..MaxTasks)]
    /\ manifest \in [Agents -> Entries]

TasksTyped == tasks \in Seq(TaskRecords) /\ Len(tasks) =< MaxTasks

DeletionTyped == deletion \in [Deleters -> Deletions]

Typed == RowTyped /\ JobsTyped /\ RequestTyped /\ IndexTyped /\ TasksTyped /\ DeletionTyped

Fenced(a) == manifest[a].mark = "deleted"

\* A task that is about to publish saw no deletion, a deletion that is about
\* to remove the row has fenced the source, and the fence outlives the row.
TasksSawNoFence ==
    \A n \in 1..Len(tasks) : tasks[n].pc = "staged" => tasks[n].seen.mark # "deleted"
CleanedIsFenced ==
    \A d \in Deleters :
        deletion[d].pc = "remove" /\ deletion[d].agent # None => Fenced(deletion[d].agent)
RemovedIsFenced == row.status = "GONE" /\ row.agent # None => Fenced(row.agent)

Fences == TasksSawNoFence /\ CleanedIsFenced /\ RemovedIsFenced

Inv == Typed /\ Fences

LEMMA InitInv == Init => Inv
  <1> SUFFICES ASSUME Init PROVE Inv
    OBVIOUS
  <1> USE BoundsAreCounts
  <1>1. PICK status \in {"NONE", "ACTIVE"}, home \in Agents \cup {None} : InitWith(status, home)
    BY DEF Init
  <1>2. RowTyped
    BY <1>1 DEF InitWith, RowTyped, Rows
  <1>3. JobsTyped /\ TasksTyped
    BY <1>1 DEF InitWith, JobsTyped, TasksTyped
  <1>4. RequestTyped
    BY <1>1 DEF InitWith, RequestTyped, Ready
  <1>5. IndexTyped
    BY <1>1 DEF InitWith, IndexTyped, Entry, Entries, Marks
  <1>6. DeletionTyped
    BY <1>1 DEF InitWith, DeletionTyped, Deletions, AtRest
  <1>7. Fences
    BY <1>1 DEF InitWith, Fences, TasksSawNoFence, CleanedIsFenced, RemovedIsFenced, AtRest
  <1> QED BY <1>2, <1>3, <1>4, <1>5, <1>6, <1>7 DEF Inv, Typed

-----------------------------------------------------------------------------
(* What the steps do to one variable.                                      *)

\* A step that lifts no fence keeps what is said about a variable it keeps.
NothingUnfenced == \A a \in Agents : Fenced(a) => Fenced(a)'

LEMMA FencesKept ==
    ASSUME Inv, NothingUnfenced,
           tasks' = tasks \/ TasksSawNoFence',
           deletion' = deletion \/ CleanedIsFenced',
           row' = row \/ RemovedIsFenced'
    PROVE  Fences'
  BY DEF Inv, Typed, Fences, TasksSawNoFence, CleanedIsFenced, RemovedIsFenced,
         NothingUnfenced, DeletionTyped, Deletions, RowTyped, Rows

OthersKept(j) == \A i \in 1..Len(jobs) : i # j => jobs'[i] = jobs[i]

Running(j) == jobs[j].pc \notin {"hide", "mark", "done"}

LEMMA JobBecomes ==
    ASSUME JobsTyped, NEW j \in 1..Len(jobs), NEW job \in JobRecords, Attemptable(job),
           jobs' = [jobs EXCEPT ![j] = job]
    PROVE  JobsTyped' /\ Len(jobs') = Len(jobs) /\ OthersKept(j)
  BY DEF JobsTyped, Attemptable, OthersKept

LEMMA JobGoesOn ==
    ASSUME JobsTyped, NEW j \in 1..Len(jobs), NEW pc \in Stages, JobGoes(j, pc),
           Running(j) \/ pc \in {"hide", "mark", "done"}
    PROVE  JobsTyped' /\ Len(jobs') = Len(jobs) /\ OthersKept(j)
  <1> DEFINE job == [jobs[j] EXCEPT !.pc = pc]
  <1>1. jobs[j] \in JobRecords /\ Attemptable(jobs[j])
    BY DEF JobsTyped
  <1>2. job \in JobRecords /\ Attemptable(job)
    BY <1>1 DEF JobRecords, Attemptable, Running
  <1>3. jobs' = [jobs EXCEPT ![j] = job]
    BY DEF JobGoes
  <1> QED BY <1>2, <1>3, JobBecomes

LEMMA JobFails ==
    ASSUME JobsTyped, NEW j \in 1..Len(jobs), NEW failure \in {"thrown", "retryable", "fatal"},
           Running(j), jobs' = AfterFailure(j, failure)
    PROVE  JobsTyped' /\ Len(jobs') = Len(jobs) /\ OthersKept(j)
  <1> DEFINE final == failure = "fatal" \/ jobs[j].attempts + 1 >= MaxAttempts
             job == [jobs[j] EXCEPT !.pc = IF final THEN "hide" ELSE "queued",
                                    !.attempts = @ + 1, !.failure = failure]
  <1>1. jobs[j] \in JobRecords /\ jobs[j].attempts < MaxAttempts
    BY DEF JobsTyped, Attemptable, Running
  <1>2. jobs[j].attempts + 1 \in 0..MaxAttempts
        /\ (~final => jobs[j].attempts + 1 < MaxAttempts)
    BY <1>1, BoundsAreCounts DEF JobRecords
  <1>3. jobs' = [jobs EXCEPT ![j] = job]
    BY DEF AfterFailure
  <1> HIDE DEF final
  <1>4. job \in JobRecords
    BY <1>1, <1>2 DEF JobRecords, Stages
  <1>5. job.pc = (IF final THEN "hide" ELSE "queued") /\ job.attempts = jobs[j].attempts + 1
    BY <1>1 DEF JobRecords
  <1> HIDE DEF job
  <1>6. Attemptable(job)
    BY <1>2, <1>5 DEF Attemptable
  <1> QED BY <1>3, <1>4, <1>6, JobBecomes

LEMMA JobIsNew ==
    ASSUME JobsTyped, NEW agent \in Agents, NEW previous \in Agents \cup {None},
           NEW pc \in Stages \ {"hide", "mark", "done"}, NewJob(agent, previous, pc)
    PROVE  /\ JobsTyped' /\ Len(jobs') = Len(jobs) + 1
           /\ NextJob \in 1..MaxJobs
           /\ NextJob \in 1..Len(jobs') /\ jobs'[NextJob].pc = pc
  <1> DEFINE job == [agent |-> agent, previous |-> previous, pc |-> pc, attempts |-> 0,
                     stalled |-> FALSE, task |-> 0, failure |-> "none"]
  <1>1. job \in JobRecords /\ Attemptable(job)
    BY BoundsAreCounts DEF JobRecords, Attemptable
  <1>2. jobs' = Append(jobs, job) /\ Len(jobs) < MaxJobs
    BY DEF NewJob
  <1> HIDE DEF job
  <1>3. Len(jobs) \in Nat /\ Len(jobs') = Len(jobs) + 1 /\ jobs' \in Seq(JobRecords)
    BY <1>1, <1>2 DEF JobsTyped
  <1>4. ASSUME NEW j \in 1..Len(jobs') PROVE Attemptable(jobs'[j])
    BY <1>1, <1>2, <1>3 DEF JobsTyped
  <1>5. Len(jobs') =< MaxJobs
    BY <1>2, <1>3, BoundsAreCounts
  <1>6. jobs'[NextJob] = job /\ job.pc = pc
    BY <1>1, <1>2, <1>3 DEF JobsTyped, NextJob, job
  <1> QED BY <1>3, <1>4, <1>5, <1>6, BoundsAreCounts DEF JobsTyped, NextJob, Attemptable

\* The job of a request waits although another job goes on.
LEMMA RequestKept ==
    ASSUME Typed, request' = request, NEW j \in 1..Len(jobs), JobsTyped',
           Len(jobs') = Len(jobs), OthersKept(j),
           \/ jobs[j].pc \notin {"unsent", "delayed"}
           \/ jobs[j].pc = "delayed" /\ request.pc # "claim"
    PROVE  RequestTyped'
  BY DEF Typed, RequestTyped, JobsTyped, OthersKept, JobWaits

LEMMA TaskBecomes ==
    ASSUME TasksTyped, TasksSawNoFence, NEW n \in 1..Len(tasks), NEW task \in TaskRecords,
           task.pc = "staged" => task.seen.mark # "deleted",
           tasks' = [tasks EXCEPT ![n] = task]
    PROVE  TasksTyped' /\ TasksSawNoFence'
  BY DEF TasksTyped, TasksSawNoFence

LEMMA TaskGoesOn ==
    ASSUME TasksTyped, TasksSawNoFence, NEW n \in 1..Len(tasks),
           NEW pc \in {"published", "failing", "ok", "failed", "lost"}, TaskGoes(n, pc)
    PROVE  TasksTyped' /\ TasksSawNoFence'
  <1> DEFINE task == [tasks[n] EXCEPT !.pc = pc]
  <1>1. tasks[n] \in TaskRecords
    BY DEF TasksTyped
  <1>2. task \in TaskRecords /\ task.pc # "staged"
    BY <1>1 DEF TaskRecords
  <1>3. tasks' = [tasks EXCEPT ![n] = task]
    BY DEF TaskGoes
  <1> HIDE DEF task
  <1> QED BY <1>2, <1>3, TaskBecomes

LEMMA DeletionBecomes ==
    ASSUME DeletionTyped, CleanedIsFenced, NothingUnfenced, NEW d \in Deleters,
           NEW local \in Deletions, deletion' = [deletion EXCEPT ![d] = local],
           local.pc = "remove" /\ local.agent # None => Fenced(local.agent)'
    PROVE  DeletionTyped' /\ CleanedIsFenced'
  BY DEF DeletionTyped, CleanedIsFenced, NothingUnfenced, Deletions

\* What is said about variables that a step leaves alone.
LEMMA Unchanged ==
    ASSUME Typed
    PROVE  /\ UNCHANGED <<row, agents>> => RowTyped'
           /\ UNCHANGED jobs => JobsTyped'
           /\ UNCHANGED <<request, jobs>> => RequestTyped'
           /\ UNCHANGED <<owner, index>> => IndexTyped'
           /\ UNCHANGED tasks => TasksTyped'
           /\ UNCHANGED deletion => DeletionTyped'
           /\ UNCHANGED manifest => NothingUnfenced
  BY DEF Typed, RowTyped, JobsTyped, RequestTyped, JobWaits, IndexTyped, index, TasksTyped,
         DeletionTyped, NothingUnfenced, Fenced

LEMMA InvKept ==
    ASSUME Inv, RowTyped', JobsTyped', RequestTyped', IndexTyped', TasksTyped', DeletionTyped',
           NothingUnfenced,
           tasks' = tasks \/ TasksSawNoFence',
           deletion' = deletion \/ CleanedIsFenced',
           row' = row \/ RemovedIsFenced'
    PROVE  Inv'
  BY FencesKept DEF Inv, Typed

\* Steps that neither touch the index nor a deletion, nor remove the source.
LEMMA IndexingKeeps ==
    ASSUME Inv, RowTyped', JobsTyped', RequestTyped', TasksTyped',
           UNCHANGED <<owner, index, deletion>>,
           tasks' = tasks \/ TasksSawNoFence',
           row' = row \/ row'.status # "GONE"
    PROVE  Inv'
  <1>1. Typed
    BY DEF Inv
  <1>2. IndexTyped' /\ DeletionTyped' /\ NothingUnfenced /\ deletion' = deletion
    BY <1>1, Unchanged DEF index
  <1>3. row' = row \/ RemovedIsFenced'
    BY DEF RemovedIsFenced
  <1> QED BY <1>2, <1>3, InvKept

-----------------------------------------------------------------------------
(* Every step preserves the invariant.                                     *)

LEMMA RowMoves ==
    ASSUME Typed, UNCHANGED agents,
           \/ \E a \in Agents \cup {None} : row' = Index(a) /\ NextJob \in 1..MaxJobs
           \/ \E r \in BOOLEAN : row' = Failed(r)
    PROVE  RowTyped' /\ row'.status # "GONE"
  <1>1. CASE \E a \in Agents \cup {None} : row' = Index(a) /\ NextJob \in 1..MaxJobs
    BY <1>1 DEF Typed, RowTyped, Rows, Index
  <1>2. CASE \E r \in BOOLEAN : row' = Failed(r)
    <2>1. PICK r \in BOOLEAN : row' = [row EXCEPT !.status = "ERROR", !.retryable = r]
      BY <1>2 DEF Failed
    <2>2. row \in Rows
      BY DEF Typed, RowTyped
    <2>3. row' \in Rows /\ row'.status = "ERROR"
      BY <2>1, <2>2 DEF Rows
    <2> QED BY <2>3 DEF Typed, RowTyped
  <1> QED BY <1>1, <1>2

LEMMA RequestPreserves == Inv /\ Request => Inv'
  <1> SUFFICES ASSUME Inv, Request PROVE Inv'
    OBVIOUS
  <1> USE Unchanged
  <1>0. Typed /\ RowTyped /\ JobsTyped /\ RequestTyped /\ Len(jobs) \in Nat
    BY DEF Inv, Typed, JobsTyped
  <1>1. ASSUME NEW a \in Agents, Create(a) PROVE Inv'
    <2>1. JobsTyped' /\ Len(jobs') = Len(jobs) + 1
          /\ NextJob \in 1..MaxJobs
          /\ NextJob \in 1..Len(jobs') /\ jobs'[NextJob].pc = "unsent"
      BY <1>0, <1>1, JobIsNew DEF Create, Stages
    <2>2. RowTyped' /\ row'.status # "GONE"
      BY <1>0, <1>1, <2>1, RowMoves DEF Create
    <2>3. RequestTyped'
      BY <1>1, <2>1 DEF Create, Enqueueing, RequestTyped, JobWaits
    <2>4. UNCHANGED <<owner, tasks, index, deletion>>
      BY <1>1 DEF Create
    <2> QED BY <1>0, <2>1, <2>2, <2>3, <2>4, IndexingKeeps
  <1>2. ASSUME NEW a \in Agents, ReadForEdit(a) PROVE Inv'
    <2>1. UNCHANGED <<row, agents, jobs, owner, tasks, index, deletion>>
      BY <1>2 DEF ReadForEdit
    <2>2. RequestTyped'
      BY <1>2 DEF ReadForEdit, RequestTyped
    <2> QED BY <1>0, <2>1, <2>2, IndexingKeeps
  <1>3. ASSUME PrepareEdit PROVE Inv'
    <2> DEFINE a == request.to
               free == Exists /\ row.status # "PROCESSING" /\ agents[a] # "gone"
    <2>1. a \in Agents /\ row.agent \in Agents \cup {None}
      BY <1>0, <1>3 DEF PrepareEdit, RequestTyped, RowTyped, Rows
    <2>2. UNCHANGED <<agents, owner, tasks, index, deletion>>
      BY <1>3 DEF PrepareEdit
    <2>3. CASE free
      <3>1. row' = Index(a) /\ Enqueueing
            /\ NewJob(a, IF row.agent = a THEN None ELSE row.agent, "unsent")
        BY <1>3, <2>3 DEF PrepareEdit
      <3>2. JobsTyped' /\ NextJob \in 1..MaxJobs
            /\ NextJob \in 1..Len(jobs') /\ jobs'[NextJob].pc = "unsent"
        BY <1>0, <2>1, <3>1, JobIsNew DEF Stages
      <3>3. RowTyped' /\ row'.status # "GONE"
        BY <1>0, <2>1, <2>2, <3>1, <3>2, RowMoves
      <3>4. RequestTyped'
        BY <3>1, <3>2 DEF Enqueueing, RequestTyped, JobWaits
      <3> QED BY <1>0, <2>2, <3>2, <3>3, <3>4, IndexingKeeps
    <2>4. CASE ~free
      <3>1. request' = Ready /\ UNCHANGED <<row, jobs>>
        BY <1>3, <2>4 DEF PrepareEdit
      <3>2. RequestTyped'
        BY <3>1 DEF Ready, RequestTyped
      <3> QED BY <1>0, <2>2, <3>1, <3>2, IndexingKeeps
    <2> QED BY <2>3, <2>4
  <1>4. ASSUME ReadForRetry PROVE Inv'
    <2>1. UNCHANGED <<row, agents, jobs, owner, tasks, index, deletion>>
      BY <1>4 DEF ReadForRetry
    <2>2. RequestTyped'
      BY <1>0, <1>4 DEF ReadForRetry, RequestTyped, RowTyped, Rows
    <2> QED BY <1>0, <2>1, <2>2, IndexingKeeps
  <1>5. ASSUME ClaimRetry PROVE Inv'
    <2>1. request.agent \in Agents /\ row.agent \in Agents \cup {None}
      BY <1>0, <1>5 DEF ClaimRetry, RequestTyped, RowTyped, Rows
    <2>2. UNCHANGED <<agents, owner, tasks, index, deletion>>
      BY <1>5 DEF ClaimRetry
    <2>3. CASE row.status = "ERROR"
      <3>1. row' = Index(row.agent) /\ Enqueueing /\ NewJob(request.agent, None, "unsent")
        BY <1>5, <2>3 DEF ClaimRetry
      <3>2. JobsTyped' /\ NextJob \in 1..MaxJobs
            /\ NextJob \in 1..Len(jobs') /\ jobs'[NextJob].pc = "unsent"
        BY <1>0, <2>1, <3>1, JobIsNew DEF Stages
      <3>3. RowTyped' /\ row'.status # "GONE"
        BY <1>0, <2>1, <2>2, <3>1, <3>2, RowMoves
      <3>4. RequestTyped'
        BY <3>1, <3>2 DEF Enqueueing, RequestTyped, JobWaits
      <3> QED BY <1>0, <2>2, <3>2, <3>3, <3>4, IndexingKeeps
    <2>4. CASE row.status # "ERROR"
      <3>1. request' = Ready /\ UNCHANGED <<row, jobs>>
        BY <1>5, <2>4 DEF ClaimRetry
      <3>2. RequestTyped'
        BY <3>1 DEF Ready, RequestTyped
      <3> QED BY <1>0, <2>2, <3>1, <3>2, IndexingKeeps
    <2> QED BY <2>3, <2>4
  <1>6. ASSUME AddReindex PROVE Inv'
    <2>1. row.agent \in Agents
      BY <1>0, <1>6 DEF AddReindex, RowTyped, Rows
    <2>2. JobsTyped' /\ NextJob \in 1..Len(jobs') /\ jobs'[NextJob].pc = "delayed"
      BY <1>0, <1>6, <2>1, JobIsNew DEF AddReindex, Stages
    <2>3. RequestTyped'
      BY <1>6, <2>2 DEF AddReindex, RequestTyped, JobWaits
    <2>4. UNCHANGED <<row, agents, owner, tasks, index, deletion>>
      BY <1>6 DEF AddReindex
    <2> QED BY <1>0, <2>2, <2>3, <2>4, IndexingKeeps
  <1>7. ASSUME ClaimReindex PROVE Inv'
    <2> DEFINE j == request.job
    <2>1. j \in 1..Len(jobs) /\ j \in 1..MaxJobs /\ Running(j)
      BY <1>0, <1>7, BoundsAreCounts DEF ClaimReindex, RequestTyped, JobWaits, JobsTyped, Running
    <2>2. request' = Ready /\ UNCHANGED <<agents, owner, tasks, index, deletion>>
      BY <1>7 DEF ClaimReindex
    <2>3. RequestTyped'
      BY <2>2 DEF Ready, RequestTyped
    <2>4. CASE row.status = "ACTIVE"
      <3>1. row' = [row EXCEPT !.status = "PROCESSING", !.meta = j, !.retryable = TRUE]
            /\ JobGoes(j, "queued")
        BY <1>7, <2>4 DEF ClaimReindex, JobGoes
      <3>2. row' \in Rows /\ row'.status = "PROCESSING"
        BY <1>0, <2>1, <3>1 DEF RowTyped, Rows
      <3>3. JobsTyped'
        BY <1>0, <2>1, <3>1, JobGoesOn DEF Stages
      <3> QED BY <1>0, <2>2, <2>3, <3>2, <3>3, IndexingKeeps DEF RowTyped
    <2>5. CASE row.status # "ACTIVE"
      <3>1. JobGoes(j, "done") /\ UNCHANGED row
        BY <1>7, <2>5 DEF ClaimReindex, JobGoes
      <3>2. JobsTyped'
        BY <1>0, <2>1, <3>1, JobGoesOn DEF Stages
      <3> QED BY <1>0, <2>2, <2>3, <3>1, <3>2, IndexingKeeps
    <2> QED BY <2>4, <2>5
  <1>8. ASSUME Enqueue PROVE Inv'
    <2> DEFINE j == request.job
    <2>1. j \in 1..Len(jobs) /\ Running(j)
      BY <1>0, <1>8 DEF Enqueue, RequestTyped, JobWaits, Running
    <2>2. request' = Ready /\ UNCHANGED <<agents, owner, tasks, index, deletion>>
      BY <1>8 DEF Enqueue
    <2>3. RequestTyped'
      BY <2>2 DEF Ready, RequestTyped
    <2>4. CASE JobGoes(j, "queued") /\ UNCHANGED row
      <3>1. JobsTyped'
        BY <1>0, <2>1, <2>4, JobGoesOn DEF Stages
      <3> QED BY <1>0, <2>2, <2>3, <2>4, <3>1, IndexingKeeps
    <2>5. CASE JobGoes(j, "done") /\ row' \in {row, Failed(TRUE)}
      <3>1. JobsTyped'
        BY <1>0, <2>1, <2>5, JobGoesOn DEF Stages
      <3>2. RowTyped' /\ (row' = row \/ row'.status # "GONE")
        BY <1>0, <2>2, <2>5, RowMoves
      <3> QED BY <1>0, <2>2, <2>3, <3>1, <3>2, IndexingKeeps
    <2> QED BY <1>8, <2>4, <2>5 DEF Enqueue, JobGoes
  <1>9. ASSUME RequestDies PROVE Inv'
    <2>1. UNCHANGED <<row, agents, jobs, owner, tasks, index, deletion>>
      BY <1>9 DEF RequestDies
    <2>2. RequestTyped'
      BY <1>9 DEF RequestDies, RequestTyped, Ready
    <2> QED BY <1>0, <2>1, <2>2, IndexingKeeps
  <1> QED BY <1>1, <1>2, <1>3, <1>4, <1>5, <1>6, <1>7, <1>8, <1>9 DEF Request

\* Steps of a job that leave the index, the tasks and the source alone.
LEMMA JobStepKeeps ==
    ASSUME Inv, NEW j \in 1..Len(jobs),
           UNCHANGED <<row, agents, request, tasks, index, deletion>>,
           JobsTyped', Len(jobs') = Len(jobs), OthersKept(j),
           \/ jobs[j].pc \notin {"unsent", "delayed"}
           \/ jobs[j].pc = "delayed" /\ request.pc # "claim",
           IndexTyped'
    PROVE  Inv'
  <1>1. Typed
    BY DEF Inv
  <1>2. RequestTyped'
    BY <1>1, RequestKept
  <1>3. RowTyped' /\ TasksTyped' /\ DeletionTyped' /\ NothingUnfenced
    BY <1>1, Unchanged DEF index
  <1> QED BY <1>2, <1>3, InvKept

LEMMA MarkFails ==
    ASSUME IndexTyped, NEW a \in Agents, manifest[a].mark = "live",
           manifest' = [manifest EXCEPT ![a].mark = "failed"]
    PROVE  manifest' \in [Agents -> Entries] /\ NothingUnfenced
  <1> DEFINE entry == [manifest[a] EXCEPT !.mark = "failed"]
  <1>1. manifest[a] \in Entries
    BY DEF IndexTyped
  <1>2. entry \in Entries
    BY <1>1 DEF Entries, Marks
  <1>3. manifest' = [manifest EXCEPT ![a] = entry]
    OBVIOUS
  <1> HIDE DEF entry
  <1> QED BY <1>2, <1>3 DEF IndexTyped, NothingUnfenced, Fenced

LEMMA DisownedTyped ==
    ASSUME Typed, NEW j \in 1..Len(jobs), owner' = Disowned(j)
    PROVE  owner' \in [Agents -> (1..MaxJobs) \cup {None}]
  BY DEF Typed, IndexTyped, Disowned

LEMMA WorkPreserves ==
    ASSUME Inv, NEW j \in 1..Len(jobs), Work(j)
    PROVE  Inv'
  <1>0. /\ Typed /\ RowTyped /\ JobsTyped /\ RequestTyped /\ IndexTyped /\ TasksTyped
        /\ jobs[j] \in JobRecords /\ Len(jobs) \in Nat /\ Home(j) \in Agents /\ j \in 1..MaxJobs
    <2>1. Typed /\ RowTyped /\ JobsTyped /\ RequestTyped /\ IndexTyped /\ TasksTyped
      BY DEF Inv, Typed
    <2>2. jobs \in Seq(JobRecords) /\ Len(jobs) =< MaxJobs
      BY <2>1 DEF JobsTyped
    <2>3. jobs[j] \in JobRecords /\ Len(jobs) \in Nat /\ j \in 1..MaxJobs
      BY <2>2, BoundsAreCounts
    <2>4. Home(j) \in Agents
      BY <2>3 DEF JobRecords, Home
    <2> QED BY <2>1, <2>3, <2>4
  <1>1. CASE ClaimSource(j)
    <2>1. UNCHANGED <<row, agents, request, owner, tasks, index, deletion>>
          /\ \/ jobs[j].pc = "queued"
             \/ jobs[j].pc = "delayed" /\ request.pc # "claim"
          /\ (JobGoes(j, "track") \/ JobGoes(j, "done"))
      BY <1>1 DEF ClaimSource, JobAt
    <2>2. JobsTyped' /\ Len(jobs') = Len(jobs) /\ OthersKept(j)
      BY <1>0, <2>1, JobGoesOn DEF Running, Stages
    <2> QED BY <1>0, <2>1, <2>2, JobStepKeeps, Unchanged
  <1>2. CASE TrackKbJob(j)
    <2>1. UNCHANGED <<row, agents, request, tasks, index, deletion>>
          /\ jobs[j].pc = "track" /\ (JobGoes(j, "send") \/ JobGoes(j, "revoke"))
          /\ owner' = [owner EXCEPT ![Home(j)] = j]
      BY <1>2 DEF TrackKbJob, JobAt
    <2>2. JobsTyped' /\ Len(jobs') = Len(jobs) /\ OthersKept(j)
      BY <1>0, <2>1, JobGoesOn DEF Running, Stages
    <2>3. IndexTyped'
      BY <1>0, <2>1 DEF IndexTyped, index
    <2> QED BY <2>1, <2>2, <2>3, JobStepKeeps
  <1>3. CASE RevokePrevious(j)
    <2> DEFINE a == jobs[j].previous
    <2>1. UNCHANGED <<row, agents, request, owner, tasks, deletion>>
          /\ jobs[j].pc = "revoke" /\ JobGoes(j, "send")
      BY <1>3 DEF RevokePrevious, JobAt
    <2>2. JobsTyped' /\ Len(jobs') = Len(jobs) /\ OthersKept(j)
      BY <1>0, <2>1, JobGoesOn DEF Running, Stages
    <2>3. RequestTyped'
      BY <1>0, <2>1, <2>2, RequestKept
    <2>4. Revocation(j) \in Nat
      BY <1>0, BoundsAreCounts DEF Revocation, JobRecords
    <2>5. \/ manifest' = manifest
          \/ manifest' = [manifest EXCEPT ![a] = Entry("revoked", Revocation(j))]
             /\ ~Fenced(a)
      BY <1>3 DEF RevokePrevious, Fenced
    <2>6. manifest' \in [Agents -> Entries]
      <3>1. Entry("revoked", Revocation(j)) \in Entries
        BY <2>4 DEF Entry, Entries, Marks
      <3>2. manifest \in [Agents -> Entries]
        BY <1>0 DEF IndexTyped
      <3> QED BY <2>5, <3>1, <3>2
    <2>7. NothingUnfenced
      BY <1>0, <2>5 DEF IndexTyped, NothingUnfenced, Fenced
    <2>8. IndexTyped'
      BY <1>0, <1>3, <2>1, <2>6 DEF RevokePrevious, IndexTyped
    <2> QED BY <1>0, <2>1, <2>2, <2>3, <2>7, <2>8, InvKept, Unchanged
  <1>4. CASE SendDocument(j)
    <2> DEFINE now == manifest[Home(j)]
               task == [agent |-> Home(j), before |-> now, seen |-> now,
                        pc |-> IF now.mark = "deleted" THEN "failed" ELSE "running"]
               job == [jobs[j] EXCEPT !.pc = "wait", !.task = Len(tasks) + 1]
    <2>1. UNCHANGED <<row, agents, request, owner, index, deletion>>
          /\ jobs[j].pc = "send" /\ Len(tasks) < MaxTasks /\ tasks' = Append(tasks, task)
          /\ jobs' = [jobs EXCEPT ![j] = job]
      BY <1>4 DEF SendDocument, JobAt
    <2>2. Len(tasks) + 1 \in 0..MaxTasks
      BY <1>0, <2>1, BoundsAreCounts DEF TasksTyped
    <2>3. job \in JobRecords /\ Attemptable(job)
      <3>1. job \in JobRecords
        BY <1>0, <2>2 DEF JobRecords, Stages
      <3>2. jobs[j].attempts < MaxAttempts /\ job.attempts = jobs[j].attempts
        BY <1>0, <2>1 DEF JobRecords, Attemptable, JobsTyped
      <3> HIDE DEF job
      <3> QED BY <3>1, <3>2 DEF Attemptable
    <2>4. JobsTyped' /\ Len(jobs') = Len(jobs) /\ OthersKept(j)
      BY <1>0, <2>1, <2>3, JobBecomes
    <2>5. task \in TaskRecords /\ task.pc # "staged"
      BY <1>0 DEF IndexTyped, TaskRecords
    <2> HIDE DEF task
    <2>6. TasksTyped' /\ TasksSawNoFence'
      BY <1>0, <2>1, <2>2, <2>5 DEF TasksTyped, TasksSawNoFence, Inv, Fences
    <2>7. RequestTyped'
      BY <1>0, <2>1, <2>4, RequestKept
    <2> QED BY <1>0, <2>1, <2>4, <2>6, <2>7, IndexingKeeps, Unchanged
  <1>5. CASE ReadResult(j)
    <2>1. UNCHANGED <<row, agents, request, owner, tasks, index, deletion>>
          /\ jobs[j].pc = "wait"
          /\ \/ JobGoes(j, "activate")
             \/ \E failure \in {"retryable", "fatal"} : jobs' = AfterFailure(j, failure)
      BY <1>5 DEF ReadResult, JobAt
    <2>2. JobsTyped' /\ Len(jobs') = Len(jobs) /\ OthersKept(j)
      BY <1>0, <2>1, JobGoesOn, JobFails DEF Running, Stages
    <2> QED BY <1>0, <2>1, <2>2, JobStepKeeps, Unchanged
  <1>6. CASE JobThrows(j)
    <2>1. UNCHANGED <<row, agents, request, owner, tasks, index, deletion>>
          /\ jobs[j].pc \in {"track", "revoke", "send", "wait"}
          /\ jobs' = AfterFailure(j, "thrown")
      BY <1>6 DEF JobThrows
    <2>2. JobsTyped' /\ Len(jobs') = Len(jobs) /\ OthersKept(j)
      BY <1>0, <2>1, JobFails DEF Running
    <2> QED BY <1>0, <2>1, <2>2, JobStepKeeps, Unchanged
  <1>7. CASE MarkActive(j)
    <2>1. UNCHANGED <<agents, request, owner, tasks, index, deletion>>
          /\ jobs[j].pc = "activate"
          /\ \/ jobs' = AfterFailure(j, "thrown") /\ row' = row
             \/ /\ JobGoes(j, "finish")
                /\ row' \in {row, [row EXCEPT !.status = "ACTIVE", !.retryable = TRUE]}
      BY <1>7 DEF MarkActive, JobAt
    <2>2. JobsTyped' /\ Len(jobs') = Len(jobs) /\ OthersKept(j)
      BY <1>0, <2>1, JobGoesOn, JobFails DEF Running, Stages
    <2>3. RowTyped' /\ (row' = row \/ row'.status # "GONE")
      BY <1>0, <2>1 DEF RowTyped, Rows
    <2>4. RequestTyped'
      BY <1>0, <2>1, <2>2, RequestKept
    <2> QED BY <1>0, <2>1, <2>2, <2>3, <2>4, IndexingKeeps, Unchanged
  <1>8. CASE FinishKbJob(j)
    <2>1. UNCHANGED <<row, agents, request, tasks, index, deletion>>
          /\ jobs[j].pc = "finish" /\ JobGoes(j, "done") /\ owner' = Disowned(j)
      BY <1>8 DEF FinishKbJob, JobAt
    <2>2. JobsTyped' /\ Len(jobs') = Len(jobs) /\ OthersKept(j)
      BY <1>0, <2>1, JobGoesOn DEF Running, Stages
    <2>3. IndexTyped'
      BY <1>0, <2>1, DisownedTyped DEF IndexTyped, index
    <2> QED BY <2>1, <2>2, <2>3, JobStepKeeps
  <1>9. CASE HideFailed(j)
    <2> DEFINE a == Home(j)
    <2>1. UNCHANGED <<row, agents, request, tasks, vectors, deletion>>
          /\ jobs[j].pc = "hide" /\ JobGoes(j, "mark") /\ owner' = Disowned(j)
          /\ \/ manifest' = manifest
             \/ manifest[a].mark = "live" /\ manifest' = [manifest EXCEPT ![a].mark = "failed"]
      BY <1>9 DEF HideFailed, JobAt
    <2>2. JobsTyped' /\ Len(jobs') = Len(jobs) /\ OthersKept(j)
      BY <1>0, <2>1, JobGoesOn DEF Running, Stages
    <2>3. RequestTyped'
      BY <1>0, <2>1, <2>2, RequestKept
    <2>4. manifest' \in [Agents -> Entries] /\ NothingUnfenced
      <3>1. CASE manifest' = manifest
        BY <1>0, <3>1 DEF IndexTyped, NothingUnfenced, Fenced
      <3>2. CASE manifest[a].mark = "live" /\ manifest' = [manifest EXCEPT ![a].mark = "failed"]
        BY <1>0, <3>2, MarkFails
      <3> QED BY <2>1, <3>1, <3>2
    <2>5. IndexTyped'
      BY <1>0, <2>1, <2>4, DisownedTyped DEF IndexTyped
    <2> QED BY <1>0, <2>1, <2>2, <2>3, <2>4, <2>5, InvKept, Unchanged
  <1>10. CASE MarkFailed(j)
    <2>1. UNCHANGED <<agents, request, owner, tasks, index, deletion>>
          /\ jobs[j].pc = "mark" /\ JobGoes(j, "done")
          /\ (row' = row \/ \E r \in BOOLEAN : row' = Failed(r))
      BY <1>10 DEF MarkFailed, JobAt
    <2>2. JobsTyped' /\ Len(jobs') = Len(jobs) /\ OthersKept(j)
      BY <1>0, <2>1, JobGoesOn DEF Stages
    <2>3. RowTyped' /\ (row' = row \/ row'.status # "GONE")
      BY <1>0, <2>1, RowMoves, Unchanged
    <2>4. RequestTyped'
      BY <1>0, <2>1, <2>2, RequestKept
    <2> QED BY <1>0, <2>1, <2>2, <2>3, <2>4, IndexingKeeps, Unchanged
  <1>11. CASE WorkerDies(j)
    <2>1. UNCHANGED <<row, agents, request, owner, tasks, index, deletion>>
      BY <1>11 DEF WorkerDies
    <2>2. CASE jobs[j].pc \in {"hide", "mark"} /\ JobGoes(j, "done")
      <3>1. JobsTyped' /\ Len(jobs') = Len(jobs) /\ OthersKept(j)
        BY <1>0, <2>2, JobGoesOn DEF Stages
      <3> QED BY <1>0, <2>1, <2>2, <3>1, JobStepKeeps, Unchanged
    <2>3. CASE /\ jobs[j].pc \in {"track", "revoke", "send", "wait", "activate", "finish"}
               /\ jobs' = [jobs EXCEPT ![j].pc = "queued", ![j].stalled = TRUE]
      <3> DEFINE job == [jobs[j] EXCEPT !.pc = "queued", !.stalled = TRUE]
      <3>1. job \in JobRecords /\ Attemptable(job) /\ jobs' = [jobs EXCEPT ![j] = job]
        BY <1>0, <2>3 DEF JobRecords, Attemptable, JobsTyped, Stages
      <3>2. JobsTyped' /\ Len(jobs') = Len(jobs) /\ OthersKept(j)
        BY <1>0, <3>1, JobBecomes
      <3> QED BY <1>0, <2>1, <2>3, <3>2, JobStepKeeps, Unchanged
    <2> QED BY <1>11, <2>2, <2>3 DEF WorkerDies, JobAt
  <1> QED BY <1>1, <1>2, <1>3, <1>4, <1>5, <1>6, <1>7, <1>8, <1>9, <1>10, <1>11 DEF Work

LEMMA ProcessPreserves ==
    ASSUME Inv, NEW n \in 1..Len(tasks), Process(n)
    PROVE  Inv'
  <1> DEFINE a == Space(n)
  <1>0. Typed /\ IndexTyped /\ TasksTyped /\ TasksSawNoFence
    BY DEF Inv, Typed, Fences
  <1>a. tasks[n] \in TaskRecords /\ n \in 1..MaxTasks
    BY <1>0, BoundsAreCounts DEF TasksTyped
  <1>b. a \in Agents /\ tasks[n].seen \in Entries
    BY <1>a DEF TaskRecords, Space
  <1>c. manifest[a] \in Entries /\ vectors[a] \in SUBSET (0..MaxTasks)
    BY <1>0, <1>b DEF IndexTyped
  <1> HIDE DEF a
  <1>1. CASE StageVectors(n)
    <2>1. UNCHANGED <<row, agents, request, jobs, owner, manifest, deletion>>
      BY <1>1 DEF StageVectors
    <2>2. TasksTyped' /\ TasksSawNoFence'
      <3>1. CASE manifest[a].mark = "deleted"
        <4>1. TaskGoes(n, "failing")
          BY <1>1, <3>1 DEF StageVectors, a
        <4> QED BY <1>0, <4>1, TaskGoesOn
      <3>2. CASE manifest[a].mark # "deleted"
        <4> DEFINE task == [tasks[n] EXCEPT !.pc = "staged", !.seen = manifest[a]]
        <4>1. tasks' = [tasks EXCEPT ![n] = task]
          BY <1>1, <3>2 DEF StageVectors, a
        <4>2. task \in TaskRecords /\ task.seen.mark # "deleted"
          BY <1>a, <1>c, <3>2 DEF TaskRecords
        <4> HIDE DEF task
        <4> QED BY <1>0, <4>1, <4>2, TaskBecomes
      <3> QED BY <3>1, <3>2
    <2>3. vectors' = vectors \/ vectors' = [vectors EXCEPT ![a] = @ \cup {n}]
      BY <1>1 DEF StageVectors, a
    <2>4. vectors' \in [Agents -> SUBSET (0..MaxTasks)]
      BY <1>0, <1>a, <1>c, <2>3 DEF IndexTyped
    <2>5. IndexTyped'
      BY <1>0, <2>1, <2>4 DEF IndexTyped
    <2> QED BY <1>0, <2>1, <2>2, <2>5, InvKept, Unchanged
  <1>2. CASE DocumentFails(n)
    <2>1. UNCHANGED <<row, agents, request, jobs, owner, index, deletion>> /\ TaskGoes(n, "failing")
      BY <1>2 DEF DocumentFails
    <2>2. TasksTyped' /\ TasksSawNoFence'
      BY <1>0, <2>1, TaskGoesOn
    <2> QED BY <1>0, <2>1, <2>2, IndexingKeeps, Unchanged
  <1>3. CASE Publish(n)
    <2> DEFINE accepted == manifest[Space(n)] = tasks[n].seen
    <2>1. /\ UNCHANGED <<row, agents, request, jobs, owner, deletion>>
          /\ tasks[n].pc = "staged"
          /\ vectors' = vectors \/ vectors' = [vectors EXCEPT ![a] = @ \ {n}]
          /\ TaskGoes(n, "published") \/ TaskGoes(n, "failing")
          /\ \/ manifest' = manifest
             \/ manifest[a] = tasks[n].seen /\ manifest' = [manifest EXCEPT ![a] = Entry("live", n)]
      BY <1>3 DEF Publish, PublishIf, TaskAt, a
    <2>2. TasksTyped' /\ TasksSawNoFence'
      BY <1>0, <2>1, TaskGoesOn
    <2>3. manifest' \in [Agents -> Entries]
      <3>1. Entry("live", n) \in Entries
        BY <1>a DEF Entry, Entries, Marks
      <3>2. manifest \in [Agents -> Entries]
        BY <1>0 DEF IndexTyped
      <3> QED BY <2>1, <3>1, <3>2
    <2>4. vectors' \in [Agents -> SUBSET (0..MaxTasks)]
      BY <1>0, <1>c, <2>1 DEF IndexTyped
    <2>5. IndexTyped'
      BY <1>0, <2>1, <2>3, <2>4 DEF IndexTyped
    <2>6. NothingUnfenced
      <3>1. tasks[n].seen.mark # "deleted"
        BY <1>0, <2>1 DEF TasksSawNoFence
      <3> QED BY <1>0, <2>1, <3>1 DEF NothingUnfenced, Fenced, IndexTyped
    <2> QED BY <1>0, <2>1, <2>2, <2>5, <2>6, InvKept, Unchanged
  <1>4. CASE CleanReplaced(n)
    <2>1. UNCHANGED <<row, agents, request, jobs, owner, manifest, deletion>> /\ TaskGoes(n, "ok")
          /\ \/ vectors' = vectors
             \/ vectors' = [vectors EXCEPT ![a] = @ \ {tasks[n].seen.gen}]
      BY <1>4 DEF CleanReplaced, a
    <2>2. TasksTyped' /\ TasksSawNoFence'
      BY <1>0, <2>1, TaskGoesOn
    <2>3. vectors' \in [Agents -> SUBSET (0..MaxTasks)]
      BY <1>0, <1>c, <2>1 DEF IndexTyped
    <2>4. IndexTyped'
      BY <1>0, <2>1, <2>3 DEF IndexTyped
    <2> QED BY <1>0, <2>1, <2>2, <2>4, InvKept, Unchanged
  <1>5. CASE GiveUp(n)
    <2>1. UNCHANGED <<row, agents, request, jobs, owner, vectors, deletion>> /\ TaskGoes(n, "failed")
          /\ \/ manifest' = manifest
             \/ manifest[a].mark = "live" /\ manifest' = [manifest EXCEPT ![a].mark = "failed"]
      BY <1>5 DEF GiveUp, GiveUpIf, a
    <2>2. TasksTyped' /\ TasksSawNoFence'
      BY <1>0, <2>1, TaskGoesOn
    <2>3. manifest' \in [Agents -> Entries] /\ NothingUnfenced
      <3>1. CASE manifest' = manifest
        BY <1>0, <3>1 DEF IndexTyped, NothingUnfenced, Fenced
      <3>2. CASE manifest[a].mark = "live" /\ manifest' = [manifest EXCEPT ![a].mark = "failed"]
        BY <1>0, <1>b, <3>2, MarkFails
      <3> QED BY <2>1, <3>1, <3>2
    <2>4. IndexTyped'
      BY <1>0, <2>1, <2>3 DEF IndexTyped
    <2> QED BY <1>0, <2>1, <2>2, <2>3, <2>4, InvKept, Unchanged
  <1>6. CASE TaskDies(n)
    <2>1. UNCHANGED <<row, agents, request, jobs, owner, index, deletion>> /\ TaskGoes(n, "lost")
      BY <1>6 DEF TaskDies
    <2>2. TasksTyped' /\ TasksSawNoFence'
      BY <1>0, <2>1, TaskGoesOn
    <2> QED BY <1>0, <2>1, <2>2, IndexingKeeps, Unchanged
  <1> QED BY <1>1, <1>2, <1>3, <1>4, <1>5, <1>6 DEF Process

\* Steps of a deletion that touch neither the index nor the source.
LEMMA DeletionStepKeeps ==
    ASSUME Inv, NEW d \in Deleters, NEW local \in Deletions, local.pc # "remove",
           deletion' = [deletion EXCEPT ![d] = local],
           RowTyped', row' = row \/ row'.status # "GONE",
           UNCHANGED <<request, jobs, owner, tasks, index>>
    PROVE  Inv'
  <1>1. Typed /\ DeletionTyped /\ CleanedIsFenced
    BY DEF Inv, Typed, Fences
  <1>2. JobsTyped' /\ RequestTyped' /\ IndexTyped' /\ TasksTyped' /\ NothingUnfenced
    BY <1>1, Unchanged DEF index
  <1>3. DeletionTyped' /\ CleanedIsFenced'
    BY <1>1, <1>2, DeletionBecomes
  <1>4. row' = row \/ RemovedIsFenced'
    BY DEF RemovedIsFenced
  <1> QED BY <1>2, <1>3, <1>4, InvKept

LEMMA DeletionMoves ==
    ASSUME Typed, NEW d \in Deleters,
           NEW pc \in {"idle", "read", "claim", "clean", "remove", "drop"}
    PROVE  /\ deletion[d] \in Deletions /\ AtRest \in Deletions
           /\ [deletion[d] EXCEPT !.pc = pc] \in Deletions
           /\ [deletion[d] EXCEPT !.pc = pc].pc = pc
           /\ [deletion[d] EXCEPT !.pc = pc].agent = deletion[d].agent
           /\ DeletionGoes(d, pc) =>
                deletion' = [deletion EXCEPT ![d] = [deletion[d] EXCEPT !.pc = pc]]
  <1>1. deletion[d] \in Deletions
    BY DEF Typed, DeletionTyped
  <1>2. AtRest \in Deletions
    BY DEF AtRest, Deletions
  <1>3. /\ [deletion[d] EXCEPT !.pc = pc] \in Deletions
        /\ [deletion[d] EXCEPT !.pc = pc].pc = pc
        /\ [deletion[d] EXCEPT !.pc = pc].agent = deletion[d].agent
    BY <1>1 DEF Deletions
  <1>4. DeletionGoes(d, pc) => deletion' = [deletion EXCEPT ![d] = [deletion[d] EXCEPT !.pc = pc]]
    BY DEF DeletionGoes
  <1> QED BY <1>1, <1>2, <1>3, <1>4

LEMMA SomeMove ==
    ASSUME Typed, NEW d \in Deleters, NEW pc \in {"read", "remove", "drop"}, DeletionGoes(d, pc)
    PROVE  \E local \in Deletions : /\ local.pc = pc /\ local.agent = deletion[d].agent
                                     /\ deletion' = [deletion EXCEPT ![d] = local]
  <1> DEFINE moved == [deletion[d] EXCEPT !.pc = pc]
  <1>1. moved \in Deletions /\ moved.pc = pc /\ moved.agent = deletion[d].agent
    BY DEF Typed, DeletionTyped, Deletions
  <1>2. deletion' = [deletion EXCEPT ![d] = moved]
    BY DEF DeletionGoes
  <1> HIDE DEF moved
  <1> QED BY <1>1, <1>2

LEMMA DeletePreserves ==
    ASSUME Inv, NEW d \in Deleters, Delete(d) \/ DeletionDies(d)
    PROVE  Inv'
  <1>0. Typed /\ RowTyped /\ IndexTyped /\ DeletionTyped /\ CleanedIsFenced /\ AtRest \in Deletions
        /\ deletion[d] \in Deletions /\ row \in Rows /\ AtRest.pc = "idle"
    BY DeletionMoves DEF Inv, Typed, Fences, RowTyped, AtRest
  <1>1. CASE ReadForDeletion(d)
    <2> DEFINE local == [pc |-> "claim", agent |-> row.agent]
    <2>1. UNCHANGED <<row, agents, request, jobs, owner, tasks, index>>
          /\ (deletion' = [deletion EXCEPT ![d] = local] \/ DeletionStops(d))
      BY <1>1 DEF ReadForDeletion, ReadUnless
    <2>2. local \in Deletions
      BY <1>0 DEF Rows, Deletions
    <2>3. RowTyped'
      BY <1>0, <2>1, Unchanged
    <2> QED BY <1>0, <2>1, <2>2, <2>3, DeletionStepKeeps DEF DeletionStops
  <1>2. CASE ClaimDeletion(d)
    <2>1. UNCHANGED <<agents, request, jobs, owner, tasks, index>>
          /\ \/ /\ row' = [row EXCEPT !.status = "ERROR", !.meta = d, !.retryable = FALSE]
                /\ DeletionGoes(d, "clean")
             \/ DeletionStops(d) /\ row' = row
      BY <1>2 DEF ClaimDeletion
    <2>2. RowTyped' /\ (row' = row \/ row'.status # "GONE")
      BY <1>0, <2>1 DEF RowTyped, Rows
    <2>3. CASE DeletionGoes(d, "clean")
      <3> DEFINE local == [deletion[d] EXCEPT !.pc = "clean"]
      <3>1. local \in Deletions /\ local.pc = "clean" /\ deletion' = [deletion EXCEPT ![d] = local]
        BY <1>0, <2>3, DeletionMoves
      <3> HIDE DEF local
      <3> QED BY <2>1, <2>2, <3>1, DeletionStepKeeps
    <2>4. CASE DeletionStops(d)
      BY <1>0, <2>1, <2>2, <2>4, DeletionStepKeeps DEF DeletionStops
    <2> QED BY <2>1, <2>3, <2>4
  <1>3. CASE CleanAssets(d)
    <2>0. PICK a \in Agents \cup {None} : a = deletion[d].agent
      BY <1>0 DEF Deletions
    <2>1. UNCHANGED <<row, agents, request, jobs, owner, tasks>>
      BY <1>3 DEF CleanAssets
    <2>2. ASSUME DeletionGoes(d, "remove")
          PROVE  \E cleaned \in Deletions : /\ cleaned.agent = a
                                            /\ deletion' = [deletion EXCEPT ![d] = cleaned]
      BY <1>0, <2>0, <2>2, SomeMove
    <2>3. CASE a = None
      <3>1. DeletionGoes(d, "remove") /\ UNCHANGED index
        BY <1>3, <2>0, <2>3 DEF CleanAssets
      <3>2. PICK cleaned \in Deletions : /\ cleaned.agent = a
                                         /\ deletion' = [deletion EXCEPT ![d] = cleaned]
        BY <2>2, <3>1
      <3>3. IndexTyped' /\ NothingUnfenced
        BY <1>0, <2>1, <3>1, Unchanged DEF index
      <3>4. DeletionTyped' /\ CleanedIsFenced'
        BY <1>0, <2>3, <3>2, <3>3, DeletionBecomes
      <3> QED BY <1>0, <2>1, <3>3, <3>4, InvKept, Unchanged
    <2>4. CASE a # None
      <3>1. /\ manifest' = [manifest EXCEPT ![a] = Entry("deleted", 0)]
            /\ \/ vectors' = [vectors EXCEPT ![a] = {}] /\ DeletionGoes(d, "remove")
               \/ DeletionStops(d) /\ vectors' = vectors
        BY <1>3, <2>0, <2>4 DEF CleanAssets
      <3>2. manifest' \in [Agents -> Entries] /\ vectors' \in [Agents -> SUBSET (0..MaxTasks)]
        <4>1. Entry("deleted", 0) \in Entries
          BY DEF Entry, Entries, Marks
        <4>2. manifest \in [Agents -> Entries] /\ vectors \in [Agents -> SUBSET (0..MaxTasks)]
          BY <1>0 DEF IndexTyped
        <4> QED BY <3>1, <4>1, <4>2
      <3>3. IndexTyped'
        BY <1>0, <2>1, <3>2 DEF IndexTyped
      <3>4. NothingUnfenced /\ Fenced(a)'
        BY <1>0, <2>4, <3>1 DEF IndexTyped, NothingUnfenced, Fenced, Entry
      <3>5. CASE DeletionGoes(d, "remove")
        <4>1. PICK cleaned \in Deletions : /\ cleaned.agent = a
                                           /\ deletion' = [deletion EXCEPT ![d] = cleaned]
          BY <2>2, <3>5
        <4>2. DeletionTyped' /\ CleanedIsFenced'
          BY <1>0, <3>4, <4>1, DeletionBecomes DEF Fenced
        <4> QED BY <1>0, <2>1, <3>3, <3>4, <4>2, InvKept, Unchanged
      <3>6. CASE DeletionStops(d)
        <4>1. DeletionTyped' /\ CleanedIsFenced'
          BY <1>0, <3>4, <3>6, DeletionBecomes DEF DeletionStops
        <4> QED BY <1>0, <2>1, <3>3, <3>4, <4>1, InvKept, Unchanged
      <3> QED BY <3>1, <3>5, <3>6
    <2> QED BY <2>3, <2>4
  <1>4. CASE RemoveSource(d)
    <2> DEFINE dropping == [deletion[d] EXCEPT !.pc = "drop"]
    <2>0. PICK a \in Agents \cup {None} : a = deletion[d].agent
      BY <1>0 DEF Deletions
    <2>1. /\ UNCHANGED <<agents, request, jobs, owner, tasks, index>>
          /\ deletion[d].pc = "remove"
          /\ DeletionStops(d) \/ DeletionGoes(d, "drop")
          /\ row' = row \/ row' = [row EXCEPT !.status = "GONE", !.agent = a]
      BY <1>4, <2>0 DEF RemoveSource, DeletionAt
    <2>2. a # None => Fenced(a)
      BY <1>0, <2>0, <2>1 DEF CleanedIsFenced
    <2>3. RowTyped'
      BY <1>0, <2>1 DEF RowTyped, Rows
    <2>4. IndexTyped' /\ NothingUnfenced
      BY <1>0, <2>1, Unchanged DEF index
    <2>5. row' = row \/ RemovedIsFenced'
      <3>1. CASE row' = [row EXCEPT !.status = "GONE", !.agent = a]
        <4>1. row'.agent = a
          BY <1>0, <3>1 DEF Rows
        <4>2. a # None => Fenced(a)'
          BY <2>2, <2>4 DEF NothingUnfenced
        <4> QED BY <4>1, <4>2 DEF RemovedIsFenced, Fenced
      <3> QED BY <2>1, <3>1
    <2>6. DeletionTyped' /\ CleanedIsFenced'
      <3>1. CASE DeletionStops(d)
        BY <1>0, <2>4, <3>1, DeletionBecomes DEF DeletionStops
      <3>2. CASE DeletionGoes(d, "drop")
        <4>1. dropping \in Deletions /\ dropping.pc = "drop"
              /\ deletion' = [deletion EXCEPT ![d] = dropping]
          BY <1>0, <3>2, DeletionMoves
        <4> HIDE DEF dropping
        <4> QED BY <1>0, <2>4, <4>1, DeletionBecomes
      <3> QED BY <2>1, <3>1, <3>2
    <2> QED BY <1>0, <2>1, <2>3, <2>4, <2>5, <2>6, InvKept, Unchanged
  <1>5. CASE DeletionDies(d)
    <2>1. UNCHANGED <<row, agents, request, jobs, owner, tasks, index>> /\ DeletionStops(d)
      BY <1>5 DEF DeletionDies
    <2>2. RowTyped'
      BY <1>0, <2>1, Unchanged
    <2> QED BY <1>0, <2>1, <2>2, DeletionStepKeeps DEF DeletionStops
  <1> QED BY <1>1, <1>2, <1>3, <1>4, <1>5 DEF Delete

LEMMA AgentPreserves ==
    ASSUME Inv, NEW a \in Agents, RequestAgentDeletion(a) \/ ListSources(a) \/ DropAgent(a)
    PROVE  Inv'
  <1>0. Typed /\ RowTyped /\ a \in Deleters /\ AtRest \in Deletions /\ AtRest.pc = "idle"
    BY DeletionMoves DEF Inv, Typed, Deleters, AtRest
  <1>1. CASE RequestAgentDeletion(a)
    <2>1. UNCHANGED <<row, request, jobs, owner, tasks, index, deletion>>
          /\ agents' = [agents EXCEPT ![a] = "deleting"]
      BY <1>1 DEF RequestAgentDeletion
    <2>2. RowTyped'
      BY <1>0, <2>1 DEF RowTyped
    <2> QED BY <1>0, <2>1, <2>2, IndexingKeeps, Unchanged
  <1>2. CASE ListSources(a)
    <2>1. UNCHANGED <<row, agents, request, jobs, owner, tasks, index>>
      BY <1>2 DEF ListSources
    <2>2. DeletionGoes(a, "read") \/ DeletionGoes(a, "drop")
      BY <1>2 DEF ListSources
    <2>3. PICK local \in Deletions :
            local.pc # "remove" /\ deletion' = [deletion EXCEPT ![a] = local]
      <3>1. CASE DeletionGoes(a, "read")
        BY <1>0, <3>1, SomeMove
      <3>2. CASE DeletionGoes(a, "drop")
        BY <1>0, <3>2, SomeMove
      <3> QED BY <2>2, <3>1, <3>2
    <2>4. RowTyped'
      BY <1>0, <2>1, Unchanged
    <2> QED BY <1>0, <2>1, <2>3, <2>4, DeletionStepKeeps
  <1>3. CASE DropAgent(a)
    <2>1. UNCHANGED <<request, jobs, owner, tasks, index>> /\ DeletionStops(a)
          /\ agents' = [agents EXCEPT ![a] = "gone"]
          /\ (row' = row \/ (Exists /\ row' = [row EXCEPT !.agent = None]))
      BY <1>3 DEF DropAgent
    <2>2. RowTyped' /\ (row' = row \/ row'.status # "GONE")
      BY <1>0, <2>1 DEF RowTyped, Rows, Exists
    <2> QED BY <1>0, <2>1, <2>2, DeletionStepKeeps DEF DeletionStops
  <1> QED BY <1>1, <1>2, <1>3

LEMMA StepPreserves == Inv /\ [Next]_vars => Inv'
  <1> SUFFICES ASSUME Inv, [Next]_vars PROVE Inv'
    OBVIOUS
  <1>1. Typed /\ DOMAIN jobs = 1..Len(jobs) /\ DOMAIN tasks = 1..Len(tasks)
    BY DEF Inv, Typed, JobsTyped, TasksTyped
  <1>2. CASE Request
    BY <1>2, RequestPreserves
  <1>3. CASE \E j \in DOMAIN jobs : Work(j)
    BY <1>1, <1>3, WorkPreserves
  <1>4. CASE \E n \in DOMAIN tasks : Process(n)
    BY <1>1, <1>4, ProcessPreserves
  <1>5. CASE \E d \in Deleters : Delete(d) \/ DeletionDies(d)
    BY <1>5, DeletePreserves
  <1>6. CASE \E a \in Agents : RequestAgentDeletion(a) \/ ListSources(a) \/ DropAgent(a)
    BY <1>6, AgentPreserves
  <1>7. CASE UNCHANGED vars
    <2>1. UNCHANGED <<row, agents, request, jobs, owner, tasks, index, deletion>>
      BY <1>7 DEF vars, index
    <2> QED BY <1>1, <2>1, IndexingKeeps, Unchanged
  <1> QED BY <1>2, <1>3, <1>4, <1>5, <1>6, <1>7 DEF Next

-----------------------------------------------------------------------------
(* Why an ACTIVE source is found: one job at a time works on it, and what  *)
(* that job's task has published cannot be hidden by an older one.         *)

WorkStages == {"track", "revoke", "send", "wait", "activate", "hide", "mark"}
AtWork(j) == jobs[j].pc \in WorkStages

\* A deletion has claimed the source: it is not indexed again.
Abandoned ==
    \/ row.status = "GONE"
    \/ row.status = "ERROR" /\ (row.meta \in Deleters /\ ~row.retryable)

\* A job works on a source it has claimed or that was taken from it by a
\* deletion, one job at a time, and no request meanwhile.
WorksForRow == \A j \in 1..Len(jobs) : AtWork(j) => request = Ready /\ (Mine(j) \/ Abandoned)
OneAtWork == \A i, j \in 1..Len(jobs) : AtWork(i) /\ AtWork(j) => i = j
ClaimedByRequest ==
    row.status = "PROCESSING" =>
      request = Ready \/ (request.pc = "enqueue" /\ request.job = row.meta)

Turns == WorksForRow /\ OneAtWork /\ ClaimedByRequest

\* The task of a job that waits for it works in the job's namespace.
Awaited ==
    \A j \in 1..Len(jobs) : jobs[j].pc \in {"wait", "activate"} =>
      /\ jobs[j].task \in 1..Len(tasks) /\ Space(jobs[j].task) = Home(j)
      /\ jobs[j].pc = "activate" => tasks[jobs[j].task].pc = "ok"

\* A generation that a manifest names, or that a task has seen in one, is not
\* published any more: a generation is published once.
Decided(n) == tasks[n].pc \notin {"running", "staged"}
Known(e) ==
    e.mark \in {"live", "failed"} => e.gen = 0 \/ (e.gen \in 1..Len(tasks) /\ Decided(e.gen))
PublishedKnown == \A a \in Agents : Known(manifest[a])
SeenKnown == \A n \in 1..Len(tasks) : Known(tasks[n].before) /\ Known(tasks[n].seen)

\* A generation that may be published is stored, and one that was replaced is
\* not published again.
StagedStored ==
    \A n \in 1..Len(tasks) :
      tasks[n].pc = "staged" => n \in vectors[Space(n)] \/ Fenced(Space(n))
ReplacedForGood ==
    \A n \in 1..Len(tasks) : tasks[n].pc = "published" =>
      /\ tasks[n].seen.mark # "deleted"
      /\ tasks[n].seen.mark # "revoked" /\ manifest[Space(n)].mark = "live" =>
           tasks[n].seen.gen # manifest[Space(n)].gen

Generations == PublishedKnown /\ SeenKnown /\ StagedStored /\ ReplacedForGood

\* A namespace is relied on once a job's task has published in it, and as long
\* as the row says ACTIVE.  Then it is served, and by a generation that is
\* newer than all that any task found when it began.
Shown(a) == row.status = "ACTIVE" /\ row.agent = a /\ a # None
Delivered(j, a) ==
    /\ jobs[j].pc \in {"wait", "activate"} /\ Home(j) = a
    /\ tasks[jobs[j].task].pc \in {"published", "ok"}
Relied(a) == Shown(a) \/ \E j \in 1..Len(jobs) : Delivered(j, a)
NewerThanBegun(a) ==
    \A n \in 1..Len(tasks) : Space(n) = a => tasks[n].before # manifest[a]
Served == \A a \in Agents : Relied(a) => Fenced(a) \/ (Visible(a) /\ NewerThanBegun(a))

Reliable == Turns /\ Awaited /\ Generations /\ Served

LEMMA InitReliable == Init => Reliable
  <1> SUFFICES ASSUME Init PROVE Reliable
    OBVIOUS
  <1>1. PICK status \in {"NONE", "ACTIVE"}, home \in Agents \cup {None} :
          InitWith(status, home) /\ (status = "ACTIVE" => home \in Agents)
    BY DEF Init
  <1>2. Len(jobs) = 0 /\ Len(tasks) = 0 /\ row.status = status /\ row.agent = home
        /\ request = Ready /\ \A a \in Agents : manifest[a] = Entry("live", 0)
    BY <1>1 DEF InitWith
  <1>3. Turns
    BY <1>2 DEF Turns, WorksForRow, OneAtWork, ClaimedByRequest
  <1>4. Awaited /\ SeenKnown /\ StagedStored /\ ReplacedForGood
    BY <1>2 DEF Awaited, SeenKnown, StagedStored, ReplacedForGood
  <1>5. PublishedKnown
    BY <1>2 DEF PublishedKnown, Known, Entry
  <1>6. ASSUME NEW a \in Agents, Relied(a) PROVE Visible(a) /\ NewerThanBegun(a)
    <2>1. status = "ACTIVE" /\ home = a
      BY <1>2, <1>6 DEF Relied, Shown
    <2>2. vectors[a] = {0}
      BY <1>1, <2>1 DEF InitWith
    <2> QED BY <1>2, <2>2 DEF Visible, NewerThanBegun, Entry
  <1> QED BY <1>3, <1>4, <1>5, <1>6 DEF Reliable, Generations, Served

-----------------------------------------------------------------------------
(* Steps that leave the tasks and the index alone.                         *)

LEMMA GenerationsKept ==
    ASSUME Generations, UNCHANGED <<tasks, index>>
    PROVE  Generations'
  BY DEF Generations, PublishedKnown, SeenKnown, StagedStored, ReplacedForGood, Known, Decided,
         Space, Fenced, index

\* Nothing more is relied on.
NoneRelied == \A a \in Agents : Relied(a)' => Relied(a)

LEMMA ServedKept ==
    ASSUME Served, UNCHANGED <<tasks, index>>, NoneRelied
    PROVE  Served'
  BY DEF Served, NoneRelied, Visible, Fenced, NewerThanBegun, Space, index

\* No job begins to work, although some may stop or be added.
NoneBegins ==
    \A j \in 1..Len(jobs') :
      jobs'[j].pc \in WorkStages => j \in 1..Len(jobs) /\ jobs'[j] = jobs[j]

LEMMA NoneReliedOn ==
    ASSUME NoneBegins, UNCHANGED tasks, \A a \in Agents : Shown(a)' => Shown(a)
    PROVE  NoneRelied
  BY DEF NoneBegins, NoneRelied, Relied, Delivered, Home, WorkStages

LEMMA AwaitedKept ==
    ASSUME Awaited, NoneBegins, UNCHANGED tasks
    PROVE  Awaited'
  BY DEF Awaited, NoneBegins, Home, Space, WorkStages

LEMMA NoneBeginsKeeps ==
    ASSUME Reliable, NoneBegins, UNCHANGED <<tasks, index>>,
           WorksForRow', ClaimedByRequest',
           \A a \in Agents : Shown(a)' => Shown(a)
    PROVE  Reliable'
  <1>1. OneAtWork'
    BY DEF Reliable, Turns, OneAtWork, AtWork, NoneBegins
  <1>2. Awaited' /\ Served'
    BY AwaitedKept, NoneReliedOn, ServedKept DEF Reliable
  <1>3. Generations'
    BY GenerationsKept DEF Reliable
  <1> QED BY <1>1, <1>2, <1>3 DEF Reliable, Turns

\* While a request is under way no job works.
LEMMA RequestsAlone ==
    ASSUME Reliable, request # Ready
    PROVE  \A j \in 1..Len(jobs) : ~AtWork(j)
  BY DEF Reliable, Turns, WorksForRow

LEMMA SomebodyWorks ==
    ASSUME Reliable, NEW j \in 1..Len(jobs), AtWork(j)
    PROVE  /\ request = Ready /\ (Mine(j) \/ Abandoned) /\ row.status \in {"PROCESSING", "ERROR", "GONE"}
           /\ \A i \in 1..Len(jobs) : AtWork(i) => i = j
  BY DEF Reliable, Turns, WorksForRow, OneAtWork, Abandoned, Mine

-----------------------------------------------------------------------------
(* Requests and jobs.                                                      *)

LEMMA NoWorkBegins ==
    ASSUME JobsTyped,
           \/ \E agent, previous \in Agents \cup {None}, pc \in {"unsent", "delayed"} :
                NewJob(agent, previous, pc)
           \/ \E j \in 1..Len(jobs), pc \in {"queued", "done"} : JobGoes(j, pc)
           \/ UNCHANGED jobs
    PROVE  NoneBegins
  <1>0. jobs \in Seq(JobRecords) /\ Len(jobs) \in Nat
    BY DEF JobsTyped
  <1>1. CASE \E agent, previous \in Agents \cup {None}, pc \in {"unsent", "delayed"} :
               NewJob(agent, previous, pc)
    <2>1. PICK job : jobs' = Append(jobs, job) /\ job.pc \in {"unsent", "delayed"}
      BY <1>1 DEF NewJob
    <2>2. ASSUME NEW j \in 1..Len(jobs'), j \notin 1..Len(jobs)
          PROVE  jobs'[j] = job
      BY <1>0, <2>1, <2>2
    <2>3. ASSUME NEW j \in 1..Len(jobs)
          PROVE  jobs'[j] = jobs[j]
      BY <1>0, <2>1
    <2> QED BY <2>1, <2>2, <2>3 DEF NoneBegins, WorkStages
  <1>2. CASE \E j \in 1..Len(jobs), pc \in {"queued", "done"} : JobGoes(j, pc)
    <2>1. PICK j \in 1..Len(jobs), pc \in {"queued", "done"} : JobGoes(j, pc)
      BY <1>2
    <2>2. jobs[j] \in JobRecords
      BY <1>0
    <2>3. Len(jobs') = Len(jobs) /\ jobs'[j].pc = pc
          /\ \A i \in 1..Len(jobs) : i # j => jobs'[i] = jobs[i]
      BY <1>0, <2>1, <2>2 DEF JobGoes, JobRecords
    <2> QED BY <2>3 DEF NoneBegins, WorkStages
  <1>3. CASE UNCHANGED jobs
    BY <1>3 DEF NoneBegins
  <1> QED BY <1>1, <1>2, <1>3

\* A step of the API while no job works.
LEMMA IdleKeeps ==
    ASSUME Reliable, \A j \in 1..Len(jobs) : ~AtWork(j), NoneBegins, ClaimedByRequest',
           UNCHANGED <<tasks, index>>, row' = row \/ row'.status # "ACTIVE"
    PROVE  Reliable'
  <1>1. WorksForRow'
    BY DEF NoneBegins, WorksForRow, AtWork
  <1>2. \A a \in Agents : Shown(a)' => Shown(a)
    BY DEF Shown
  <1> QED BY <1>1, <1>2, NoneBeginsKeeps

LEMMA RequestReliable ==
    ASSUME Inv, Reliable, Request
    PROVE  Reliable'
  <1>0. JobsTyped /\ RequestTyped /\ RowTyped
    BY DEF Inv, Typed
  <1>a. row.status \in {"NONE", "ACTIVE"} => \A j \in 1..Len(jobs) : ~AtWork(j)
    BY SomebodyWorks
  <1>1. ASSUME NEW a \in Agents, Create(a) PROVE Reliable'
    <2>1. NoneBegins
      BY <1>0, <1>1, NoWorkBegins DEF Create
    <2>2. ClaimedByRequest' /\ row'.status # "ACTIVE"
      BY <1>1 DEF Create, ClaimedByRequest, Index, Enqueueing
    <2> QED BY <1>a, <1>1, <2>1, <2>2, IdleKeeps DEF Create
  <1>2. ASSUME NEW a \in Agents, ReadForEdit(a) PROVE Reliable'
    <2>1. \A j \in 1..Len(jobs) : ~AtWork(j)
      BY <1>2, SomebodyWorks DEF ReadForEdit, Exists, Mine, Abandoned
    <2>2. ClaimedByRequest' /\ NoneBegins
      BY <1>0, <1>2, NoWorkBegins DEF ReadForEdit, ClaimedByRequest
    <2> QED BY <1>2, <2>1, <2>2, IdleKeeps DEF ReadForEdit
  <1>3. ASSUME PrepareEdit PROVE Reliable'
    <2> DEFINE free == Exists /\ row.status # "PROCESSING" /\ agents[request.to] # "gone"
    <2>1. \A j \in 1..Len(jobs) : ~AtWork(j)
      BY <1>3, RequestsAlone DEF PrepareEdit, Ready
    <2>2. request.to \in Agents /\ row.agent \in Agents \cup {None}
      BY <1>0, <1>3 DEF PrepareEdit, RequestTyped, RowTyped, Rows
    <2>3. CASE free
      <3>1. row' = Index(request.to) /\ Enqueueing
            /\ NewJob(request.to, IF row.agent = request.to THEN None ELSE row.agent, "unsent")
        BY <1>3, <2>3 DEF PrepareEdit
      <3>2. NoneBegins
        BY <1>0, <2>2, <3>1, NoWorkBegins
      <3>3. ClaimedByRequest' /\ row'.status # "ACTIVE"
        BY <3>1 DEF ClaimedByRequest, Index, Enqueueing
      <3> QED BY <1>3, <2>1, <3>2, <3>3, IdleKeeps DEF PrepareEdit
    <2>4. CASE ~free
      <3>1. request' = Ready /\ UNCHANGED <<row, jobs>>
        BY <1>3, <2>4 DEF PrepareEdit
      <3>2. NoneBegins /\ ClaimedByRequest'
        BY <1>0, <3>1, NoWorkBegins DEF ClaimedByRequest, Ready
      <3> QED BY <1>3, <2>1, <3>1, <3>2, IdleKeeps DEF PrepareEdit
    <2> QED BY <2>3, <2>4
  <1>4. ASSUME ReadForRetry PROVE Reliable'
    <2>1. \A j \in 1..Len(jobs) : ~AtWork(j)
      BY <1>4, SomebodyWorks DEF ReadForRetry, Mine, Abandoned
    <2>2. ClaimedByRequest' /\ NoneBegins
      BY <1>0, <1>4, NoWorkBegins DEF ReadForRetry, ClaimedByRequest
    <2> QED BY <1>4, <2>1, <2>2, IdleKeeps DEF ReadForRetry
  <1>5. ASSUME ClaimRetry PROVE Reliable'
    <2>1. \A j \in 1..Len(jobs) : ~AtWork(j)
      BY <1>5, RequestsAlone DEF ClaimRetry, Ready
    <2>2. request.agent \in Agents
      BY <1>0, <1>5 DEF ClaimRetry, RequestTyped
    <2>3. CASE row.status = "ERROR"
      <3>1. row' = Index(row.agent) /\ Enqueueing /\ NewJob(request.agent, None, "unsent")
        BY <1>5, <2>3 DEF ClaimRetry
      <3>2. NoneBegins
        BY <1>0, <2>2, <3>1, NoWorkBegins
      <3>3. ClaimedByRequest' /\ row'.status # "ACTIVE"
        BY <3>1 DEF ClaimedByRequest, Index, Enqueueing
      <3> QED BY <1>5, <2>1, <3>2, <3>3, IdleKeeps DEF ClaimRetry
    <2>4. CASE row.status # "ERROR"
      <3>1. request' = Ready /\ UNCHANGED <<row, jobs>>
        BY <1>5, <2>4 DEF ClaimRetry
      <3>2. NoneBegins /\ ClaimedByRequest'
        BY <1>0, <3>1, NoWorkBegins DEF ClaimedByRequest, Ready
      <3> QED BY <1>5, <2>1, <3>1, <3>2, IdleKeeps DEF ClaimRetry
    <2> QED BY <2>3, <2>4
  <1>6. ASSUME AddReindex PROVE Reliable'
    <2>1. NoneBegins
      <3>1. row.agent \in Agents
        BY <1>0, <1>6 DEF AddReindex, RowTyped, Rows
      <3> QED BY <1>0, <1>6, <3>1, NoWorkBegins DEF AddReindex
    <2>2. ClaimedByRequest'
      BY <1>6 DEF AddReindex, ClaimedByRequest
    <2> QED BY <1>a, <1>6, <2>1, <2>2, IdleKeeps DEF AddReindex
  <1>7. ASSUME ClaimReindex PROVE Reliable'
    <2>1. request.job \in 1..Len(jobs) /\ request # Ready
      BY <1>0, <1>7 DEF ClaimReindex, RequestTyped, JobWaits, Ready
    <2>2. JobGoes(request.job, "queued") \/ JobGoes(request.job, "done")
      BY <1>7 DEF ClaimReindex, JobGoes
    <2>3. NoneBegins /\ ClaimedByRequest'
      BY <1>0, <1>7, <2>1, <2>2, NoWorkBegins DEF ClaimReindex, ClaimedByRequest
    <2>4. row' = row \/ row'.status # "ACTIVE"
      BY <1>0, <1>7 DEF ClaimReindex, RowTyped, Rows
    <2> QED BY <1>7, <2>1, <2>3, <2>4, RequestsAlone, IdleKeeps DEF ClaimReindex
  <1>8. ASSUME Enqueue PROVE Reliable'
    <2>1. request.job \in 1..Len(jobs) /\ request # Ready
      BY <1>0, <1>8 DEF Enqueue, RequestTyped, JobWaits, Ready
    <2>2. JobGoes(request.job, "queued") \/ JobGoes(request.job, "done")
      BY <1>8 DEF Enqueue, JobGoes
    <2>3. NoneBegins /\ ClaimedByRequest'
      BY <1>0, <1>8, <2>1, <2>2, NoWorkBegins DEF Enqueue, ClaimedByRequest
    <2>4. row' = row \/ row'.status # "ACTIVE"
      BY <1>0, <1>8 DEF Enqueue, Failed, RowTyped, Rows
    <2> QED BY <1>8, <2>1, <2>3, <2>4, RequestsAlone, IdleKeeps DEF Enqueue
  <1>9. ASSUME RequestDies PROVE Reliable'
    <2>1. NoneBegins /\ ClaimedByRequest'
      BY <1>0, <1>9, NoWorkBegins DEF RequestDies, ClaimedByRequest
    <2> QED BY <1>9, <2>1, RequestsAlone, IdleKeeps DEF RequestDies
  <1> QED BY <1>1, <1>2, <1>3, <1>4, <1>5, <1>6, <1>7, <1>8, <1>9 DEF Request

\* The job at work goes on, or stops.
LEMMA TurnEnds ==
    ASSUME Reliable, NEW j \in 1..Len(jobs), AtWork(j), OthersKept(j), Len(jobs') = Len(jobs),
           UNCHANGED request, AtWork(j)' => UNCHANGED row
    PROVE  Turns'
  <1>1. request = Ready /\ (Mine(j) \/ Abandoned) /\ \A i \in 1..Len(jobs) : AtWork(i) => i = j
    BY SomebodyWorks
  <1>2. \A i \in 1..Len(jobs) : AtWork(i)' => i = j
    BY <1>1 DEF OthersKept, AtWork
  <1>3. OneAtWork' /\ ClaimedByRequest'
    BY <1>1, <1>2 DEF OneAtWork, ClaimedByRequest
  <1>4. WorksForRow'
    BY <1>1, <1>2 DEF WorksForRow, Mine, Abandoned
  <1> QED BY <1>3, <1>4 DEF Turns

\* What one job delivers or begins decides what is relied on.
LEMMA TurnKeeps ==
    ASSUME Reliable, NEW j \in 1..Len(jobs), Turns', OthersKept(j), Len(jobs') = Len(jobs),
           UNCHANGED <<tasks, index>>,
           jobs'[j].pc \in {"wait", "activate"} =>
             /\ jobs'[j].pc = "activate" /\ jobs[j].pc = "wait" /\ tasks[jobs[j].task].pc = "ok"
             /\ jobs'[j].agent = jobs[j].agent /\ jobs'[j].task = jobs[j].task,
           \A a \in Agents : Shown(a)' => Shown(a) \/ Delivered(j, a)
    PROVE  Reliable'
  <1>1. Awaited'
    BY DEF Reliable, Awaited, OthersKept, Home, Space
  <1>2. ASSUME NEW i \in 1..Len(jobs), NEW a \in Agents, Delivered(i, a)'
        PROVE  Delivered(i, a)
    <2>1. CASE i = j
      BY <1>2, <2>1 DEF Delivered, Home
    <2>2. CASE i # j
      BY <1>2, <2>2 DEF Delivered, Home, OthersKept
    <2> QED BY <2>1, <2>2
  <1>3. NoneRelied
    BY <1>2 DEF NoneRelied, Relied
  <1>4. Served' /\ Generations'
    BY <1>3, ServedKept, GenerationsKept DEF Reliable
  <1> QED BY <1>1, <1>4 DEF Reliable

LEMMA JobIsAt ==
    ASSUME JobsTyped, NEW j \in 1..Len(jobs)
    PROVE  /\ \A pc \in Stages : JobGoes(j, pc) =>
                /\ Len(jobs') = Len(jobs) /\ OthersKept(j)
                /\ jobs'[j].pc = pc /\ jobs'[j].agent = jobs[j].agent
                /\ jobs'[j].task = jobs[j].task
           /\ \A failure \in {"thrown", "retryable", "fatal"} : jobs' = AfterFailure(j, failure) =>
                /\ Len(jobs') = Len(jobs) /\ OthersKept(j)
                /\ jobs'[j].pc \in {"hide", "queued"}
  <1>1. jobs \in Seq(JobRecords) /\ jobs[j] \in JobRecords
    BY DEF JobsTyped
  <1>2. ASSUME NEW pc \in Stages, JobGoes(j, pc)
        PROVE  /\ Len(jobs') = Len(jobs) /\ OthersKept(j)
               /\ jobs'[j].pc = pc /\ jobs'[j].agent = jobs[j].agent
               /\ jobs'[j].task = jobs[j].task
    BY <1>1, <1>2 DEF JobGoes, JobRecords, OthersKept
  <1>3. ASSUME NEW failure \in {"thrown", "retryable", "fatal"}, jobs' = AfterFailure(j, failure)
        PROVE  /\ Len(jobs') = Len(jobs) /\ OthersKept(j)
               /\ jobs'[j].pc \in {"hide", "queued"}
    <2> DEFINE final == failure = "fatal" \/ jobs[j].attempts + 1 >= MaxAttempts
    <2>1. jobs' = [jobs EXCEPT ![j] = [jobs[j] EXCEPT !.pc = IF final THEN "hide" ELSE "queued",
                                                      !.attempts = @ + 1, !.failure = failure]]
      BY <1>3 DEF AfterFailure
    <2> HIDE DEF final
    <2>2. PICK next \in {"hide", "queued"} : next = IF final THEN "hide" ELSE "queued"
      OBVIOUS
    <2>3. jobs' = [jobs EXCEPT ![j] = [jobs[j] EXCEPT !.pc = next, !.attempts = @ + 1,
                                                      !.failure = failure]]
      BY <2>1, <2>2
    <2> QED BY <1>1, <2>3 DEF JobRecords, OthersKept
  <1> QED BY <1>2, <1>3

LEMMA ClaimReliable ==
    ASSUME Inv, Reliable, NEW j \in 1..Len(jobs), ClaimSource(j)
    PROVE  Reliable'
  <1>0. JobsTyped /\ RequestTyped
    BY DEF Inv, Typed
  <1>1. UNCHANGED <<row, request, tasks, index>> /\ jobs[j].pc \in {"queued", "delayed"}
    BY DEF ClaimSource, JobAt
  <1>2. CASE Mine(j)
    <2>1. JobGoes(j, "track")
      BY <1>2 DEF ClaimSource
    <2>2. Len(jobs') = Len(jobs) /\ OthersKept(j) /\ jobs'[j].pc = "track"
      BY <1>0, <2>1, JobIsAt DEF Stages
    <2>3. request = Ready
      BY <1>0, <1>1, <1>2 DEF Reliable, Turns, ClaimedByRequest, Mine, RequestTyped, JobWaits
    <2>4. \A i \in 1..Len(jobs) : ~AtWork(i)
      BY <1>1, <1>2 DEF Reliable, Turns, WorksForRow, Mine, Abandoned, AtWork, WorkStages
    <2>5. \A i \in 1..Len(jobs) : AtWork(i)' => i = j
      BY <2>2, <2>4 DEF OthersKept, AtWork
    <2>6. WorksForRow'
      BY <1>1, <1>2, <2>2, <2>3, <2>5 DEF WorksForRow, Mine
    <2>7. OneAtWork' /\ ClaimedByRequest'
      BY <1>1, <2>2, <2>3, <2>5 DEF OneAtWork, ClaimedByRequest
    <2>8. \A a \in Agents : Shown(a)' => Shown(a)
      BY <1>1 DEF Shown
    <2> QED BY <1>1, <2>2, <2>6, <2>7, <2>8, TurnKeeps DEF Turns
  <1>3. CASE ~Mine(j)
    <2>1. JobGoes(j, "done")
      BY <1>3 DEF ClaimSource
    <2>2. NoneBegins
      BY <1>0, <2>1, NoWorkBegins
    <2>3. WorksForRow' /\ ClaimedByRequest'
      BY <1>1, <2>2 DEF Reliable, Turns, WorksForRow, ClaimedByRequest, NoneBegins, AtWork, Mine,
                        Abandoned
    <2>4. \A a \in Agents : Shown(a)' => Shown(a)
      BY <1>1 DEF Shown
    <2> QED BY <1>1, <2>2, <2>3, <2>4, NoneBeginsKeeps
  <1> QED BY <1>2, <1>3

\* A job stops, whether it was at work or not.
LEMMA StopKeeps ==
    ASSUME Reliable, NEW j \in 1..Len(jobs), jobs'[j].pc \in {"queued", "done"},
           OthersKept(j), Len(jobs') = Len(jobs), UNCHANGED <<row, request, tasks, index>>
    PROVE  Reliable'
  <1>1. NoneBegins
    BY DEF NoneBegins, OthersKept, WorkStages
  <1>2. WorksForRow' /\ ClaimedByRequest'
    BY <1>1 DEF Reliable, Turns, WorksForRow, ClaimedByRequest, NoneBegins, AtWork, Mine, Abandoned
  <1>3. \A a \in Agents : Shown(a)' => Shown(a)
    BY DEF Shown
  <1> QED BY <1>1, <1>2, <1>3, NoneBeginsKeeps

\* Nothing is relied on while a job is at work that does not wait for its task.
LEMMA NothingRelied ==
    ASSUME Reliable, NEW j \in 1..Len(jobs), AtWork(j), OthersKept(j), Len(jobs') = Len(jobs),
           UNCHANGED row,
           \/ jobs'[j].pc \notin {"wait", "activate"}
           \/ tasks'[jobs'[j].task].pc \notin {"published", "ok"}
    PROVE  Served'
  <1>1. row.status # "ACTIVE" /\ \A i \in 1..Len(jobs) : AtWork(i) => i = j
    BY SomebodyWorks
  <1>2. ASSUME NEW a \in Agents, NEW i \in 1..Len(jobs), Delivered(i, a)'
        PROVE  FALSE
    <2>1. CASE i = j
      BY <1>2, <2>1 DEF Delivered
    <2>2. CASE i # j
      BY <1>1, <1>2, <2>2 DEF Delivered, OthersKept, AtWork, WorkStages
    <2> QED BY <2>1, <2>2
  <1>3. \A a \in Agents : ~Relied(a)'
    BY <1>1, <1>2 DEF Relied, Shown
  <1> QED BY <1>3 DEF Served

\* Steps that hide what a manifest names, or remove it.
Hides(a) ==
    \/ manifest'[a] = manifest[a]
    \/ manifest'[a].mark \notin {"live", "failed"}
    \/ /\ manifest[a].mark = "live"
       /\ manifest'[a].mark = "failed" /\ manifest'[a].gen = manifest[a].gen
Keeps(a) ==
    \/ vectors'[a] = vectors[a]
    \/ Fenced(a)'
    \/ manifest[a].mark = "live" /\ vectors'[a] = vectors[a] \ {manifest[a].gen}

LEMMA HidingKeeps ==
    ASSUME Inv, Generations, UNCHANGED tasks, NothingUnfenced,
           \A a \in Agents : Hides(a) /\ Keeps(a)
    PROVE  Generations'
  <1>0. tasks \in Seq(TaskRecords) /\ \A n \in 1..Len(tasks) : Space(n) \in Agents
    <2>1. tasks \in Seq(TaskRecords)
      BY DEF Inv, Typed, TasksTyped
    <2>2. \A n \in 1..Len(tasks) : tasks[n] \in TaskRecords
      BY <2>1
    <2> QED BY <2>1, <2>2 DEF TaskRecords, Space
  <1>1. PublishedKnown'
    BY DEF Generations, PublishedKnown, Hides, Known, Decided
  <1>2. SeenKnown'
    BY DEF Generations, SeenKnown, Known, Decided
  <1>3. StagedStored'
    <2> SUFFICES ASSUME NEW n \in 1..Len(tasks), tasks[n].pc = "staged"
                 PROVE  n \in vectors'[Space(n)] \/ manifest'[Space(n)].mark = "deleted"
      BY DEF StagedStored, Space, Fenced
    <2>1. PICK a \in Agents : a = Space(n)
      BY <1>0
    <2>2. n \in vectors[a] \/ Fenced(a)
      BY <2>1 DEF Generations, StagedStored
    <2>3. manifest[a].mark = "live" => n # manifest[a].gen
      BY DEF Generations, PublishedKnown, Known, Decided
    <2>4. Keeps(a) /\ (Fenced(a) => Fenced(a)')
      BY DEF NothingUnfenced
    <2> QED BY <2>1, <2>2, <2>3, <2>4 DEF Keeps, Fenced
  <1>4. ReplacedForGood'
    <2> SUFFICES ASSUME NEW n \in 1..Len(tasks), tasks[n].pc = "published"
                 PROVE  /\ tasks[n].seen.mark # "deleted"
                        /\ tasks[n].seen.mark # "revoked" /\ manifest'[Space(n)].mark = "live" =>
                             tasks[n].seen.gen # manifest'[Space(n)].gen
      BY DEF ReplacedForGood, Space
    <2>1. manifest'[Space(n)].mark = "live" => manifest'[Space(n)] = manifest[Space(n)]
      BY <1>0 DEF Hides
    <2> QED BY <2>1 DEF Generations, ReplacedForGood
  <1> QED BY <1>1, <1>2, <1>3, <1>4 DEF Generations

LEMMA AwaitedWhen ==
    ASSUME Reliable, NEW j \in 1..Len(jobs), OthersKept(j), Len(jobs') = Len(jobs),
           jobs'[j].pc \notin {"wait", "activate"}, UNCHANGED tasks
    PROVE  Awaited'
  BY DEF Reliable, Awaited, OthersKept, Home, Space

LEMMA RevokeReliable ==
    ASSUME Inv, Reliable, NEW j \in 1..Len(jobs), RevokePrevious(j)
    PROVE  Reliable'
  <1> DEFINE old == jobs[j].previous
  <1>0. JobsTyped /\ IndexTyped /\ Generations
    BY DEF Inv, Typed, Reliable
  <1>1. UNCHANGED <<row, request, tasks>> /\ jobs[j].pc = "revoke" /\ JobGoes(j, "send")
    BY DEF RevokePrevious, JobAt
  <1>2. Len(jobs') = Len(jobs) /\ OthersKept(j) /\ jobs'[j].pc = "send"
    BY <1>0, <1>1, JobIsAt DEF Stages
  <1>3. AtWork(j)
    BY <1>1 DEF AtWork, WorkStages
  <1>4. Turns' /\ Awaited' /\ Served'
    BY <1>1, <1>2, <1>3, TurnEnds, AwaitedWhen, NothingRelied
  <1>5. /\ manifest' = IF manifest[old].mark = "deleted" THEN manifest
                       ELSE [manifest EXCEPT ![old] = Entry("revoked", Revocation(j))]
        /\ vectors' = IF manifest[old].mark = "live"
                      THEN [vectors EXCEPT ![old] = @ \ {manifest[old].gen}] ELSE vectors
    BY DEF RevokePrevious
  <1> HIDE DEF old
  <1>6. ASSUME NEW a \in Agents
        PROVE  Hides(a) /\ Keeps(a) /\ (Fenced(a) => Fenced(a)')
    <2>1. CASE a = old
      <3>1. manifest'[a] = manifest[a] \/ (manifest'[a].mark = "revoked" /\ ~Fenced(a))
        BY <1>0, <1>5, <2>1 DEF IndexTyped, Entry, Fenced
      <3>2. vectors'[a] = vectors[a]
            \/ (manifest[a].mark = "live" /\ vectors'[a] = vectors[a] \ {manifest[a].gen})
        BY <1>0, <1>5, <2>1 DEF IndexTyped
      <3> QED BY <3>1, <3>2 DEF Hides, Keeps, Fenced
    <2>2. CASE a # old
      <3>1. manifest'[a] = manifest[a] /\ vectors'[a] = vectors[a]
        BY <1>0, <1>5, <2>2 DEF IndexTyped
      <3> QED BY <3>1 DEF Hides, Keeps, Fenced
    <2> QED BY <2>1, <2>2
  <1>7. Generations'
    BY <1>0, <1>1, <1>6, HidingKeeps DEF NothingUnfenced
  <1> QED BY <1>4, <1>7 DEF Reliable

LEMMA HideReliable ==
    ASSUME Inv, Reliable, NEW j \in 1..Len(jobs), HideFailed(j)
    PROVE  Reliable'
  <1> DEFINE home == Home(j)
  <1>0. JobsTyped /\ IndexTyped /\ Generations
    BY DEF Inv, Typed, Reliable
  <1>1. UNCHANGED <<row, request, tasks, vectors>> /\ jobs[j].pc = "hide" /\ JobGoes(j, "mark")
        /\ \/ manifest' = manifest
           \/ /\ manifest[home].mark = "live"
              /\ manifest' = [manifest EXCEPT ![home].mark = "failed"]
    BY DEF HideFailed, JobAt
  <1>2. Len(jobs') = Len(jobs) /\ OthersKept(j) /\ jobs'[j].pc = "mark"
    BY <1>0, <1>1, JobIsAt DEF Stages
  <1>3. AtWork(j)
    BY <1>1 DEF AtWork, WorkStages
  <1>4. Turns' /\ Awaited' /\ Served'
    BY <1>1, <1>2, <1>3, TurnEnds, AwaitedWhen, NothingRelied
  <1> HIDE DEF home
  <1>5. ASSUME NEW a \in Agents
        PROVE  Hides(a) /\ Keeps(a) /\ (Fenced(a) => Fenced(a)')
    <2>1. manifest[a] \in Entries
      BY <1>0 DEF IndexTyped
    <2>2. CASE manifest' = manifest \/ a # home
      <3>1. manifest'[a] = manifest[a]
        BY <1>0, <1>1, <2>2 DEF IndexTyped
      <3> QED BY <1>1, <3>1 DEF Hides, Keeps, Fenced
    <2>3. CASE manifest' # manifest /\ a = home
      <3>1. manifest[a].mark = "live" /\ manifest'[a] = [manifest[a] EXCEPT !.mark = "failed"]
        BY <1>0, <1>1, <2>3 DEF IndexTyped
      <3>2. manifest'[a].mark = "failed" /\ manifest'[a].gen = manifest[a].gen
        BY <2>1, <3>1 DEF Entries
      <3> QED BY <1>1, <3>1, <3>2 DEF Hides, Keeps, Fenced
    <2> QED BY <2>2, <2>3
  <1>6. Generations'
    BY <1>0, <1>1, <1>5, HidingKeeps DEF NothingUnfenced
  <1> QED BY <1>4, <1>6 DEF Reliable

LEMMA SendReliable ==
    ASSUME Inv, Reliable, NEW j \in 1..Len(jobs), SendDocument(j)
    PROVE  Reliable'
  <1> DEFINE now == manifest[Home(j)]
             task == [agent |-> Home(j), before |-> now, seen |-> now,
                      pc |-> IF now.mark = "deleted" THEN "failed" ELSE "running"]
             last == Len(tasks) + 1
  <1>0. /\ JobsTyped /\ TasksTyped /\ jobs \in Seq(JobRecords) /\ jobs[j] \in JobRecords
        /\ tasks \in Seq(TaskRecords) /\ Len(tasks) \in Nat /\ Home(j) \in Agents
    <2>1. JobsTyped /\ TasksTyped /\ jobs \in Seq(JobRecords) /\ tasks \in Seq(TaskRecords)
      BY DEF Inv, Typed, JobsTyped, TasksTyped
    <2>2. jobs[j] \in JobRecords
      BY <2>1
    <2>3. Home(j) \in Agents
      BY <2>2 DEF JobRecords, Home
    <2> QED BY <2>1, <2>2, <2>3
  <1>1. UNCHANGED <<row, request, index>> /\ jobs[j].pc = "send" /\ tasks' = Append(tasks, task)
        /\ jobs' = [jobs EXCEPT ![j] = [jobs[j] EXCEPT !.pc = "wait", !.task = last]]
    BY DEF SendDocument, JobAt
  <1>2. /\ Len(jobs') = Len(jobs) /\ OthersKept(j)
        /\ jobs'[j].pc = "wait" /\ jobs'[j].task = last /\ jobs'[j].agent = jobs[j].agent
    BY <1>0, <1>1 DEF JobRecords, OthersKept
  <1>3. AtWork(j)
    BY <1>1 DEF AtWork, WorkStages
  <1>4. /\ Len(tasks') = last /\ tasks'[last] = task
        /\ \A n \in 1..Len(tasks) : tasks'[n] = tasks[n]
    BY <1>0, <1>1
  <1>5. /\ task.agent = Home(j) /\ task.before = now /\ task.seen = now
        /\ task.pc \in {"running", "failed"}
    OBVIOUS
  <1> HIDE DEF task, now
  <1>6. Turns' /\ Served'
    BY <1>1, <1>2, <1>3, <1>4, <1>5, TurnEnds, NothingRelied
  <1>7. Awaited'
    <2> SUFFICES ASSUME NEW i \in 1..Len(jobs), jobs'[i].pc \in {"wait", "activate"}
                 PROVE  /\ jobs'[i].task \in 1..Len(tasks')
                        /\ tasks'[jobs'[i].task].agent = jobs'[i].agent
                        /\ jobs'[i].pc = "activate" => tasks'[jobs'[i].task].pc = "ok"
      BY <1>2 DEF Awaited, Home, Space
    <2>1. CASE i = j
      BY <1>0, <1>2, <1>4, <1>5, <2>1 DEF Home
    <2>2. CASE i # j
      <3>1. jobs'[i] = jobs[i]
        BY <1>2, <2>2 DEF OthersKept
      <3>2. jobs[i].task \in 1..Len(tasks) /\ tasks[jobs[i].task].agent = jobs[i].agent
            /\ (jobs[i].pc = "activate" => tasks[jobs[i].task].pc = "ok")
        BY <3>1 DEF Reliable, Awaited, Home, Space
      <3> QED BY <1>0, <1>4, <3>1, <3>2
    <2> QED BY <2>1, <2>2
  <1>8. Generations'
    <2>1. manifest' = manifest /\ vectors' = vectors /\ Generations
      BY <1>1 DEF index, Reliable
    <2>2. Known(now)
      BY <1>0, <2>1 DEF Generations, PublishedKnown, now
    <2>3. PublishedKnown'
      BY <1>0, <1>4, <2>1 DEF Generations, PublishedKnown, Known, Decided
    <2>4. SeenKnown'
      <3> SUFFICES ASSUME NEW n \in 1..last
                   PROVE  Known(tasks[n].before)' /\ Known(tasks[n].seen)'
        BY <1>4 DEF SeenKnown
      <3>1. CASE n = last
        BY <1>0, <1>4, <1>5, <2>2, <3>1 DEF Known, Decided
      <3>2. CASE n \in 1..Len(tasks)
        <4>1. Known(tasks[n].before) /\ Known(tasks[n].seen) /\ tasks'[n] = tasks[n]
          BY <1>4, <2>1, <3>2 DEF Generations, SeenKnown
        <4> QED BY <1>0, <1>4, <4>1 DEF Known, Decided
      <3> QED BY <1>0, <3>1, <3>2
    <2>5. \A n \in 1..last : tasks'[n].pc \in {"staged", "published"} =>
            n \in 1..Len(tasks) /\ tasks'[n] = tasks[n]
      BY <1>0, <1>4, <1>5
    <2>6. StagedStored'
      <3> SUFFICES ASSUME NEW n \in 1..last, tasks'[n].pc = "staged"
                   PROVE  n \in vectors[tasks'[n].agent] \/ manifest[tasks'[n].agent].mark = "deleted"
        BY <1>4, <2>1 DEF StagedStored, Space, Fenced
      <3>1. n \in 1..Len(tasks) /\ tasks'[n] = tasks[n]
        BY <2>5
      <3> QED BY <2>1, <3>1 DEF Generations, StagedStored, Space, Fenced
    <2>7. ReplacedForGood'
      <3> SUFFICES ASSUME NEW n \in 1..last, tasks'[n].pc = "published"
                   PROVE  LET a == tasks'[n].agent
                              seen == tasks'[n].seen
                          IN  /\ seen.mark # "deleted"
                              /\ seen.mark # "revoked" /\ manifest[a].mark = "live" =>
                                   seen.gen # manifest[a].gen
        BY <1>4, <2>1 DEF ReplacedForGood, Space
      <3>1. n \in 1..Len(tasks) /\ tasks'[n] = tasks[n]
        BY <2>5
      <3> QED BY <2>1, <3>1 DEF Generations, ReplacedForGood, Space
    <2> QED BY <2>3, <2>4, <2>6, <2>7 DEF Generations
  <1> QED BY <1>6, <1>7, <1>8 DEF Reliable

LEMMA WorkReliable ==
    ASSUME Inv, Reliable, NEW j \in 1..Len(jobs), Work(j)
    PROVE  Reliable'
  <1>0. JobsTyped /\ RowTyped /\ jobs[j] \in JobRecords
    <2>1. JobsTyped /\ RowTyped
      BY DEF Inv, Typed
    <2> QED BY <2>1 DEF JobsTyped
  <1>1. CASE ClaimSource(j)
    BY <1>1, ClaimReliable
  <1>2. CASE TrackKbJob(j)
    <2>1. UNCHANGED <<row, request, tasks, index>> /\ jobs[j].pc = "track"
          /\ (JobGoes(j, "send") \/ JobGoes(j, "revoke"))
      BY <1>2 DEF TrackKbJob, JobAt
    <2>2. Len(jobs') = Len(jobs) /\ OthersKept(j) /\ jobs'[j].pc \in {"send", "revoke"}
      BY <1>0, <2>1, JobIsAt DEF Stages
    <2>3. Turns'
      BY <2>1, <2>2, TurnEnds DEF AtWork, WorkStages
    <2>4. \A a \in Agents : Shown(a)' => Shown(a)
      BY <2>1 DEF Shown
    <2> QED BY <2>1, <2>2, <2>3, <2>4, TurnKeeps
  <1>3. CASE RevokePrevious(j)
    BY <1>3, RevokeReliable
  <1>4. CASE SendDocument(j)
    BY <1>4, SendReliable
  <1>5. CASE ReadResult(j)
    <2>1. UNCHANGED <<row, request, tasks, index>> /\ jobs[j].pc = "wait"
          /\ \/ tasks[jobs[j].task].pc = "ok" /\ JobGoes(j, "activate")
             \/ \E failure \in {"retryable", "fatal"} : jobs' = AfterFailure(j, failure)
      BY <1>5 DEF ReadResult, JobAt
    <2>2. /\ Len(jobs') = Len(jobs) /\ OthersKept(j)
          /\ jobs'[j].pc \in {"wait", "activate"} =>
               /\ jobs'[j].pc = "activate" /\ tasks[jobs[j].task].pc = "ok"
               /\ jobs'[j].agent = jobs[j].agent /\ jobs'[j].task = jobs[j].task
      BY <1>0, <2>1, JobIsAt DEF Stages
    <2>3. Turns'
      BY <2>1, <2>2, TurnEnds DEF AtWork, WorkStages
    <2>4. \A a \in Agents : Shown(a)' => Shown(a)
      BY <2>1 DEF Shown
    <2> QED BY <2>1, <2>2, <2>3, <2>4, TurnKeeps
  <1>6. CASE JobThrows(j)
    <2>1. UNCHANGED <<row, request, tasks, index>> /\ AtWork(j) /\ jobs' = AfterFailure(j, "thrown")
      BY <1>6 DEF JobThrows, AtWork, WorkStages
    <2>2. Len(jobs') = Len(jobs) /\ OthersKept(j) /\ jobs'[j].pc \in {"hide", "queued"}
      BY <1>0, <2>1, JobIsAt
    <2>3. Turns'
      BY <2>1, <2>2, TurnEnds
    <2>4. \A a \in Agents : Shown(a)' => Shown(a)
      BY <2>1 DEF Shown
    <2> QED BY <2>1, <2>2, <2>3, <2>4, TurnKeeps
  <1>7. CASE MarkActive(j)
    <2>1. UNCHANGED <<request, tasks, index>> /\ jobs[j].pc = "activate" /\ AtWork(j)
      BY <1>7 DEF MarkActive, JobAt, AtWork, WorkStages
    <2>2. CASE agents[Home(j)] = "gone"
      <3>1. jobs' = AfterFailure(j, "thrown") /\ row' = row
        BY <1>7, <2>2 DEF MarkActive
      <3>2. Len(jobs') = Len(jobs) /\ OthersKept(j) /\ jobs'[j].pc \in {"hide", "queued"}
        BY <1>0, <3>1, JobIsAt
      <3>3. Turns'
        BY <2>1, <3>1, <3>2, TurnEnds
      <3>4. \A a \in Agents : Shown(a)' => Shown(a)
        BY <3>1 DEF Shown
      <3> QED BY <2>1, <3>2, <3>3, <3>4, TurnKeeps
    <2>3. CASE agents[Home(j)] # "gone"
      <3>1. JobGoes(j, "finish")
            /\ (row' = row \/ (row.agent = Home(j)
                               /\ row' = [row EXCEPT !.status = "ACTIVE", !.retryable = TRUE]))
        BY <1>7, <2>3 DEF MarkActive
      <3>2. Len(jobs') = Len(jobs) /\ OthersKept(j) /\ jobs'[j].pc = "finish"
        BY <1>0, <3>1, JobIsAt DEF Stages
      <3>3. Turns'
        BY <2>1, <3>2, TurnEnds DEF AtWork, WorkStages
      <3>4. \A a \in Agents : Shown(a)' => Shown(a) \/ Delivered(j, a)
        <4>1. tasks[jobs[j].task].pc = "ok"
          BY <2>1 DEF Reliable, Awaited
        <4>2. row' = row \/ (row.agent = Home(j) /\ row'.agent = row.agent)
          BY <1>0, <3>1 DEF RowTyped, Rows
        <4> QED BY <2>1, <4>1, <4>2 DEF Shown, Delivered
      <3> QED BY <2>1, <3>2, <3>3, <3>4, TurnKeeps
    <2> QED BY <2>2, <2>3
  <1>8. CASE FinishKbJob(j)
    <2>1. UNCHANGED <<row, request, tasks, index>> /\ JobGoes(j, "done")
      BY <1>8 DEF FinishKbJob
    <2>2. Len(jobs') = Len(jobs) /\ OthersKept(j) /\ jobs'[j].pc = "done"
      BY <1>0, <2>1, JobIsAt DEF Stages
    <2> QED BY <2>1, <2>2, StopKeeps
  <1>9. CASE HideFailed(j)
    BY <1>9, HideReliable
  <1>10. CASE MarkFailed(j)
    <2>1. UNCHANGED <<request, tasks, index>> /\ AtWork(j) /\ JobGoes(j, "done")
          /\ (row' = row \/ \E r \in BOOLEAN : row' = Failed(r))
      BY <1>10 DEF MarkFailed, JobAt, AtWork, WorkStages
    <2>2. Len(jobs') = Len(jobs) /\ OthersKept(j) /\ jobs'[j].pc = "done"
      BY <1>0, <2>1, JobIsAt DEF Stages
    <2>3. Turns'
      BY <2>1, <2>2, TurnEnds DEF AtWork, WorkStages
    <2>4. \A a \in Agents : Shown(a)' => Shown(a)
      <3>1. row' = row \/ row'.status = "ERROR"
        <4>1. ASSUME NEW r \in BOOLEAN, row' = Failed(r) PROVE row'.status = "ERROR"
          BY <1>0, <4>1 DEF Failed, RowTyped, Rows
        <4> QED BY <2>1, <4>1
      <3> QED BY <3>1 DEF Shown
    <2> QED BY <2>1, <2>2, <2>3, <2>4, TurnKeeps
  <1>11. CASE WorkerDies(j)
    <2>1. UNCHANGED <<row, request, tasks, index>>
          /\ (JobGoes(j, "done") \/ jobs' = [jobs EXCEPT ![j].pc = "queued", ![j].stalled = TRUE])
      BY <1>11 DEF WorkerDies
    <2>2. CASE JobGoes(j, "done")
      <3>1. Len(jobs') = Len(jobs) /\ OthersKept(j) /\ jobs'[j].pc = "done"
        BY <1>0, <2>2, JobIsAt DEF Stages
      <3> QED BY <2>1, <3>1, StopKeeps
    <2>3. CASE jobs' = [jobs EXCEPT ![j].pc = "queued", ![j].stalled = TRUE]
      <3>1. jobs' = [jobs EXCEPT ![j] = [jobs[j] EXCEPT !.pc = "queued", !.stalled = TRUE]]
        BY <2>3
      <3>2. Len(jobs') = Len(jobs) /\ OthersKept(j) /\ jobs'[j].pc = "queued"
        BY <1>0, <3>1 DEF JobsTyped, JobRecords, OthersKept
      <3> QED BY <2>1, <3>2, StopKeeps
    <2> QED BY <2>1, <2>2, <2>3
  <1> QED BY <1>1, <1>2, <1>3, <1>4, <1>5, <1>6, <1>7, <1>8, <1>9, <1>10, <1>11 DEF Work

-----------------------------------------------------------------------------
(* Background tasks.                                                       *)

\* Task n does its next step, in the namespace and with the entry it began with.
TaskSteps(n) ==
    /\ Len(tasks') = Len(tasks)
    /\ \A i \in 1..Len(tasks) : i # n => tasks'[i] = tasks[i]
    /\ tasks'[n].agent = tasks[n].agent /\ tasks'[n].before = tasks[n].before

LEMMA TaskIsAt ==
    ASSUME TasksTyped, NEW n \in 1..Len(tasks), NEW pc, TaskGoes(n, pc)
    PROVE  TaskSteps(n) /\ tasks'[n].pc = pc /\ tasks'[n].seen = tasks[n].seen
  <1>1. tasks[n] \in TaskRecords /\ tasks \in Seq(TaskRecords)
    BY DEF TasksTyped
  <1> QED BY <1>1 DEF TaskGoes, TaskRecords, TaskSteps

LEMMA SpacesAreAgents ==
    ASSUME Inv
    PROVE  /\ Len(tasks) \in Nat
           /\ \A n \in 1..Len(tasks) : tasks[n] \in TaskRecords /\ Space(n) \in Agents
  <1>1. tasks \in Seq(TaskRecords)
    BY DEF Inv, Typed, TasksTyped
  <1>2. \A n \in 1..Len(tasks) : tasks[n] \in TaskRecords
    BY <1>1
  <1> QED BY <1>1, <1>2 DEF TaskRecords, Space

LEMMA TaskTurns ==
    ASSUME Reliable, UNCHANGED <<row, request, jobs>>
    PROVE  Turns'
  BY DEF Reliable, Turns, WorksForRow, OneAtWork, ClaimedByRequest, AtWork, Mine, Abandoned

LEMMA TaskAwaited ==
    ASSUME Reliable, NEW n \in 1..Len(tasks), TaskSteps(n), tasks[n].pc # "ok", UNCHANGED jobs
    PROVE  Awaited'
  <1> SUFFICES ASSUME NEW j \in 1..Len(jobs), jobs[j].pc \in {"wait", "activate"}
               PROVE  /\ jobs[j].task \in 1..Len(tasks')
                      /\ tasks'[jobs[j].task].agent = jobs[j].agent
                      /\ jobs[j].pc = "activate" => tasks'[jobs[j].task].pc = "ok"
    BY DEF Awaited, Space, Home
  <1>1. /\ jobs[j].task \in 1..Len(tasks) /\ tasks[jobs[j].task].agent = jobs[j].agent
        /\ jobs[j].pc = "activate" => tasks[jobs[j].task].pc = "ok"
    BY DEF Reliable, Awaited, Space, Home
  <1> QED BY <1>1 DEF TaskSteps

\* What is relied on stays published and stored.
LEMMA TaskServes ==
    ASSUME Inv, Reliable, NEW n \in 1..Len(tasks), TaskSteps(n), UNCHANGED <<row, jobs>>,
           NothingUnfenced,
           tasks'[n].pc \in {"published", "ok"} => tasks[n].pc \in {"published", "ok"},
           \A a \in Agents : Relied(a) /\ Visible(a) /\ NewerThanBegun(a) =>
             manifest'[a] = manifest[a] /\ manifest[a].gen \in vectors'[a]
    PROVE  Served'
  <1>1. ASSUME NEW a \in Agents, Relied(a)' PROVE Relied(a)
    <2>1. CASE Shown(a)'
      BY <2>1 DEF Relied, Shown
    <2>2. CASE \E j \in 1..Len(jobs') : Delivered(j, a)'
      <3>1. PICK j \in 1..Len(jobs) : Delivered(j, a)'
        BY <2>2
      <3>2. jobs[j].pc \in {"wait", "activate"} /\ Home(j) = a
            /\ tasks'[jobs[j].task].pc \in {"published", "ok"}
        BY <3>1 DEF Delivered, Home
      <3>3. jobs[j].task \in 1..Len(tasks)
        BY <3>2 DEF Reliable, Awaited
      <3>4. tasks[jobs[j].task].pc \in {"published", "ok"}
        BY <3>2, <3>3 DEF TaskSteps
      <3> QED BY <3>2, <3>4 DEF Relied, Delivered
    <2> QED BY <1>1, <2>1, <2>2 DEF Relied
  <1>2. ASSUME NEW a \in Agents, Relied(a)
        PROVE  Fenced(a)' \/ (Visible(a) /\ NewerThanBegun(a))'
    <2>1. Fenced(a) \/ (Visible(a) /\ NewerThanBegun(a))
      BY <1>2 DEF Reliable, Served
    <2>2. CASE Fenced(a)
      BY <2>2 DEF NothingUnfenced
    <2>3. CASE Visible(a) /\ NewerThanBegun(a)
      <3>1. manifest'[a] = manifest[a] /\ manifest[a].gen \in vectors'[a]
        BY <1>2, <2>3
      <3>2. Visible(a)'
        BY <2>3, <3>1 DEF Visible
      <3>3. NewerThanBegun(a)'
        BY <2>3, <3>1 DEF NewerThanBegun, TaskSteps, Space
      <3> QED BY <3>2, <3>3
    <2> QED BY <2>1, <2>2, <2>3
  <1> QED BY <1>1, <1>2 DEF Served

\* A task that ends a stage: it publishes what was not known before, hides
\* what was live, or removes what it stored or replaced.
Republishes(n, a) ==
    \/ manifest'[a] = manifest[a]
    \/ /\ manifest[a].mark = "live"
       /\ manifest'[a].mark = "failed" /\ manifest'[a].gen = manifest[a].gen
    \/ a = Space(n) /\ ~Decided(n) /\ manifest'[a] = Entry("live", n)
Removes(n, a) ==
    \/ vectors'[a] = vectors[a]
    \/ vectors'[a] = vectors[a] \ {n}
    \/ /\ tasks[n].seen.mark \in {"live", "failed"}
       /\ vectors'[a] = vectors[a] \ {tasks[n].seen.gen}

LEMMA TaskGenerations ==
    ASSUME Inv, Generations, NEW n \in 1..Len(tasks), TaskSteps(n),
           tasks'[n].seen = tasks[n].seen, tasks'[n].pc \notin {"running", "staged"},
           tasks'[n].pc = "published" =>
             tasks[n].pc = "staged" /\ manifest'[Space(n)] = Entry("live", n),
           NothingUnfenced, \A a \in Agents : Republishes(n, a) /\ Removes(n, a)
    PROVE  Generations'
  <1>0. Len(tasks) \in Nat /\ \A i \in 1..Len(tasks) : Space(i) \in Agents
    BY SpacesAreAgents
  <1>1. \A i \in 1..Len(tasks) : Decided(i) => Decided(i)'
    BY DEF Decided, TaskSteps
  <1>2. Decided(n)' /\ Len(tasks') = Len(tasks)
    BY DEF Decided, TaskSteps
  <1>3. PublishedKnown'
    <2> SUFFICES ASSUME NEW a \in Agents PROVE Known(manifest[a])'
      BY DEF PublishedKnown
    <2>1. Known(manifest[a]) /\ Republishes(n, a)
      BY DEF Generations, PublishedKnown
    <2>2. CASE manifest'[a] = manifest[a] \/ manifest'[a].gen = manifest[a].gen
      BY <1>1, <1>2, <2>1, <2>2 DEF Republishes, Known, Entry
    <2>3. CASE manifest'[a] = Entry("live", n)
      BY <1>2, <2>3 DEF Known, Entry
    <2> QED BY <2>1, <2>2, <2>3 DEF Republishes
  <1>4. SeenKnown'
    <2> SUFFICES ASSUME NEW i \in 1..Len(tasks)
                 PROVE  Known(tasks[i].before)' /\ Known(tasks[i].seen)'
      BY <1>2 DEF SeenKnown
    <2>1. Known(tasks[i].before) /\ Known(tasks[i].seen)
      BY DEF Generations, SeenKnown
    <2>2. tasks'[i].before = tasks[i].before /\ tasks'[i].seen = tasks[i].seen
      BY DEF TaskSteps
    <2> QED BY <1>1, <1>2, <2>1, <2>2 DEF Known
  <1>5. StagedStored'
    <2> SUFFICES ASSUME NEW i \in 1..Len(tasks), tasks'[i].pc = "staged"
                 PROVE  i \in vectors'[tasks'[i].agent] \/ manifest'[tasks'[i].agent].mark = "deleted"
      BY <1>2 DEF StagedStored, Space, Fenced
    <2>1. i # n /\ tasks'[i] = tasks[i]
      BY DEF TaskSteps
    <2>2. PICK a \in Agents : a = Space(i) /\ a = tasks'[i].agent
      BY <1>0, <2>1 DEF Space
    <2>3. i \in vectors[a] \/ Fenced(a)
      BY <2>1, <2>2 DEF Generations, StagedStored
    <2>4. tasks[n].seen.mark \in {"live", "failed"} => i # tasks[n].seen.gen
      BY <2>1 DEF Generations, SeenKnown, Known, Decided
    <2>5. Removes(n, a) /\ (Fenced(a) => Fenced(a)')
      BY DEF NothingUnfenced
    <2> QED BY <2>1, <2>2, <2>3, <2>4, <2>5 DEF Removes, Fenced
  <1>6. ReplacedForGood'
    <2> SUFFICES ASSUME NEW i \in 1..Len(tasks), tasks'[i].pc = "published"
                 PROVE  LET a == tasks'[i].agent
                            seen == tasks'[i].seen
                        IN  /\ seen.mark # "deleted"
                            /\ seen.mark # "revoked" /\ manifest'[a].mark = "live" =>
                                 seen.gen # manifest'[a].gen
      BY <1>2 DEF ReplacedForGood, Space
    <2>1. PICK a \in Agents : a = Space(i) /\ a = tasks'[i].agent
      BY <1>0 DEF Space, TaskSteps
    <2>2. PICK seen : seen = tasks[i].seen /\ seen = tasks'[i].seen
      BY DEF TaskSteps
    <2>3. seen.mark # "deleted"
      <3>1. CASE i = n
        BY <2>2, <3>1 DEF Inv, Fences, TasksSawNoFence
      <3>2. CASE i # n
        BY <2>2, <3>2 DEF TaskSteps, Generations, ReplacedForGood
      <3> QED BY <3>1, <3>2
    <2>4. ASSUME seen.mark # "revoked", manifest'[a].mark = "live" PROVE seen.gen # manifest'[a].gen
      <3>1. seen.mark \in {"live", "failed"}
        <4>1. tasks[i] \in TaskRecords
          BY SpacesAreAgents
        <4> QED BY <2>2, <2>3, <2>4, <4>1 DEF TaskRecords, Entries, Marks
      <3>2. CASE i # n /\ manifest'[a] = manifest[a]
        <4>1. tasks[i].pc = "published"
          BY <3>2 DEF TaskSteps
        <4>2. seen.mark # "revoked" /\ manifest[a].mark = "live" => seen.gen # manifest[a].gen
          BY <2>1, <2>2, <4>1 DEF Generations, ReplacedForGood
        <4> QED BY <2>4, <3>2, <4>2
      <3>3. CASE i = n \/ manifest'[a] # manifest[a]
        <4>1. ~Decided(n) /\ manifest'[a] = Entry("live", n)
          BY <2>1, <2>4, <3>3 DEF Republishes, Decided
        <4>2. seen.gen # n
          <5>1. Known(tasks[i].seen)
            BY DEF Generations, SeenKnown
          <5>2. n # 0
            BY <1>0
          <5> QED BY <2>2, <3>1, <4>1, <5>1, <5>2 DEF Known
        <4> QED BY <4>1, <4>2 DEF Entry
      <3> QED BY <3>2, <3>3
    <2> QED BY <2>1, <2>2, <2>3, <2>4
  <1> QED BY <1>3, <1>4, <1>5, <1>6 DEF Generations

\* Steps after which a task publishes nothing.
LEMMA TaskStops ==
    ASSUME Inv, Reliable, NEW n \in 1..Len(tasks), NEW pc \in {"failing", "failed", "lost"},
           TaskGoes(n, pc), tasks[n].pc # "ok", UNCHANGED <<row, request, jobs, index>>
    PROVE  Reliable'
  <1>1. TaskSteps(n) /\ tasks'[n].pc = pc /\ tasks'[n].seen = tasks[n].seen
    BY TaskIsAt DEF Inv, Typed
  <1>2. Turns' /\ Awaited'
    BY <1>1, TaskTurns, TaskAwaited
  <1>3. NothingUnfenced /\ manifest' = manifest /\ vectors' = vectors
    BY DEF NothingUnfenced, Fenced, index
  <1>4. Served'
    BY <1>1, <1>3, TaskServes DEF Visible
  <1>5. Generations'
    BY <1>1, <1>3, TaskGenerations DEF Reliable, Republishes, Removes
  <1> QED BY <1>2, <1>4, <1>5 DEF Reliable

LEMMA StageReliable ==
    ASSUME Inv, Reliable, NEW n \in 1..Len(tasks), StageVectors(n), ~Fenced(Space(n))
    PROVE  Reliable'
  <1> DEFINE a == Space(n)
             task == [tasks[n] EXCEPT !.pc = "staged", !.seen = manifest[a]]
  <1>0. /\ a \in Agents /\ Len(tasks) \in Nat /\ \A i \in 1..Len(tasks) : Space(i) \in Agents
        /\ tasks \in Seq(TaskRecords) /\ tasks[n] \in TaskRecords
        /\ vectors \in [Agents -> SUBSET (0..MaxTasks)]
    BY SpacesAreAgents DEF Inv, Typed, TasksTyped, IndexTyped
  <1>1. /\ UNCHANGED <<row, request, jobs, manifest>> /\ tasks[n].pc = "running"
        /\ tasks' = [tasks EXCEPT ![n] = task] /\ vectors' = [vectors EXCEPT ![a] = @ \cup {n}]
    BY DEF StageVectors, TaskAt, Fenced
  <1>2. TaskSteps(n) /\ tasks'[n].pc = "staged" /\ tasks'[n].seen = manifest[a]
    BY <1>0, <1>1 DEF TaskSteps, TaskRecords
  <1> HIDE DEF task, a
  <1>3. a = Space(n) /\ \A b \in Agents : vectors[b] \subseteq vectors'[b] /\ (b = a => n \in vectors'[b])
    BY <1>0, <1>1 DEF a
  <1>4. Turns' /\ Awaited'
    BY <1>1, <1>2, TaskTurns, TaskAwaited
  <1>5. NothingUnfenced
    BY <1>1 DEF NothingUnfenced, Fenced
  <1>6. Served'
    BY <1>1, <1>2, <1>3, <1>5, TaskServes DEF Visible
  <1>7. Generations'
    <2>1. Generations /\ Len(tasks') = Len(tasks)
      BY <1>2 DEF Reliable, TaskSteps
    <2>2. \A i \in 1..Len(tasks) : Decided(i) => Decided(i)'
      BY <1>1, <1>2 DEF Decided, TaskSteps
    <2>3. PublishedKnown'
      BY <1>1, <2>1, <2>2 DEF Generations, PublishedKnown, Known
    <2>4. SeenKnown'
      <3> SUFFICES ASSUME NEW i \in 1..Len(tasks)
                   PROVE  Known(tasks[i].before)' /\ Known(tasks[i].seen)'
        BY <2>1 DEF SeenKnown
      <3>1. Known(tasks[i].before) /\ Known(tasks[i].seen) /\ Known(manifest[a])
        BY <1>0, <2>1 DEF Generations, SeenKnown, PublishedKnown
      <3>2. tasks'[i].before = tasks[i].before
        BY <1>2 DEF TaskSteps
      <3>3. tasks'[i].seen = tasks[i].seen \/ tasks'[i].seen = manifest[a]
        BY <1>2 DEF TaskSteps
      <3> QED BY <2>1, <2>2, <3>1, <3>2, <3>3 DEF Known
    <2>5. StagedStored'
      <3> SUFFICES ASSUME NEW i \in 1..Len(tasks), tasks'[i].pc = "staged"
                   PROVE  i \in vectors'[tasks'[i].agent] \/ manifest[tasks'[i].agent].mark = "deleted"
        BY <1>1, <2>1 DEF StagedStored, Space, Fenced
      <3>1. CASE i = n
        BY <1>0, <1>2, <1>3, <3>1 DEF TaskSteps, Space
      <3>2. CASE i # n
        <4>1. tasks'[i] = tasks[i] /\ tasks[i].agent \in Agents
          BY <1>0, <1>2, <3>2 DEF TaskSteps, Space
        <4>2. i \in vectors[tasks[i].agent] \/ manifest[tasks[i].agent].mark = "deleted"
          BY <2>1, <4>1 DEF Generations, StagedStored, Space, Fenced
        <4> QED BY <1>3, <4>1, <4>2
      <3> QED BY <3>1, <3>2
    <2>6. ReplacedForGood'
      <3> SUFFICES ASSUME NEW i \in 1..Len(tasks), tasks'[i].pc = "published"
                   PROVE  LET b == tasks'[i].agent
                              seen == tasks'[i].seen
                          IN  /\ seen.mark # "deleted"
                              /\ seen.mark # "revoked" /\ manifest[b].mark = "live" =>
                                   seen.gen # manifest[b].gen
        BY <1>1, <2>1 DEF ReplacedForGood, Space
      <3>1. tasks'[i] = tasks[i]
        BY <1>2 DEF TaskSteps
      <3> QED BY <2>1, <3>1 DEF Generations, ReplacedForGood, Space
    <2> QED BY <2>3, <2>4, <2>5, <2>6 DEF Generations
  <1> QED BY <1>4, <1>6, <1>7 DEF Reliable

\* Publication: the namespace is served by a generation that no task has seen.
LEMMA PublishReliable ==
    ASSUME Inv, Reliable, NEW n \in 1..Len(tasks), Publish(n)
    PROVE  Reliable'
  <1>a. PICK a \in Agents : a = Space(n)
    BY SpacesAreAgents
  <1>0. /\ TasksTyped /\ manifest \in [Agents -> Entries] /\ n # 0
        /\ vectors \in [Agents -> SUBSET (0..MaxTasks)] /\ Generations
    BY DEF Inv, Typed, IndexTyped, Reliable
  <1>1. UNCHANGED <<row, request, jobs>> /\ tasks[n].pc = "staged"
    BY DEF Publish, PublishIf, TaskAt
  <1>2. ~Decided(n) /\ tasks[n].seen.mark # "deleted"
    BY <1>1 DEF Decided, Inv, Fences, TasksSawNoFence
  <1>3. CASE manifest[a] = tasks[n].seen
    <2>1. /\ manifest' = [manifest EXCEPT ![a] = Entry("live", n)] /\ vectors' = vectors
          /\ \E pc \in {"published", "failing"} : TaskGoes(n, pc)
      BY <1>a, <1>3 DEF Publish, PublishIf
    <2>2. PICK pc \in {"published", "failing"} : TaskGoes(n, pc)
      BY <2>1
    <2>3. TaskSteps(n) /\ tasks'[n].pc = pc /\ tasks'[n].seen = tasks[n].seen
      BY <1>0, <2>2, TaskIsAt
    <2>4. manifest'[a] = Entry("live", n) /\ \A b \in Agents : b # a => manifest'[b] = manifest[b]
      BY <1>0, <2>1
    <2>5. Turns' /\ Awaited'
      BY <1>1, <2>3, TaskTurns, TaskAwaited
    <2>6. NothingUnfenced
      BY <1>2, <1>3, <2>4 DEF NothingUnfenced, Fenced
    <2>7. Generations'
      BY <1>a, <1>0, <1>1, <1>2, <2>1, <2>3, <2>4, <2>6, TaskGenerations DEF Republishes, Removes
    <2>8. Visible(a)'
      <3>1. n \in vectors[a]
        BY <1>a, <1>0, <1>1, <1>2, <1>3 DEF Generations, StagedStored, Fenced
      <3> QED BY <2>1, <2>4, <3>1 DEF Visible, Entry
    <2>9. NewerThanBegun(a)'
      <3> SUFFICES ASSUME NEW i \in 1..Len(tasks) PROVE tasks'[i].before # Entry("live", n)
        BY <2>3, <2>4 DEF NewerThanBegun, TaskSteps
      <3>1. tasks'[i].before = tasks[i].before /\ Known(tasks[i].before)
        BY <1>0, <2>3 DEF TaskSteps, Generations, SeenKnown
      <3> QED BY <1>0, <1>2, <3>1 DEF Known, Entry
    <2>10. ASSUME NEW b \in Agents, b # a, Relied(b)'
           PROVE  Fenced(b)' \/ (Visible(b) /\ NewerThanBegun(b))'
      <3>1. Relied(b)
        <4>1. CASE Shown(b)'
          BY <1>1, <4>1 DEF Relied, Shown
        <4>2. CASE \E j \in 1..Len(jobs') : Delivered(j, b)'
          <5>1. PICK j \in 1..Len(jobs) : Delivered(j, b)'
            BY <1>1, <4>2
          <5>2. jobs[j].pc \in {"wait", "activate"} /\ Home(j) = b
                /\ tasks'[jobs[j].task].pc \in {"published", "ok"}
            BY <1>1, <5>1 DEF Delivered, Home
          <5>3. jobs[j].task \in 1..Len(tasks) /\ Space(jobs[j].task) = b
            BY <5>2 DEF Reliable, Awaited
          <5>4. tasks'[jobs[j].task] = tasks[jobs[j].task]
            BY <1>a, <2>3, <2>10, <5>3 DEF TaskSteps
          <5> QED BY <5>2, <5>4 DEF Relied, Delivered
        <4> QED BY <2>10, <4>1, <4>2 DEF Relied
      <3>2. Fenced(b) \/ (Visible(b) /\ NewerThanBegun(b))
        BY <3>1 DEF Reliable, Served
      <3>3. manifest'[b] = manifest[b]
        BY <2>4, <2>10
      <3> QED BY <2>1, <2>3, <3>2, <3>3 DEF Fenced, Visible, NewerThanBegun, TaskSteps, Space
    <2> QED BY <2>5, <2>7, <2>8, <2>9, <2>10 DEF Reliable, Served
  <1>4. CASE manifest[a] # tasks[n].seen
    <2>1. TaskGoes(n, "failing") /\ manifest' = manifest
          /\ vectors' = [vectors EXCEPT ![a] = @ \ {n}]
      BY <1>a, <1>4 DEF Publish, PublishIf
    <2>2. TaskSteps(n) /\ tasks'[n].pc = "failing" /\ tasks'[n].seen = tasks[n].seen
      BY <1>0, <2>1, TaskIsAt
    <2>3. \A b \in Agents : vectors'[b] = vectors[b] \/ vectors'[b] = vectors[b] \ {n}
      BY <1>0, <2>1
    <2>4. Turns' /\ Awaited'
      BY <1>1, <2>2, TaskTurns, TaskAwaited
    <2>5. NothingUnfenced
      BY <2>1 DEF NothingUnfenced, Fenced
    <2>6. Generations'
      BY <1>0, <2>1, <2>2, <2>3, <2>5, TaskGenerations DEF Republishes, Removes
    <2>7. ASSUME NEW b \in Agents, Visible(b) PROVE manifest[b].gen \in vectors'[b]
      <3>1. manifest[b].gen # n
        BY <1>0, <1>2, <2>7 DEF Generations, PublishedKnown, Known, Visible
      <3> QED BY <2>3, <2>7, <3>1 DEF Visible
    <2>8. Served'
      BY <1>1, <2>1, <2>2, <2>5, <2>7, TaskServes
    <2> QED BY <2>4, <2>6, <2>8 DEF Reliable
  <1> QED BY <1>3, <1>4

LEMMA CleanReliable ==
    ASSUME Inv, Reliable, NEW n \in 1..Len(tasks), CleanReplaced(n)
    PROVE  Reliable'
  <1>a. PICK a \in Agents : a = Space(n)
    BY SpacesAreAgents
  <1>0. TasksTyped /\ vectors \in [Agents -> SUBSET (0..MaxTasks)] /\ Generations
    BY DEF Inv, Typed, IndexTyped, Reliable
  <1>1. /\ UNCHANGED <<row, request, jobs, manifest>> /\ tasks[n].pc = "published"
        /\ TaskGoes(n, "ok")
        /\ \/ vectors' = vectors
           \/ /\ tasks[n].seen.mark # "revoked"
              /\ vectors' = [vectors EXCEPT ![a] = @ \ {tasks[n].seen.gen}]
    BY <1>a DEF CleanReplaced, TaskAt
  <1>2. TaskSteps(n) /\ tasks'[n].pc = "ok" /\ tasks'[n].seen = tasks[n].seen
    BY <1>0, <1>1, TaskIsAt
  <1>3. /\ tasks[n].seen.mark # "deleted"
        /\ tasks[n].seen.mark # "revoked" /\ manifest[a].mark = "live" =>
             tasks[n].seen.gen # manifest[a].gen
    BY <1>a, <1>0, <1>1 DEF Generations, ReplacedForGood
  <1>4. \A b \in Agents : \/ vectors'[b] = vectors[b]
                          \/ /\ b = a /\ tasks[n].seen.mark # "revoked"
                             /\ vectors'[b] = vectors[b] \ {tasks[n].seen.gen}
    BY <1>0, <1>1
  <1>5. tasks[n].seen.mark # "revoked" => tasks[n].seen.mark \in {"live", "failed"}
    <2>1. tasks[n] \in TaskRecords
      BY SpacesAreAgents
    <2> QED BY <1>3, <2>1 DEF TaskRecords, Entries, Marks
  <1>6. NothingUnfenced
    BY <1>1 DEF NothingUnfenced, Fenced
  <1>7. Generations'
    BY <1>0, <1>1, <1>2, <1>4, <1>5, <1>6, TaskGenerations DEF Republishes, Removes
  <1>8. \A b \in Agents : Visible(b) => manifest[b].gen \in vectors'[b]
    BY <1>3, <1>4 DEF Visible
  <1>9. Served'
    BY <1>1, <1>2, <1>6, <1>8, TaskServes
  <1>10. Turns' /\ Awaited'
    BY <1>1, <1>2, TaskTurns, TaskAwaited
  <1> QED BY <1>7, <1>9, <1>10 DEF Reliable

\* A task that gives up hides only what was there when it began, and nothing
\* that is relied on is that old.
LEMMA GiveUpReliable ==
    ASSUME Inv, Reliable, NEW n \in 1..Len(tasks), GiveUp(n)
    PROVE  Reliable'
  <1>a. PICK a \in Agents : a = Space(n)
    BY SpacesAreAgents
  <1>0. TasksTyped /\ manifest \in [Agents -> Entries] /\ Generations /\ manifest[a] \in Entries
    BY DEF Inv, Typed, IndexTyped, Reliable
  <1>1. /\ UNCHANGED <<row, request, jobs, vectors>> /\ tasks[n].pc = "failing"
        /\ TaskGoes(n, "failed")
        /\ \/ manifest' = manifest
           \/ /\ manifest[a].mark = "live" /\ manifest[a] = tasks[n].before
              /\ manifest' = [manifest EXCEPT ![a].mark = "failed"]
    BY <1>a DEF GiveUp, GiveUpIf, TaskAt
  <1>2. CASE manifest' = manifest
    BY <1>1, <1>2, TaskStops DEF index
  <1>3. CASE /\ manifest[a].mark = "live" /\ manifest[a] = tasks[n].before
             /\ manifest' = [manifest EXCEPT ![a].mark = "failed"]
    <2>1. TaskSteps(n) /\ tasks'[n].pc = "failed" /\ tasks'[n].seen = tasks[n].seen
      BY <1>0, <1>1, TaskIsAt
    <2>2. /\ manifest'[a].mark = "failed" /\ manifest'[a].gen = manifest[a].gen
          /\ \A b \in Agents : b # a => manifest'[b] = manifest[b]
      BY <1>0, <1>3 DEF Entries
    <2>3. NothingUnfenced
      BY <1>3, <2>2 DEF NothingUnfenced, Fenced
    <2>4. Generations'
      BY <1>0, <1>1, <1>3, <2>1, <2>2, <2>3, TaskGenerations DEF Republishes, Removes
    <2>5. ~NewerThanBegun(a)
      BY <1>a, <1>3 DEF NewerThanBegun
    <2>6. \A b \in Agents : Visible(b) /\ NewerThanBegun(b) =>
            manifest'[b] = manifest[b] /\ manifest[b].gen \in vectors'[b]
      BY <1>1, <2>2, <2>5 DEF Visible
    <2>7. Served'
      BY <1>1, <2>1, <2>3, <2>6, TaskServes
    <2>8. Turns' /\ Awaited'
      BY <1>1, <2>1, TaskTurns, TaskAwaited
    <2> QED BY <2>4, <2>7, <2>8 DEF Reliable
  <1> QED BY <1>1, <1>2, <1>3

LEMMA ProcessReliable ==
    ASSUME Inv, Reliable, NEW n \in 1..Len(tasks), Process(n)
    PROVE  Reliable'
  <1>1. CASE StageVectors(n)
    <2>1. CASE Fenced(Space(n))
      <3>1. UNCHANGED <<row, request, jobs, index>> /\ TaskGoes(n, "failing") /\ tasks[n].pc = "running"
        BY <1>1, <2>1 DEF StageVectors, TaskAt, Fenced, index
      <3> QED BY <3>1, TaskStops
    <2>2. CASE ~Fenced(Space(n))
      BY <1>1, <2>2, StageReliable
    <2> QED BY <2>1, <2>2
  <1>2. CASE DocumentFails(n)
    <2>1. UNCHANGED <<row, request, jobs, index>> /\ TaskGoes(n, "failing") /\ tasks[n].pc = "running"
      BY <1>2 DEF DocumentFails, TaskAt
    <2> QED BY <2>1, TaskStops
  <1>3. CASE Publish(n)
    BY <1>3, PublishReliable
  <1>4. CASE CleanReplaced(n)
    BY <1>4, CleanReliable
  <1>5. CASE GiveUp(n)
    BY <1>5, GiveUpReliable
  <1>6. CASE TaskDies(n)
    <2>1. UNCHANGED <<row, request, jobs, index>> /\ TaskGoes(n, "lost") /\ tasks[n].pc # "ok"
      BY <1>6 DEF TaskDies
    <2> QED BY <2>1, TaskStops
  <1> QED BY <1>1, <1>2, <1>3, <1>4, <1>5, <1>6 DEF Process

-----------------------------------------------------------------------------
(* Deletions.                                                              *)

\* A deletion claims the source, removes it or its agent, or does neither.
LEMMA ClaimingKeeps ==
    ASSUME Reliable, UNCHANGED <<request, jobs, tasks, index>>,
           \/ row' = row
           \/ row'.status \in {"ERROR", "GONE"} /\ Abandoned'
           \/ /\ row'.status = row.status /\ row'.meta = row.meta
              /\ row'.retryable = row.retryable /\ row'.agent = None
    PROVE  Reliable'
  <1>1. NoneBegins
    BY DEF NoneBegins
  <1>2. WorksForRow'
    BY DEF Reliable, Turns, WorksForRow, AtWork, Mine, Abandoned
  <1>3. ClaimedByRequest'
    BY DEF Reliable, Turns, ClaimedByRequest
  <1>4. \A a \in Agents : Shown(a)' => Shown(a)
    BY DEF Shown
  <1> QED BY <1>1, <1>2, <1>3, <1>4, NoneBeginsKeeps

LEMMA CleanAssetsReliable ==
    ASSUME Inv, Reliable, NEW d \in Deleters, CleanAssets(d)
    PROVE  Reliable'
  <1> DEFINE source == deletion[d].agent
  <1>0. IndexTyped /\ Generations
    BY DEF Inv, Typed, Reliable
  <1>1. UNCHANGED <<row, request, jobs, tasks>>
    BY DEF CleanAssets
  <1>2. CASE source = None
    <2>1. UNCHANGED index
      BY <1>2 DEF CleanAssets
    <2> QED BY <1>1, <2>1, ClaimingKeeps
  <1>3. CASE source # None
    <2>1. manifest' = [manifest EXCEPT ![source] = Entry("deleted", 0)]
          /\ (vectors' = vectors \/ vectors' = [vectors EXCEPT ![source] = {}])
      BY <1>3 DEF CleanAssets
    <2> HIDE DEF source
    <2>2. \A a \in Agents : \/ manifest'[a] = Entry("deleted", 0)
                            \/ manifest'[a] = manifest[a] /\ vectors'[a] = vectors[a]
      BY <1>0, <2>1 DEF IndexTyped
    <2>3. NothingUnfenced /\ \A a \in Agents : Hides(a) /\ Keeps(a)
      BY <2>2 DEF NothingUnfenced, Fenced, Entry, Hides, Keeps
    <2>4. Generations'
      BY <1>0, <1>1, <2>3, HidingKeeps
    <2>5. Turns'
      BY <1>1, TaskTurns
    <2>6. Awaited'
      BY <1>1 DEF Reliable, Awaited, Home, Space
    <2>7. Served'
      <3> SUFFICES ASSUME NEW a \in Agents, Relied(a)'
                   PROVE  Fenced(a)' \/ (Visible(a) /\ NewerThanBegun(a))'
        BY DEF Served
      <3>1. Relied(a)
        BY <1>1 DEF Relied, Shown, Delivered, Home
      <3>2. Fenced(a) \/ (Visible(a) /\ NewerThanBegun(a))
        BY <3>1 DEF Reliable, Served
      <3>3. CASE manifest'[a] = Entry("deleted", 0)
        BY <3>3 DEF Fenced, Entry
      <3>4. CASE manifest'[a] = manifest[a] /\ vectors'[a] = vectors[a]
        BY <1>1, <3>2, <3>4 DEF Fenced, Visible, NewerThanBegun, Space
      <3> QED BY <2>2, <3>3, <3>4
    <2> QED BY <2>4, <2>5, <2>6, <2>7 DEF Reliable
  <1> QED BY <1>2, <1>3

LEMMA DeleteReliable ==
    ASSUME Inv, Reliable, NEW d \in Deleters, Delete(d) \/ DeletionDies(d)
    PROVE  Reliable'
  <1>0. row \in Rows
    BY DEF Inv, Typed, RowTyped
  <1>1. CASE ReadForDeletion(d)
    BY <1>1, ClaimingKeeps DEF ReadForDeletion, ReadUnless
  <1>2. CASE ClaimDeletion(d)
    <2>1. UNCHANGED <<request, jobs, tasks, index>>
          /\ \/ row' = row
             \/ row' = [row EXCEPT !.status = "ERROR", !.meta = d, !.retryable = FALSE]
      BY <1>2 DEF ClaimDeletion
    <2>2. row' = row \/ (row'.status \in {"ERROR", "GONE"} /\ Abandoned')
      BY <1>0, <2>1 DEF Rows, Abandoned
    <2> QED BY <2>1, <2>2, ClaimingKeeps
  <1>3. CASE CleanAssets(d)
    BY <1>3, CleanAssetsReliable
  <1>4. CASE RemoveSource(d)
    <2>1. UNCHANGED <<request, jobs, tasks, index>>
          /\ \/ row' = row
             \/ row' = [row EXCEPT !.status = "GONE", !.agent = deletion[d].agent]
      BY <1>4 DEF RemoveSource
    <2>2. row' = row \/ (row'.status \in {"ERROR", "GONE"} /\ Abandoned')
      BY <1>0, <2>1 DEF Rows, Abandoned
    <2> QED BY <2>1, <2>2, ClaimingKeeps
  <1>5. CASE DeletionDies(d)
    BY <1>5, ClaimingKeeps DEF DeletionDies
  <1> QED BY <1>1, <1>2, <1>3, <1>4, <1>5 DEF Delete

LEMMA AgentReliable ==
    ASSUME Inv, Reliable, NEW a \in Agents, RequestAgentDeletion(a) \/ ListSources(a) \/ DropAgent(a)
    PROVE  Reliable'
  <1>0. row \in Rows
    BY DEF Inv, Typed, RowTyped
  <1>1. CASE RequestAgentDeletion(a) \/ ListSources(a)
    BY <1>1, ClaimingKeeps DEF RequestAgentDeletion, ListSources
  <1>2. CASE DropAgent(a)
    <2>1. UNCHANGED <<request, jobs, tasks, index>>
          /\ (row' = row \/ row' = [row EXCEPT !.agent = None])
      BY <1>2 DEF DropAgent
    <2>2. \/ row' = row
          \/ /\ row'.status = row.status /\ row'.meta = row.meta
             /\ row'.retryable = row.retryable /\ row'.agent = None
      BY <1>0, <2>1 DEF Rows
    <2> QED BY <2>1, <2>2, ClaimingKeeps
  <1> QED BY <1>1, <1>2

LEMMA StepReliable == Inv /\ Reliable /\ [Next]_vars => Reliable'
  <1> SUFFICES ASSUME Inv, Reliable, [Next]_vars PROVE Reliable'
    OBVIOUS
  <1>1. DOMAIN jobs = 1..Len(jobs) /\ DOMAIN tasks = 1..Len(tasks)
    BY DEF Inv, Typed, JobsTyped, TasksTyped
  <1>2. CASE Request
    BY <1>2, RequestReliable
  <1>3. CASE \E j \in DOMAIN jobs : Work(j)
    BY <1>1, <1>3, WorkReliable
  <1>4. CASE \E n \in DOMAIN tasks : Process(n)
    BY <1>1, <1>4, ProcessReliable
  <1>5. CASE \E d \in Deleters : Delete(d) \/ DeletionDies(d)
    BY <1>5, DeleteReliable
  <1>6. CASE \E a \in Agents : RequestAgentDeletion(a) \/ ListSources(a) \/ DropAgent(a)
    BY <1>6, AgentReliable
  <1>7. CASE UNCHANGED vars
    BY <1>7, ClaimingKeeps DEF vars, index
  <1> QED BY <1>2, <1>3, <1>4, <1>5, <1>6, <1>7 DEF Next

-----------------------------------------------------------------------------
(* The theorems.                                                           *)

\* However many jobs, tasks and deletions work on a source: every variable
\* keeps its shape, no job is attempted more often than its queue allows, and
\* a deletion's fence outlives every task that was under way.
THEOREM KnowledgeInvariance == Spec => []Inv
  <1>1. Init => Inv
    BY InitInv
  <1>2. Inv /\ [Next]_vars => Inv'
    BY StepPreserves
  <1> QED BY <1>1, <1>2, PTL DEF Spec

\* Every variable keeps its shape; in particular a job is not attempted more
\* often than its queue allows, whichever of its steps fail.
THEOREM KnowledgeTypes == Spec => []TypeOK
  <1>1. Inv => TypeOK
    <2> SUFFICES ASSUME Inv PROVE TypeOK
      OBVIOUS
    <2>1. Typed /\ DOMAIN jobs = 1..Len(jobs) /\ DOMAIN tasks = 1..Len(tasks)
      BY DEF Inv, Typed, JobsTyped, TasksTyped
    <2>2. \A j \in DOMAIN jobs : jobs[j] \in JobRecords
      BY <2>1 DEF Typed, JobsTyped
    <2>3. \A n \in DOMAIN tasks : tasks[n] \in TaskRecords
      BY <2>1 DEF Typed, TasksTyped
    <2> QED BY <2>1, <2>2, <2>3 DEF TypeOK, Typed, RowTyped, Rows, IndexTyped, JobRecords,
                                    TaskRecords, DeletionTyped, Deletions
  <1> QED BY <1>1, KnowledgeInvariance, PTL

\* Once a source is removed, its vectors are never found again in the
\* namespace it was removed from: no task that was under way lifts the fence.
THEOREM RemovedStaysFenced == Spec => []GoneIsFenced
  <1>1. Inv => GoneIsFenced
    BY DEF Inv, Fences, RemovedIsFenced, Fenced, GoneIsFenced, Visible
  <1> QED BY <1>1, KnowledgeInvariance, PTL

\* A source that the console shows as ACTIVE is found by its agent, however
\* late the jobs and the tasks that were given up publish, fail or clean up;
\* unless a deletion that an edit overtook has fenced it (kb.worker.ts,
\* kb_index_state.py).
THEOREM ServedWhileActive == Spec => []ActiveIsServed
  <1>1. Init => Inv /\ Reliable
    BY InitInv, InitReliable
  <1>2. Inv /\ Reliable /\ [Next]_vars => (Inv /\ Reliable)'
    BY StepPreserves, StepReliable
  <1>3. Inv /\ Reliable => ActiveIsServed
    <2> SUFFICES ASSUME Inv, Reliable, row.status = "ACTIVE", row.agent # None
                 PROVE  Visible(row.agent) \/ manifest[row.agent].mark = "deleted"
      BY DEF ActiveIsServed
    <2>1. row.agent \in Agents
      BY DEF Inv, Typed, RowTyped, Rows
    <2>2. Relied(row.agent)
      BY DEF Relied, Shown
    <2> QED BY <2>1, <2>2 DEF Reliable, Served, Fenced
  <1> QED BY <1>1, <1>2, <1>3, PTL DEF Spec

=============================================================================
