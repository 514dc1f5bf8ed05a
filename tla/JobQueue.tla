------------------------------ MODULE JobQueue -------------------------------
(***************************************************************************)
(* The queue that runs one proof at a time (`JobQueue'), the proving jobs  *)
(* (`ProverJob') and their callers (`prove_consensus_program').            *)
(*                                                                         *)
(* Two tasks share the deque of jobs behind a mutex: the adder takes       *)
(* messages from a channel, pushes jobs and sends one token per job; the   *)
(* processor takes a token, sorts, pops and runs the job in a task of its  *)
(* own.  A job runs its program in the VM on a blocking thread and then    *)
(* proves it in another process.                                           *)
(***************************************************************************)
EXTENDS Integers, Sequences, FiniteSets

CONSTANTS
    Jobs,       \* the jobs that callers may ever add
    Priority,   \* TritonVmJobPriority of each
    NoJob,
    Stop,       \* JobQueueMsg::Stop
    Impatient,  \* the jobs whose callers may cancel or leave
    Droppable   \* whether the queue may be dropped (the one of the node is static)

ASSUME JobQueueAssumption ==
    /\ NoJob \notin Jobs /\ Stop \notin Jobs
    /\ Impatient \subseteq Jobs
    /\ Priority \in [Jobs -> Nat]
    /\ Droppable \in BOOLEAN

VARIABLES
    caller,         \* what each caller is doing, and in the end what it got
    cancel,         \* jobs with a message in their cancel channel
    tx,             \* the channel of add_job
    adder, in_hand, \* add_job task, and the message it has in hand
    jobs,           \* the deque
    tokens,         \* length of the deque's channel
    processor,      \* process_jobs task
    running,        \* msg: the job the processor has popped
    current_job,
    job,            \* the task of each job: where it is, or how it completed
    vm, prover,     \* jobs with a VM thread, with a proving process
    poisoned,       \* the mutex
    dropped         \* the JobQueue

vars == <<caller, cancel, tx, adder, in_hand, jobs, tokens, processor, running, current_job,
          job, vm, prover, poisoned, dropped>>

adderVars == <<tx, adder, in_hand>>
procVars  == <<processor, running, current_job>>
dequeVars == <<jobs, tokens>>
jobVars   == <<job, vm, prover>>
endVars   == <<poisoned, dropped>>

(* How a job can end, and what a caller can end up with.                   *)
Completions == {"finished", "failed", "cancelled", "panicked"}
Answers     == Completions \cup {"refused", "disconnected", "withdrawn", "gone"}

ElementsIn(s) == {s[i] : i \in 1..Len(s)}

Init ==
    /\ caller = [j \in Jobs |-> "idle"] /\ cancel = {}
    /\ tx = <<>> /\ adder = "recv" /\ in_hand = NoJob
    /\ jobs = <<>> /\ tokens = 0
    /\ processor = "recv" /\ running = NoJob /\ current_job = NoJob
    /\ job = [j \in Jobs |-> "none"] /\ vm = {} /\ prover = {}
    /\ poisoned = FALSE /\ dropped = FALSE

(* The task of job j has not ended, and listens for a cancellation.        *)
Alive(j) == job[j] \in {"start", "checking", "writing", "proving"}

(* The receiver of j's cancel channel exists: in its message, or its task. *)
Listening(j) == j \in ElementsIn(tx) \cup {in_hand} \cup ElementsIn(jobs) \/ Alive(j)
------------------------------------------------------------------------------
(* `add_job': the channel is closed once the adder is gone.                *)
AddJob(j) ==
    /\ caller[j] = "idle" /\ ~dropped
    /\ IF adder = "gone"
       THEN caller' = [caller EXCEPT ![j] = "refused"] /\ UNCHANGED tx
       ELSE caller' = [caller EXCEPT ![j] = "waiting"] /\ tx' = Append(tx, j)
    /\ UNCHANGED <<cancel, adder, in_hand, dequeVars, procVars, jobVars, endVars>>

(* Mutant: a waiting job is taken out of the deque, but not its token.     *)
CancelRemovesJob(j) ==
    /\ caller[j] = "waiting" /\ j \in Impatient
    /\ cancel' = IF Listening(j) THEN cancel \cup {j} ELSE cancel
    /\ caller' = [caller EXCEPT ![j] = "withdrawn"]
    /\ jobs' = SelectSeq(jobs, LAMBDA k : k # j)
    /\ UNCHANGED <<adderVars, tokens, procVars, jobVars, endVars>>

(* The caller's own cancel channel fires or is closed: the request is      *)
(* passed on, if anyone is listening, and the caller leaves.               *)
CancelJob(j) ==
    /\ caller[j] = "waiting" /\ j \in Impatient
    /\ cancel' = IF Listening(j) THEN cancel \cup {j} ELSE cancel
    /\ caller' = [caller EXCEPT ![j] = "withdrawn"]
    /\ UNCHANGED <<adderVars, dequeVars, procVars, jobVars, endVars>>

(* The caller's task is dropped, and the job handle with it.               *)
CallerGone(j) ==
    /\ caller[j] = "waiting" /\ j \in Impatient
    /\ caller' = [caller EXCEPT ![j] = "gone"]
    /\ UNCHANGED <<cancel, adderVars, dequeVars, procVars, jobVars, endVars>>

(* Messages are dropped, with the result senders in them.                  *)
Disconnect(S) ==
    caller' = [j \in Jobs |-> IF j \in S /\ caller[j] = "waiting" THEN "disconnected" ELSE caller[j]]

(* The deque and the current job are dropped with the later of the tasks.  *)
DropShared(last, S) ==
    IF last THEN jobs' = <<>> /\ current_job' = NoJob /\ Disconnect(S \cup ElementsIn(jobs))
            ELSE UNCHANGED <<jobs, current_job>> /\ Disconnect(S)
------------------------------------------------------------------------------
(* The add_job task takes a message.                                       *)
AdderReceives ==
    /\ adder = "recv" /\ tx # <<>>
    /\ tx' = Tail(tx) /\ in_hand' = Head(tx)
    /\ adder' = IF Head(tx) = Stop THEN "stop" ELSE "push"
    /\ UNCHANGED <<caller, cancel, dequeVars, procVars, jobVars, endVars>>

(* It pushes the job under the lock (a panic when that is poisoned) ...    *)
AdderPushes ==
    /\ adder = "push" /\ in_hand' = NoJob
    /\ IF poisoned
       THEN /\ adder' = "gone" /\ tx' = <<>>
            /\ DropShared(processor = "gone", ElementsIn(tx) \cup {in_hand})
       ELSE /\ jobs' = Append(jobs, in_hand)
            /\ adder' = "token" /\ UNCHANGED <<tx, caller, current_job>>
    /\ UNCHANGED <<cancel, tokens, processor, running, jobVars, endVars>>

(* Mutant: a processor that is busy is not woken.                          *)
AdderWakesIdle ==
    /\ adder = "token" /\ adder' = "recv"
    /\ tokens' = IF processor = "recv" THEN tokens + 1 ELSE tokens
    /\ UNCHANGED <<caller, cancel, tx, in_hand, jobs, procVars, jobVars, endVars>>

(* ... and sends the token after it.                                       *)
AdderSendsToken ==
    /\ adder = "token" /\ adder' = "recv"
    /\ tokens' = IF processor = "gone" THEN tokens ELSE tokens + 1
    /\ UNCHANGED <<caller, cancel, tx, in_hand, jobs, procVars, jobVars, endVars>>

(* Stop: the token channel is closed, the lock taken, and the current job  *)
(* found to be listening or not.                                           *)
AdderStops ==
    /\ adder = "stop" /\ in_hand' = NoJob
    /\ IF current_job # NoJob /\ Listening(current_job)
       THEN adder' = "notify" /\ UNCHANGED <<jobs, current_job, caller>>
       ELSE adder' = "gone" /\ DropShared(processor = "gone", {})
    /\ UNCHANGED <<cancel, tx, tokens, processor, running, jobVars, endVars>>

(* The current job is told to stop.  It may have ended since; then the     *)
(* unwrap panics with the lock held.                                       *)
AdderNotifies ==
    /\ adder = "notify" /\ adder' = "gone"
    /\ IF Listening(current_job)
       THEN cancel' = cancel \cup {current_job} /\ UNCHANGED poisoned
       ELSE poisoned' = TRUE /\ UNCHANGED cancel
    /\ DropShared(processor = "gone", {})
    /\ UNCHANGED <<tx, in_hand, tokens, processor, running, jobVars, dropped>>
------------------------------------------------------------------------------

(* Stable sort by falling priority: the place of the k-th element.         *)
Place(s, k) ==
    1 + Cardinality({i \in 1..Len(s) : \/ Priority[s[i]] > Priority[s[k]]
                                       \/ Priority[s[i]] = Priority[s[k]] /\ i < k})

SortByPriority(s) ==
    [p \in 1..Len(s) |-> s[CHOOSE k \in 1..Len(s) : Place(s, k) = p]]

LockFree == adder # "notify"

(* The process_jobs task takes a token and then, under the lock, sorts and *)
(* pops.  An empty deque or a poisoned lock is a panic.                    *)
ProcessorPops ==
    /\ processor = "recv" /\ tokens > 0 /\ LockFree
    /\ tokens' = tokens - 1
    /\ IF poisoned \/ jobs = <<>>
       THEN /\ processor' = "gone" /\ poisoned' = TRUE
            /\ DropShared(adder = "gone", {})
            /\ UNCHANGED <<running, job>>
       ELSE LET sorted == SortByPriority(jobs)
            IN  /\ jobs' = Tail(sorted)
                /\ running' = Head(sorted) /\ current_job' = Head(sorted)
                /\ job' = [job EXCEPT ![Head(sorted)] = "start"]
                /\ processor' = "run"
                /\ UNCHANGED <<caller, poisoned>>
    /\ UNCHANGED <<cancel, adderVars, vm, prover, dropped>>

(* The token channel is closed and empty.                                  *)
ProcessorEnds ==
    /\ processor = "recv" /\ tokens = 0 /\ adder \in {"notify", "gone"}
    /\ processor' = "gone" /\ DropShared(adder = "gone", {})
    /\ UNCHANGED <<cancel, adderVars, tokens, running, jobVars, endVars>>

(* The job's task has ended; current_job is cleared under the lock.        *)
ProcessorJoins ==
    /\ processor = "run" /\ job[running] \in Completions /\ LockFree
    /\ IF poisoned
       THEN /\ processor' = "gone" /\ DropShared(adder = "gone", {running})
            /\ running' = NoJob
       ELSE /\ processor' = "report" /\ current_job' = NoJob
            /\ UNCHANGED <<running, jobs, caller>>
    /\ UNCHANGED <<cancel, adderVars, tokens, jobVars, endVars>>

(* The completion goes to the caller, if it is still there.                *)
ProcessorReports ==
    /\ processor = "report" /\ processor' = "recv" /\ running' = NoJob
    /\ caller' = [caller EXCEPT ![running] = IF @ = "waiting" THEN job[running] ELSE @]
    /\ UNCHANGED <<cancel, adderVars, dequeVars, current_job, jobVars, endVars>>
------------------------------------------------------------------------------
(* Mutant: only the caller has a sender.                                   *)
ToldByCaller(j) == j \in cancel \/ caller[j] # "waiting"

(* A job hears of a cancellation, or that no sender of its cancel channel  *)
(* is left: neither the caller's, the message's nor that of current_job.   *)
Told(j) ==
    \/ j \in cancel
    \/ caller[j] # "waiting" /\ running # j /\ current_job # j

JobStep(j, next) ==
    /\ job' = [job EXCEPT ![j] = next]
    /\ UNCHANGED <<caller, cancel, adderVars, dequeVars, procVars, endVars>>

(* `run_async_cancellable' polls check_if_allowed, which runs the program  *)
(* on a blocking thread, unless its assertions fail.                       *)
StartVm(j) ==
    /\ job[j] = "start" /\ UNCHANGED prover
    /\ \/ JobStep(j, "checking") /\ vm' = vm \cup {j}
       \/ JobStep(j, "panicked") /\ UNCHANGED vm

(* The other branch of the select is polled first, or the message comes    *)
(* while the thread runs; the thread is not stopped.                       *)
CancelBeforeProving(j) ==
    /\ job[j] \in {"start", "checking"} /\ Told(j)
    /\ JobStep(j, "cancelled")
    /\ UNCHANGED <<vm, prover>>

(* The program has run.  It failed or is too complex to prove, or an       *)
(* assertion about its output panics, or `prove_out_of_process' starts the *)
(* proving process, if it can ...                                          *)
VmEnds(j) ==
    /\ j \in vm /\ vm' = vm \ {j}
    /\ \/ job[j] # "checking" /\ JobStep(j, job[j]) /\ UNCHANGED prover
       \/ /\ job[j] = "checking" /\ UNCHANGED prover
          /\ \E next \in {"failed", "panicked"} : JobStep(j, next)
       \/ job[j] = "checking" /\ JobStep(j, "writing") /\ prover' = prover \cup {j}

(* ... and writes its inputs.  When that fails the process is left to be   *)
(* killed in the background.                                               *)
WriteInputs(j) ==
    /\ job[j] = "writing" /\ UNCHANGED <<vm, prover>>
    /\ \E next \in {"proving", "failed"} : JobStep(j, next)

(* The process ends, or was killed at last.                                *)
ProverExits(j) ==
    /\ j \in prover /\ prover' = prover \ {j} /\ UNCHANGED vm
    /\ JobStep(j, job[j])

(* Its output is a proof, or an error; waiting for it may fail as well.    *)
TakeOutput(j) ==
    /\ job[j] = "proving" /\ UNCHANGED <<vm, prover>>
    /\ \/ j \notin prover /\ JobStep(j, "finished")
       \/ JobStep(j, "failed")

(* The process is killed, and waited for, before the job ends; the job     *)
(* panics if it cannot be killed.                                          *)
KillProver(j) ==
    /\ job[j] = "proving" /\ Told(j) /\ UNCHANGED vm
    /\ \/ JobStep(j, "cancelled") /\ prover' = prover \ {j}
       \/ JobStep(j, "panicked") /\ UNCHANGED prover
------------------------------------------------------------------------------
(* `Drop': Stop is sent and both tasks are aborted ...                     *)
DropQueue ==
    /\ Droppable /\ ~dropped /\ dropped' = TRUE
    /\ tx' = IF adder = "gone" THEN tx ELSE Append(tx, Stop)
    /\ UNCHANGED <<caller, cancel, adder, in_hand, dequeVars, procVars, jobVars, poisoned>>

(* ... which takes effect when they wait; a task that is being polled may  *)
(* still handle messages.                                                  *)
AbortAdder ==
    /\ dropped /\ adder = "recv" /\ adder' = "gone"
    /\ tx' = <<>> /\ DropShared(processor = "gone", ElementsIn(tx))
    /\ UNCHANGED <<cancel, in_hand, tokens, processor, running, jobVars, endVars>>

AbortProcessor ==
    /\ dropped /\ processor \in {"recv", "run"} /\ processor' = "gone"
    /\ running' = NoJob /\ DropShared(adder = "gone", {running})
    /\ UNCHANGED <<cancel, adderVars, tokens, jobVars, endVars>>

Adder     == AdderReceives \/ AdderPushes \/ AdderSendsToken \/ AdderStops \/ AdderNotifies \/ AbortAdder
Processor == ProcessorPops \/ ProcessorEnds \/ ProcessorJoins \/ ProcessorReports \/ AbortProcessor
JobTask(j) ==
    \/ StartVm(j) \/ CancelBeforeProving(j) \/ WriteInputs(j)
    \/ TakeOutput(j) \/ KillProver(j)
Caller(j) == AddJob(j) \/ CancelJob(j) \/ CallerGone(j)

Next ==
    \/ Adder \/ Processor \/ DropQueue
    \/ \E j \in Jobs : Caller(j) \/ JobTask(j) \/ VmEnds(j) \/ ProverExits(j)

(* The runtime polls every ready task; programs halt, and so do provers.   *)
Fairness ==
    /\ WF_vars(Adder) /\ WF_vars(Processor)
    /\ \A j \in Jobs : WF_vars(JobTask(j)) /\ WF_vars(VmEnds(j)) /\ WF_vars(ProverExits(j))

Spec == Init /\ [][Next]_vars /\ Fairness
------------------------------------------------------------------------------
(* Every variable stays in its domain; no job is in two places, since its  *)
(* message exists once.                                                    *)
TypeOK ==
    /\ caller \in [Jobs -> {"idle", "waiting"} \cup Answers] /\ cancel \subseteq Jobs
    /\ tx \in Seq(Jobs \cup {Stop}) /\ in_hand \in Jobs \cup {NoJob, Stop}
    /\ adder \in {"recv", "push", "token", "stop", "notify", "gone"}
    /\ adder = "push" => in_hand \in Jobs
    /\ jobs \in Seq(Jobs) /\ tokens \in Nat
    /\ processor \in {"recv", "run", "report", "gone"}
    /\ running \in Jobs \cup {NoJob} /\ current_job \in Jobs \cup {NoJob}
    /\ processor \in {"run", "report"} <=> running # NoJob
    /\ job \in [Jobs -> {"none", "start", "checking", "writing", "proving"} \cup Completions]
    /\ vm \subseteq Jobs /\ prover \subseteq Jobs
    /\ poisoned \in BOOLEAN /\ dropped \in BOOLEAN

(* Each token in the channel stands for a job in the deque, so that        *)
(* `pop_front().unwrap()' finds one.                                       *)
TokensMatchJobs ==
    processor # "gone" => Len(jobs) = tokens + (IF adder = "token" THEN 1 ELSE 0)

(* The task of at most one job runs at a time, and `current_job' names it  *)
(* for as long as it runs, until the queue is dropped.                     *)
OneJobRuns ==
    ~dropped => \A j \in Jobs : Alive(j) => running = j /\ current_job = j

(* A job is cancelled only when its own caller asked for it, or the queue  *)
(* is dropped; that its caller is gone does not cancel it.                 *)
CancelledOnRequest ==
    \A j \in Jobs : job[j] = "cancelled" => caller[j] = "withdrawn" \/ dropped

(* Every caller that waits gets an answer in the end: the completion of    *)
(* its job, or the news that the queue is gone.                            *)
EveryCallerIsAnswered ==
    \A j \in Jobs : caller[j] = "waiting" ~> caller[j] # "waiting"

==============================================================================
