--------------------------- MODULE JobQueueProofs ----------------------------
(***************************************************************************)
(* The safety properties of `JobQueue', for every set of jobs and every    *)
(* order of priorities.                                                    *)
(***************************************************************************)
EXTENDS JobQueue, FiniteSetTheorems, TLAPS

(* The elements that the sort puts before the k-th.                        *)
Before(s, k) ==
    {i \in 1..Len(s) : \/ Priority[s[i]] > Priority[s[k]]
                       \/ Priority[s[i]] = Priority[s[k]] /\ i < k}

(* The sort gives every element a place of its own within the sequence.    *)
LEMMA PlaceInjective ==
    ASSUME NEW s \in Seq(Jobs)
    PROVE  /\ \A k \in 1..Len(s) : Place(s, k) \in 1..Len(s)
           /\ \A i, k \in 1..Len(s) : Place(s, i) = Place(s, k) => i = k
  <1>0. /\ IsFiniteSet(1..Len(s)) /\ Cardinality(1..Len(s)) = Len(s) /\ Len(s) \in Nat
        /\ \A k \in 1..Len(s) : Priority[s[k]] \in Nat
    <2>1. Len(s) \in Nat /\ \A k \in 1..Len(s) : s[k] \in Jobs
      OBVIOUS
    <2>2. /\ IsFiniteSet(1..Len(s))
          /\ Cardinality(1..Len(s)) = IF 1 > Len(s) THEN 0 ELSE Len(s) - 1 + 1
      <3>1. 1 \in Int /\ Len(s) \in Int
        BY <2>1
      <3> QED BY <3>1, FS_Interval, Zenon
    <2> QED BY <2>1, <2>2, JobQueueAssumption
  <1>1. ASSUME NEW k \in 1..Len(s)
        PROVE  /\ Place(s, k) = 1 + Cardinality(Before(s, k))
               /\ IsFiniteSet(Before(s, k)) /\ Cardinality(Before(s, k)) \in Nat
               /\ k \notin Before(s, k)
               /\ Cardinality(Before(s, k) \cup {k}) = 1 + Cardinality(Before(s, k))
    <2>1. IsFiniteSet(Before(s, k))
      BY <1>0, FS_Subset DEF Before
    <2>2. k \notin Before(s, k)
      BY <1>0 DEF Before
    <2>3. Cardinality(Before(s, k)) \in Nat
      BY <2>1, FS_CardinalityType
    <2>4. Place(s, k) = 1 + Cardinality(Before(s, k))
      BY DEF Place, Before
    <2>5. Cardinality(Before(s, k) \cup {k}) = 1 + Cardinality(Before(s, k))
      <3>1. Cardinality(Before(s, k) \cup {k}) =
              IF k \in Before(s, k) THEN Cardinality(Before(s, k)) ELSE Cardinality(Before(s, k)) + 1
        BY <2>1, FS_AddElement, Zenon
      <3> QED BY <2>2, <2>3, <3>1
    <2> QED BY <2>1, <2>2, <2>3, <2>4, <2>5
  <1>2. ASSUME NEW k \in 1..Len(s)
        PROVE  Place(s, k) \in 1..Len(s)
    <2>1. Before(s, k) \cup {k} \subseteq 1..Len(s)
      BY DEF Before
    <2>2. Cardinality(Before(s, k) \cup {k}) <= Len(s)
      BY <1>0, <2>1, FS_Subset
    <2>3. Place(s, k) <= Len(s) /\ Place(s, k) \in Nat \ {0}
      BY <1>0, <1>1, <2>2
    <2> QED BY <1>0, <2>3
  <1>3. ASSUME NEW i \in 1..Len(s), NEW k \in 1..Len(s), i \in Before(s, k)
        PROVE  Place(s, i) < Place(s, k)
    <2>1. Before(s, i) \cup {i} \subseteq Before(s, k)
      BY <1>0, <1>3 DEF Before
    <2>2. Cardinality(Before(s, i) \cup {i}) <= Cardinality(Before(s, k))
      BY <1>1, <2>1, FS_Subset
    <2>3. 1 + Cardinality(Before(s, i)) <= Cardinality(Before(s, k))
      BY <1>1, <2>2
    <2>4. Cardinality(Before(s, i)) \in Nat /\ Cardinality(Before(s, k)) \in Nat
      BY <1>1
    <2>5. Place(s, i) = 1 + Cardinality(Before(s, i)) /\ Place(s, k) = 1 + Cardinality(Before(s, k))
      BY <1>1
    <2> QED BY <2>3, <2>4, <2>5
  <1>4. ASSUME NEW i \in 1..Len(s), NEW k \in 1..Len(s), i # k
        PROVE  i \in Before(s, k) \/ k \in Before(s, i)
    BY <1>0, <1>4 DEF Before
  <1> QED BY <1>0, <1>2, <1>3, <1>4

(* So every place is taken, and sorting gives a sequence of jobs.          *)
LEMMA SortType ==
    ASSUME NEW s \in Seq(Jobs)
    PROVE  SortByPriority(s) \in Seq(Jobs) /\ Len(SortByPriority(s)) = Len(s)
  <1> DEFINE n == Len(s)
             place == [k \in 1..n |-> Place(s, k)]
  <1>1. place \in Injection(1..n, 1..n)
    BY PlaceInjective DEF Injection, IsInjective
  <1>2. IsFiniteSet(1..n)
    BY FS_Interval
  <1>3. place \in Surjection(1..n, 1..n)
    BY <1>1, <1>2, FS_Injection
  <1>4. \A p \in 1..n : \E k \in 1..n : Place(s, k) = p
    BY <1>3 DEF Surjection
  <1>5. \A p \in 1..n : (CHOOSE k \in 1..n : Place(s, k) = p) \in 1..n
    BY <1>4
  <1>6. \A k \in 1..n : s[k] \in Jobs
    OBVIOUS
  <1>7. SortByPriority(s) \in [1..n -> Jobs]
    BY <1>5, <1>6, Zenon DEF SortByPriority
  <1> QED BY <1>7

------------------------------------------------------------------------------
(* Stop is on its way only when the queue was dropped, the adder has a job *)
(* in mind when it notifies it, a job reported on has ended, and a message *)
(* in a cancel channel is its caller's until the queue is dropped.         *)
StopInv   == Stop \in ElementsIn(tx) \/ adder \in {"stop", "notify"} => dropped
ReportInv == processor = "report" => job[running] \in Completions
NotifyInv == adder = "notify" => current_job \in Jobs
CancelInv == ~dropped => \A j \in cancel : caller[j] = "withdrawn"

IInv ==
    /\ TypeOK /\ TokensMatchJobs /\ OneJobRuns /\ CancelledOnRequest /\ StopInv /\ ReportInv /\ NotifyInv
    /\ CancelInv

LEMMA InitIInv == Init => IInv
  <1> SUFFICES ASSUME Init PROVE IInv
    OBVIOUS
  <1>1. ElementsIn(tx) = {}
    BY DEF Init, ElementsIn
  <1>2. TypeOK
    <2>1. poisoned \in BOOLEAN /\ dropped \in BOOLEAN
      BY DEF Init
    <2>2. tx \in Seq(Jobs \cup {Stop}) /\ jobs \in Seq(Jobs)
      BY DEF Init
    <2> QED BY <2>1, <2>2, JobQueueAssumption DEF Init, TypeOK, Completions
  <1> QED BY <1>1, <1>2 DEF Init, IInv, TokensMatchJobs, OneJobRuns, CancelledOnRequest,
          StopInv, ReportInv, NotifyInv, CancelInv, Alive

(* Dropping messages tells those who still wait, and nobody else.          *)
LEMMA DisconnectEffect ==
    ASSUME TypeOK, NEW S, Disconnect(S)
    PROVE  /\ caller' \in [Jobs -> {"idle", "waiting"} \cup Answers]
           /\ \A j \in Jobs : caller[j] = "withdrawn" => caller'[j] = "withdrawn"
  BY DEF TypeOK, Disconnect, Answers

LEMMA DropSharedEffect ==
    ASSUME TypeOK, NEW S, NEW last \in BOOLEAN, DropShared(last, S)
    PROVE  /\ caller' \in [Jobs -> {"idle", "waiting"} \cup Answers]
           /\ \A j \in Jobs : caller[j] = "withdrawn" => caller'[j] = "withdrawn"
           /\ jobs' \in Seq(Jobs) /\ current_job' \in Jobs \cup {NoJob}
           /\ ~last => jobs' = jobs /\ current_job' = current_job
  <1>1. CASE last
    BY <1>1, DisconnectEffect DEF DropShared
  <1>2. CASE ~last
    BY <1>2, DisconnectEffect DEF DropShared, TypeOK
  <1> QED BY <1>1, <1>2

(* What an append and a tail leave in the adder's channel.                 *)
LEMMA ChannelRange ==
    ASSUME NEW T, NEW s \in Seq(T)
    PROVE  /\ \A x \in T : Append(s, x) \in Seq(T) /\ ElementsIn(Append(s, x)) = ElementsIn(s) \cup {x}
           /\ s # <<>> => /\ Tail(s) \in Seq(T) /\ Head(s) \in ElementsIn(s)
                          /\ Head(s) \in T /\ ElementsIn(Tail(s)) \subseteq ElementsIn(s)
  <1>1. ASSUME NEW x \in T
        PROVE  Append(s, x) \in Seq(T) /\ ElementsIn(Append(s, x)) = ElementsIn(s) \cup {x}
    <2>1. Len(Append(s, x)) = Len(s) + 1 /\ Len(s) \in Nat /\ Append(s, x)[Len(s) + 1] = x
          /\ \A i \in 1..Len(s) : Append(s, x)[i] = s[i]
      OBVIOUS
    <2>2. \A i \in 1..(Len(s) + 1) : i \in 1..Len(s) \/ i = Len(s) + 1
      BY <2>1
    <2> QED BY <2>1, <2>2 DEF ElementsIn
  <1>2. ASSUME s # <<>>
        PROVE  /\ Tail(s) \in Seq(T) /\ Head(s) \in ElementsIn(s)
               /\ Head(s) \in T /\ ElementsIn(Tail(s)) \subseteq ElementsIn(s)
    BY <1>2 DEF ElementsIn
  <1> QED BY <1>1, <1>2
------------------------------------------------------------------------------
(* The types are kept.                                                     *)
LEMMA NextType ==
    ASSUME IInv, [Next]_vars
    PROVE  TypeOK'
  <1> USE DEF adderVars, procVars, dequeVars, jobVars, endVars
  <1>0. TypeOK /\ StopInv /\ NotifyInv
    BY DEF IInv
  <1>1. ASSUME NEW j \in Jobs, AddJob(j)
        PROVE  TypeOK'
    <2>1. tx' \in Seq(Jobs \cup {Stop})
      <3>1. tx \in Seq(Jobs \cup {Stop}) /\ j \in Jobs \cup {Stop} /\ (tx' = tx \/ tx' = Append(tx, j))
        BY <1>0, <1>1 DEF AddJob, TypeOK
      <3> QED BY <3>1
    <2> QED BY <1>0, <1>1, <2>1 DEF AddJob, TypeOK, Answers
  <1>2. ASSUME NEW j \in Jobs, CancelJob(j) \/ CallerGone(j)
        PROVE  TypeOK'
    BY <1>0, <1>2 DEF CancelJob, CallerGone, TypeOK, Answers
  <1>3. CASE AdderReceives
    BY <1>0, <1>3, ChannelRange DEF AdderReceives, TypeOK
  <1>4. CASE AdderPushes
    <2>1. CASE poisoned
      <3>1. /\ caller' \in [Jobs -> {"idle", "waiting"} \cup Answers]
            /\ jobs' \in Seq(Jobs) /\ current_job' \in Jobs \cup {NoJob}
        BY <1>0, <1>4, <2>1, DropSharedEffect DEF AdderPushes
      <3> QED BY <1>0, <1>4, <2>1, <3>1 DEF AdderPushes, TypeOK
    <2>2. CASE ~poisoned
      <3>1. jobs' \in Seq(Jobs)
        <4>1. jobs \in Seq(Jobs) /\ in_hand \in Jobs
          BY <1>0, <1>4 DEF AdderPushes, TypeOK
        <4>2. jobs' = Append(jobs, in_hand)
          BY <1>4, <2>2 DEF AdderPushes
        <4> QED BY <4>1, <4>2
      <3> QED BY <1>0, <1>4, <2>2, <3>1 DEF AdderPushes, TypeOK
    <2> QED BY <2>1, <2>2
  <1>5. CASE AdderSendsToken
    BY <1>0, <1>5 DEF AdderSendsToken, TypeOK
  <1>6. CASE AdderStops
    <2>1. /\ caller' \in [Jobs -> {"idle", "waiting"} \cup Answers]
          /\ jobs' \in Seq(Jobs) /\ current_job' \in Jobs \cup {NoJob}
      BY <1>0, <1>6, DropSharedEffect DEF AdderStops, TypeOK
    <2> QED BY <1>0, <1>6, <2>1 DEF AdderStops, TypeOK
  <1>7. CASE AdderNotifies
    <2>1. /\ caller' \in [Jobs -> {"idle", "waiting"} \cup Answers]
          /\ jobs' \in Seq(Jobs) /\ current_job' \in Jobs \cup {NoJob}
      BY <1>0, <1>7, DropSharedEffect DEF AdderNotifies
    <2>2. cancel' \subseteq Jobs /\ poisoned' \in BOOLEAN
      BY <1>0, <1>7 DEF AdderNotifies, TypeOK, NotifyInv
    <2> QED BY <1>0, <1>7, <2>1, <2>2 DEF AdderNotifies, TypeOK
  <1>8. CASE AbortAdder
    <2>1. /\ caller' \in [Jobs -> {"idle", "waiting"} \cup Answers]
          /\ jobs' \in Seq(Jobs) /\ current_job' \in Jobs \cup {NoJob}
      BY <1>0, <1>8, DropSharedEffect DEF AbortAdder
    <2> QED BY <1>0, <1>8, <2>1 DEF AbortAdder, TypeOK
  <1>9. CASE ProcessorPops
    <2>1. CASE poisoned \/ jobs = <<>>
      <3>1. /\ caller' \in [Jobs -> {"idle", "waiting"} \cup Answers]
            /\ jobs' \in Seq(Jobs) /\ current_job' \in Jobs \cup {NoJob}
        BY <1>0, <1>9, <2>1, DropSharedEffect DEF ProcessorPops
      <3>2. tokens' \in Nat
        BY <1>0, <1>9 DEF ProcessorPops, TypeOK
      <3>3. /\ processor' = "gone" /\ poisoned' = TRUE
            /\ UNCHANGED <<running, job, cancel, tx, adder, in_hand, vm, prover, dropped>>
        BY <1>9, <2>1 DEF ProcessorPops
      <3>4. processor = "recv"
        BY <1>9 DEF ProcessorPops
      <3> QED BY <1>0, <3>1, <3>2, <3>3, <3>4 DEF TypeOK
    <2>2. CASE ~(poisoned \/ jobs = <<>>)
      <3> DEFINE sorted == SortByPriority(jobs)
      <3>1. sorted \in Seq(Jobs) /\ sorted # <<>>
        BY <1>0, <2>2, SortType DEF TypeOK
      <3>2. /\ jobs' = Tail(sorted) /\ running' = Head(sorted) /\ current_job' = Head(sorted)
            /\ job' = [job EXCEPT ![Head(sorted)] = "start"] /\ processor' = "run"
            /\ UNCHANGED <<caller, poisoned>>
        BY <1>9, <2>2 DEF ProcessorPops
      <3> HIDE DEF sorted
      <3>3. jobs' \in Seq(Jobs) /\ running' \in Jobs /\ current_job' \in Jobs /\ Head(sorted) \in Jobs
        BY <3>1, <3>2
      <3>4. running' # NoJob
        BY <3>3, JobQueueAssumption
      <3> QED BY <1>0, <1>9, <3>2, <3>3, <3>4 DEF ProcessorPops, TypeOK
    <2> QED BY <2>1, <2>2
  <1>10. CASE ProcessorEnds
    <2>1. /\ caller' \in [Jobs -> {"idle", "waiting"} \cup Answers]
          /\ jobs' \in Seq(Jobs) /\ current_job' \in Jobs \cup {NoJob}
      BY <1>0, <1>10, DropSharedEffect DEF ProcessorEnds
    <2> QED BY <1>0, <1>10, <2>1 DEF ProcessorEnds, TypeOK
  <1>11. CASE ProcessorJoins
    <2>1. /\ caller' \in [Jobs -> {"idle", "waiting"} \cup Answers]
          /\ jobs' \in Seq(Jobs) /\ current_job' \in Jobs \cup {NoJob}
      BY <1>0, <1>11, DropSharedEffect DEF ProcessorJoins, TypeOK
    <2> QED BY <1>0, <1>11, <2>1 DEF ProcessorJoins, TypeOK
  <1>12. CASE ProcessorReports
    <2>1. running \in Jobs
      BY <1>0, <1>12 DEF ProcessorReports, TypeOK
    <2>2. job[running] \in Completions
      BY <1>0, <1>12 DEF ProcessorReports, IInv, ReportInv
    <2>3. caller' \in [Jobs -> {"idle", "waiting"} \cup Answers]
      BY <1>0, <1>12, <2>1, <2>2 DEF ProcessorReports, TypeOK, Answers
    <2> QED BY <1>0, <1>12, <2>3 DEF ProcessorReports, TypeOK
  <1>13. CASE AbortProcessor
    <2>1. /\ caller' \in [Jobs -> {"idle", "waiting"} \cup Answers]
          /\ jobs' \in Seq(Jobs) /\ current_job' \in Jobs \cup {NoJob}
      BY <1>0, <1>13, DropSharedEffect DEF AbortProcessor
    <2> QED BY <1>0, <1>13, <2>1 DEF AbortProcessor, TypeOK
  <1>14. CASE DropQueue
    <2>1. tx' \in Seq(Jobs \cup {Stop})
      BY <1>0, <1>14, ChannelRange DEF DropQueue, TypeOK
    <2> QED BY <1>0, <1>14, <2>1 DEF DropQueue, TypeOK
  <1>15. ASSUME NEW j \in Jobs, JobTask(j) \/ VmEnds(j) \/ ProverExits(j)
         PROVE  TypeOK'
    <2>1. ASSUME NEW next \in {"checking", "writing", "proving"} \cup Completions,
                 JobStep(j, next), vm' \subseteq Jobs, prover' \subseteq Jobs
          PROVE  TypeOK'
      BY <1>0, <2>1 DEF JobStep, TypeOK
    <2>2. ASSUME JobStep(j, job[j]), vm' \subseteq Jobs, prover' \subseteq Jobs
          PROVE  TypeOK'
      BY <1>0, <2>2 DEF JobStep, TypeOK
    <2>3. vm' \subseteq Jobs /\ prover' \subseteq Jobs
      BY <1>0, <1>15 DEF JobTask, StartVm, CancelBeforeProving, WriteInputs, TakeOutput, KillProver,
          VmEnds, ProverExits, TypeOK
    <2> QED BY <1>15, <2>1, <2>2, <2>3 DEF JobTask, StartVm, CancelBeforeProving, WriteInputs,
            TakeOutput, KillProver, VmEnds, ProverExits, Completions
  <1>16. CASE UNCHANGED vars
    BY <1>0, <1>16 DEF vars, TypeOK
  <1> QED BY <1>1, <1>2, <1>3, <1>4, <1>5, <1>6, <1>7, <1>8, <1>9, <1>10, <1>11, <1>12, <1>13,
             <1>14, <1>15, <1>16 DEF Next, Adder, Processor, Caller
(* Tokens match the deque.                                                 *)
LEMMA NextTokens ==
    ASSUME IInv, [Next]_vars
    PROVE  TokensMatchJobs'
  <1> USE DEF adderVars, procVars, dequeVars, jobVars, endVars
  <1>0. TypeOK /\ TokensMatchJobs
    BY DEF IInv
  <1>1. CASE AdderPushes
    <2>1. CASE poisoned
      BY <1>0, <1>1, <2>1, DropSharedEffect DEF AdderPushes, TokensMatchJobs
    <2>2. CASE ~poisoned
      <3>1. Len(jobs') = Len(jobs) + 1
        BY <1>0, <1>1, <2>2 DEF AdderPushes, TypeOK
      <3> QED BY <1>0, <1>1, <2>2, <3>1 DEF AdderPushes, TokensMatchJobs, TypeOK
    <2> QED BY <2>1, <2>2
  <1>2. CASE AdderReceives \/ AdderSendsToken
    BY <1>0, <1>2 DEF AdderReceives, AdderSendsToken, TokensMatchJobs, TypeOK
  <1>3. CASE AdderStops \/ AdderNotifies \/ AbortAdder
    <2>1. processor # "gone" => jobs' = jobs
      BY <1>0, <1>3, DropSharedEffect DEF AdderStops, AdderNotifies, AbortAdder
    <2> QED BY <1>0, <1>3, <2>1 DEF AdderStops, AdderNotifies, AbortAdder, TokensMatchJobs
  <1>4. CASE ProcessorPops
    <2>1. CASE poisoned \/ jobs = <<>>
      BY <1>4, <2>1 DEF ProcessorPops, TokensMatchJobs
    <2>2. CASE ~(poisoned \/ jobs = <<>>)
      <3>1. jobs' = Tail(SortByPriority(jobs)) /\ tokens' = tokens - 1 /\ adder' = adder
            /\ processor = "recv" /\ tokens > 0
        BY <1>4, <2>2 DEF ProcessorPops
      <3>2. SortByPriority(jobs) \in Seq(Jobs) /\ Len(SortByPriority(jobs)) = Len(jobs)
            /\ Len(jobs) \in Nat /\ Len(jobs) > 0
        BY <1>0, <2>2, SortType DEF TypeOK
      <3>3. Len(jobs') = Len(jobs) - 1
        BY <3>1, <3>2
      <3> QED BY <1>0, <3>1, <3>2, <3>3 DEF TokensMatchJobs, TypeOK
    <2> QED BY <2>1, <2>2
  <1>5. CASE ProcessorEnds \/ ProcessorJoins \/ ProcessorReports \/ AbortProcessor
    BY <1>0, <1>5 DEF ProcessorEnds, ProcessorJoins, ProcessorReports, AbortProcessor, TokensMatchJobs
  <1>6. CASE DropQueue \/ \E j \in Jobs : Caller(j) \/ JobTask(j) \/ VmEnds(j) \/ ProverExits(j)
    BY <1>0, <1>6 DEF DropQueue, Caller, AddJob, CancelJob, CallerGone, JobTask, StartVm, TokensMatchJobs,
        CancelBeforeProving, WriteInputs, TakeOutput, KillProver, VmEnds, ProverExits, JobStep
  <1>7. CASE UNCHANGED vars
    BY <1>0, <1>7 DEF vars, TokensMatchJobs
  <1> QED BY <1>1, <1>2, <1>3, <1>4, <1>5, <1>6, <1>7 DEF Next, Adder, Processor

(* What the steps of a job's task can make of it.                          *)
LEMMA JobTaskEffect ==
    ASSUME TypeOK, NEW j \in Jobs, JobTask(j) \/ VmEnds(j) \/ ProverExits(j)
    PROVE  /\ UNCHANGED <<caller, cancel, tx, adder, running, current_job, processor, dropped>>
           /\ \A k \in Jobs : Alive(k)' => Alive(k)
           /\ \A k \in Jobs : job[k] \in Completions => job'[k] = job[k]
           /\ \A k \in Jobs : job'[k] = "cancelled" => job[k] = "cancelled" \/ (Alive(k) /\ Told(k))
  <1> USE DEF adderVars, procVars, dequeVars, jobVars, endVars
  <1>1. ASSUME NEW next, JobStep(j, next), Alive(j), next = "cancelled" => Told(j)
        PROVE  /\ UNCHANGED <<caller, cancel, tx, adder, running, current_job, processor, dropped>>
               /\ \A k \in Jobs : Alive(k)' => Alive(k)
               /\ \A k \in Jobs : job[k] \in Completions => job'[k] = job[k]
               /\ \A k \in Jobs : job'[k] = "cancelled" => job[k] = "cancelled" \/ (Alive(k) /\ Told(k))
    BY <1>1 DEF JobStep, Alive, TypeOK, Completions
  <1>2. CASE JobStep(j, job[j])
    BY <1>2 DEF JobStep, Alive, TypeOK
  <1> QED BY <1>1, <1>2 DEF JobTask, StartVm, CancelBeforeProving, WriteInputs, TakeOutput, KillProver,
          VmEnds, ProverExits, Alive

(* The rest of the invariant is kept.                                      *)
Rest == OneJobRuns /\ CancelledOnRequest /\ StopInv /\ ReportInv /\ NotifyInv /\ CancelInv

LEMMA NextRest ==
    ASSUME IInv, [Next]_vars
    PROVE  Rest'
  <1> USE DEF adderVars, procVars, dequeVars, jobVars, endVars
  <1>0. TypeOK /\ Rest
    BY DEF IInv, Rest
  <1>1. ASSUME NEW j \in Jobs, AddJob(j)
        PROVE  Rest'
    <2>1. Stop \in ElementsIn(tx') => Stop \in ElementsIn(tx)
      <3>1. tx \in Seq(Jobs \cup {Stop}) /\ j \in Jobs \cup {Stop} /\ j # Stop
        BY <1>0, JobQueueAssumption DEF TypeOK
      <3>2. ElementsIn(Append(tx, j)) = ElementsIn(tx) \cup {j}
        BY <3>1, ChannelRange
      <3> QED BY <1>1, <3>1, <3>2 DEF AddJob
    <2> QED BY <1>0, <1>1, <2>1 DEF AddJob, TypeOK, Rest, OneJobRuns, CancelledOnRequest, StopInv, ReportInv,
            NotifyInv, CancelInv, Alive
  <1>2. ASSUME NEW j \in Jobs, CancelJob(j) \/ CallerGone(j)
        PROVE  Rest'
    BY <1>0, <1>2 DEF CancelJob, CallerGone, TypeOK, Rest, OneJobRuns, CancelledOnRequest, StopInv, ReportInv,
        NotifyInv, CancelInv, Alive
  <1>3. CASE AdderReceives
    <2>1. Head(tx) \in ElementsIn(tx) /\ ElementsIn(tx') \subseteq ElementsIn(tx)
      <3>1. tx \in Seq(Jobs \cup {Stop}) /\ tx # <<>> /\ tx' = Tail(tx)
        BY <1>0, <1>3 DEF AdderReceives, TypeOK
      <3> QED BY <3>1, ChannelRange
    <2> QED BY <1>0, <1>3, <2>1 DEF AdderReceives, Rest, OneJobRuns, CancelledOnRequest, StopInv, ReportInv,
            NotifyInv, CancelInv, Alive
  <1>4. CASE AdderPushes \/ AdderStops \/ AbortAdder
    <2>1. /\ \A j \in Jobs : caller[j] = "withdrawn" => caller'[j] = "withdrawn"
          /\ processor # "gone" => current_job' = current_job
      BY <1>0, <1>4, DropSharedEffect DEF AdderPushes, AdderStops, AbortAdder
    <2>2. ElementsIn(tx') \subseteq ElementsIn(tx)
      BY <1>4 DEF AdderPushes, AdderStops, AbortAdder, ElementsIn
    <2>3. adder' = "notify" => dropped /\ current_job' \in Jobs
      BY <1>0, <1>4 DEF AdderPushes, AdderStops, AbortAdder, Rest, StopInv, TypeOK
    <2>4. OneJobRuns'
      <3>1. dropped' = dropped /\ job' = job /\ running' = running /\ processor' = processor
        BY <1>4 DEF AdderPushes, AdderStops, AbortAdder
      <3>2. ASSUME NEW j \in Jobs, Alive(j)', ~dropped'
            PROVE  running' = j /\ current_job' = j
        <4>1. running = j /\ current_job = j
          BY <1>0, <3>1, <3>2 DEF Rest, OneJobRuns, Alive
        <4>2. processor # "gone"
          BY <1>0, <4>1, JobQueueAssumption DEF TypeOK
        <4> QED BY <2>1, <3>1, <4>1, <4>2
      <3> QED BY <3>2 DEF OneJobRuns
    <2> QED BY <1>0, <1>4, <2>1, <2>2, <2>3, <2>4 DEF AdderPushes, AdderStops, AbortAdder, TypeOK, Rest,
            CancelledOnRequest, StopInv, ReportInv, NotifyInv, CancelInv
  <1>5. CASE AdderSendsToken
    BY <1>0, <1>5 DEF AdderSendsToken, Rest, OneJobRuns, CancelledOnRequest, StopInv, ReportInv, NotifyInv,
        CancelInv, Alive
  <1>6. CASE AdderNotifies
    <2>1. dropped /\ dropped' = dropped /\ adder' = "gone"
      BY <1>0, <1>6 DEF AdderNotifies, Rest, StopInv
    <2> QED BY <1>0, <1>6, <2>1 DEF AdderNotifies, Rest, OneJobRuns, CancelledOnRequest, StopInv, ReportInv,
            NotifyInv, CancelInv
  <1>7. CASE ProcessorPops
    <2>1. \A j \in Jobs : Alive(j) => dropped
      BY <1>0, <1>7, JobQueueAssumption DEF ProcessorPops, TypeOK, Rest, OneJobRuns
    <2>2. CASE poisoned \/ jobs = <<>>
      <3>1. /\ \A j \in Jobs : caller[j] = "withdrawn" => caller'[j] = "withdrawn"
            /\ adder # "gone" => current_job' = current_job
        BY <1>0, <1>7, <2>2, DropSharedEffect DEF ProcessorPops
      <3> QED BY <1>0, <1>7, <2>1, <2>2, <3>1 DEF ProcessorPops, TypeOK, Rest, OneJobRuns, CancelledOnRequest,
              StopInv, ReportInv, NotifyInv, CancelInv, Alive
    <2>3. CASE ~(poisoned \/ jobs = <<>>)
      <3> DEFINE first == Head(SortByPriority(jobs))
      <3>1. /\ running' = first /\ current_job' = first /\ job' = [job EXCEPT ![first] = "start"]
            /\ processor' = "run" /\ UNCHANGED <<caller, cancel, tx, adder, dropped>> /\ LockFree
        BY <1>7, <2>3 DEF ProcessorPops
      <3> HIDE DEF first
      <3> QED BY <1>0, <2>1, <3>1 DEF TypeOK, Rest, OneJobRuns, CancelledOnRequest,
              StopInv, ReportInv, NotifyInv, CancelInv, Alive, LockFree
    <2> QED BY <2>2, <2>3
  <1>8. CASE ProcessorEnds
    <2>1. \A j \in Jobs : Alive(j) => dropped
      BY <1>0, <1>8, JobQueueAssumption DEF ProcessorEnds, TypeOK, Rest, OneJobRuns
    <2>2. /\ \A j \in Jobs : caller[j] = "withdrawn" => caller'[j] = "withdrawn"
          /\ adder # "gone" => current_job' = current_job
      BY <1>0, <1>8, DropSharedEffect DEF ProcessorEnds
    <2> QED BY <1>0, <1>8, <2>1, <2>2 DEF ProcessorEnds, TypeOK, Rest, OneJobRuns, CancelledOnRequest,
            StopInv, ReportInv, NotifyInv, CancelInv, Alive
  <1>9. CASE ProcessorJoins
    <2>1. \A j \in Jobs : Alive(j) => dropped
      <3>1. ~Alive(running)
        BY <1>9 DEF ProcessorJoins, Alive, Completions
      <3> QED BY <1>0, <3>1 DEF Rest, OneJobRuns
    <2>2. \A j \in Jobs : caller[j] = "withdrawn" => caller'[j] = "withdrawn"
      BY <1>0, <1>9, DropSharedEffect DEF ProcessorJoins
    <2> QED BY <1>0, <1>9, <2>1, <2>2 DEF ProcessorJoins, LockFree, TypeOK, Rest, OneJobRuns, CancelledOnRequest,
            StopInv, ReportInv, NotifyInv, CancelInv, Alive
  <1>10. CASE ProcessorReports
    <2>1. \A j \in Jobs : caller[j] = "withdrawn" => caller'[j] = "withdrawn"
      BY <1>0, <1>10 DEF ProcessorReports, TypeOK
    <2>2. \A j \in Jobs : Alive(j) => dropped
      <3>1. ~Alive(running)
        BY <1>0, <1>10 DEF ProcessorReports, Rest, ReportInv, Alive, Completions
      <3> QED BY <1>0, <3>1 DEF Rest, OneJobRuns
    <2> QED BY <1>0, <1>10, <2>1, <2>2 DEF ProcessorReports, TypeOK, Rest, OneJobRuns, CancelledOnRequest,
            StopInv, ReportInv, NotifyInv, CancelInv, Alive
  <1>11. CASE AbortProcessor
    <2>1. dropped /\ dropped' = dropped
      BY <1>11 DEF AbortProcessor
    <2>2. adder # "gone" => current_job' = current_job
      BY <1>0, <1>11, DropSharedEffect DEF AbortProcessor
    <2> QED BY <1>0, <1>11, <2>1, <2>2 DEF AbortProcessor, Rest, OneJobRuns, CancelledOnRequest,
            StopInv, ReportInv, NotifyInv, CancelInv
  <1>12. CASE DropQueue
    BY <1>0, <1>12 DEF DropQueue, Rest, OneJobRuns, CancelledOnRequest, StopInv, ReportInv, NotifyInv, CancelInv
  <1>13. ASSUME NEW j \in Jobs, JobTask(j) \/ VmEnds(j) \/ ProverExits(j)
         PROVE  Rest'
    <2>1. /\ UNCHANGED <<caller, cancel, tx, adder, running, current_job, processor, dropped>>
          /\ \A k \in Jobs : Alive(k)' => Alive(k)
          /\ \A k \in Jobs : job[k] \in Completions => job'[k] = job[k]
          /\ \A k \in Jobs : job'[k] = "cancelled" => job[k] = "cancelled" \/ (Alive(k) /\ Told(k))
      BY <1>0, <1>13, JobTaskEffect
    <2>2. ASSUME NEW k \in Jobs, Alive(k), Told(k), ~dropped
          PROVE  caller[k] = "withdrawn"
      BY <1>0, <2>2 DEF Told, Rest, OneJobRuns, CancelInv
    <2>3. CancelledOnRequest'
      BY <1>0, <2>1, <2>2 DEF Rest, CancelledOnRequest
    <2>4. ReportInv'
      BY <1>0, <2>1, JobQueueAssumption DEF Rest, ReportInv, TypeOK
    <2> QED BY <1>0, <2>1, <2>3, <2>4 DEF Rest, OneJobRuns, StopInv, NotifyInv, CancelInv
  <1>14. CASE UNCHANGED vars
    BY <1>0, <1>14 DEF vars, Rest, OneJobRuns, CancelledOnRequest, StopInv, ReportInv, NotifyInv, CancelInv, Alive
  <1> QED BY <1>1, <1>2, <1>3, <1>4, <1>5, <1>6, <1>7, <1>8, <1>9, <1>10, <1>11, <1>12, <1>13, <1>14
          DEF Next, Adder, Processor, Caller

LEMMA Inductive == Spec => []IInv
  <1>1. IInv /\ [Next]_vars => IInv'
    BY NextType, NextTokens, NextRest DEF IInv, Rest
  <1> QED BY <1>1, InitIInv, PTL DEF Spec
------------------------------------------------------------------------------
(* The types of the queue's state are kept.                                *)
THEOREM JobQueueTypes == Spec => []TypeOK
  BY Inductive, PTL DEF IInv

(* A token in the channel finds a job in the deque: `pop_front().unwrap()' *)
(* in the processing task never fails.                                     *)
THEOREM JobQueueTokensMatchJobs == Spec => []TokensMatchJobs
  BY Inductive, PTL DEF IInv

(* Until the queue is dropped, one task of a job runs at a time, and it is *)
(* the one that the processor waits for and current_job names.             *)
THEOREM JobQueueOneJobRuns == Spec => []OneJobRuns
  BY Inductive, PTL DEF IInv

(* A job that ends as cancelled was cancelled by its own caller, or the    *)
(* queue was dropped.                                                      *)
THEOREM JobQueueCancelledOnRequest == Spec => []CancelledOnRequest
  BY Inductive, PTL DEF IInv
==============================================================================
