------------------------- MODULE BuildWorkerProofs -------------------------
(***************************************************************************)
(* Theorems about the builder processes, for every number of nodes, tasks  *)
(* and faults: the server steps of a worker are steps of BuildCluster, so  *)
(* all that is proved there holds here; and what the workers add, the APKs *)
(* in the object store, follows from an invariant on the keys of builds.   *)
(***************************************************************************)
EXTENDS BuildWorker, BuildClusterProofs

WorkerTypeOK ==
    /\ proc \in [Node -> {"off", "running", "draining", "exited"}]
    /\ exec \subseteq Exec
    /\ active \in [Node -> SUBSET Task]
    /\ requests \subseteq Request
    /\ objects \subseteq Key
    /\ artifact \in [Task -> Key \cup {NoApk}]
    /\ faults \in 0..MaxFaults

\* What types the worker's variables and the columns it reads.
Typed == TypeOK /\ AttemptsInRange /\ WorkerTypeOK

-----------------------------------------------------------------------------
(* The steps of a worker are steps of the cluster. *)

\* A build and a call name a node, a task and an attempt the model can have.
LEMMA ExecTyped ==
    ASSUME WorkerTypeOK, NEW e \in exec
    PROVE  /\ e.task \in Task /\ e.attempt \in 1..MaxAttempt /\ e.node \in Node
           /\ e.pc \in Pc /\ e.cancelled \in Cause /\ KeyOf(e) \in Key
           /\ e = [task |-> e.task, attempt |-> e.attempt, node |-> e.node, pc |-> e.pc,
                   cancelled |-> e.cancelled]
BY DEF WorkerTypeOK, Exec, KeyOf, Key

LEMMA RequestTyped ==
    ASSUME WorkerTypeOK, NEW r \in requests
    PROVE  /\ r.task \in Task /\ r.attempt \in 1..MaxAttempt /\ r.node \in Node
           /\ r.kind \in {"complete", "fail"} /\ KeyOf(r) \in Key
           /\ r = [kind |-> r.kind, task |-> r.task, attempt |-> r.attempt, node |-> r.node]
BY DEF WorkerTypeOK, Request, KeyOf, Key

\* The process of a node registers, heartbeats, polls, drains, dies.
ProcessStep ==
    \E n \in Node :
        \/ WorkerStarts(n) \/ WorkerHeartbeat(n)
        \/ \E delivered \in BOOLEAN : Poll(n, delivered)
        \/ Crash(n) \/ ExitWhilePolling(n)
        \/ BeginShutdown(n) \/ ShutdownEnds(n) \/ ShutdownTimesOut(n)

BuildStep ==
    \E e \in exec :
        \/ BuildFails(e) \/ HeartbeatFails(e) \/ ReportUploading(e) \/ UploadApk(e)
        \/ UploadLogFails(e) \/ CallComplete(e) \/ CallFail(e) \/ CallUnanswered(e)

AnswerStep ==
    \E r \in requests : ServeComplete(r) \/ RefuseComplete(r) \/ AbortComplete(r) \/ ServeFail(r)

LEMMA WorkerSteps ==
    ASSUME WorkerNext
    PROVE  ProcessStep \/ BuildStep \/ AnswerStep \/ (Outside /\ UNCHANGED workerVars)
BY DEF WorkerNext, ProcessStep, BuildStep, AnswerStep

\* Registrations, heartbeats, drains and claims are those of the cluster.
LEMMA ProcessStepIsNext ==
    ASSUME ProcessStep PROVE [Next]_vars
<1> PICK n \in Node :
        \/ WorkerStarts(n) \/ WorkerHeartbeat(n)
        \/ \E delivered \in BOOLEAN : Poll(n, delivered)
        \/ Crash(n) \/ ExitWhilePolling(n)
        \/ BeginShutdown(n) \/ ShutdownEnds(n) \/ ShutdownTimesOut(n)
    BY DEF ProcessStep
<1>1. CASE WorkerStarts(n)
    BY <1>1 DEF WorkerStarts, Next, NodeNext
<1>2. CASE WorkerHeartbeat(n)
    BY <1>2 DEF WorkerHeartbeat, Next, NodeNext
<1>3. ASSUME NEW delivered \in BOOLEAN, Poll(n, delivered) PROVE Next
    BY <1>3 DEF Poll, Next, Requests
<1>4. CASE Crash(n) \/ ExitWhilePolling(n) \/ ShutdownEnds(n) \/ ShutdownTimesOut(n)
    BY <1>4 DEF Crash, ExitWhilePolling, ShutdownEnds, ShutdownTimesOut, Dies
<1>5. CASE BeginShutdown(n)
    <2>1. UNCHANGED clusterVars /\ (DrainBuilderNode(n, FALSE) \/ UNCHANGED nodeVars)
        BY <1>5 DEF BeginShutdown
    <2>2. CASE DrainBuilderNode(n, FALSE)
        BY <2>1, <2>2 DEF Next, NodeNext
    <2>3. CASE UNCHANGED nodeVars
        BY <2>1, <2>3 DEF vars
    <2> QED BY <2>1, <2>2, <2>3
<1> QED BY <1>1, <1>2, <1>3, <1>4, <1>5

\* A progress report is one of a builder; the rest of a build stays local.
LEMMA BuildStepIsNext ==
    ASSUME WorkerTypeOK, BuildStep PROVE [Next]_vars
<1> PICK e \in exec :
        \/ BuildFails(e) \/ HeartbeatFails(e) \/ ReportUploading(e) \/ UploadApk(e)
        \/ UploadLogFails(e) \/ CallComplete(e) \/ CallFail(e) \/ CallUnanswered(e)
    BY DEF BuildStep
<1>1. CASE ReportUploading(e)
    <2>1. CASE Owns(e.node, e.task, e.attempt)
        <3>1. ReportBuildProgress(e.node, e.task, e.attempt, "building")
            BY <1>1, <2>1 DEF ReportUploading
        <3>2. e.node \in Builder /\ e.task \in Task /\ e.attempt \in 1..MaxAttempt
            BY ExecTyped DEF Builder
        <3> QED BY <3>1, <3>2, PhaseAssumption DEF Next, BuilderRequests
    <2>2. CASE ~Owns(e.node, e.task, e.attempt)
        BY <1>1, <2>2 DEF ReportUploading
    <2> QED BY <2>1, <2>2
<1>2. CASE UNCHANGED vars
    BY <1>2
<1> QED BY <1>1, <1>2 DEF BuildFails, HeartbeatFails, UploadApk, UploadLogFails, CallComplete,
        CallFail, CallUnanswered

\* A call that is served is a request of a builder, however late.
LEMMA AnswerStepIsNext ==
    ASSUME WorkerTypeOK, AnswerStep PROVE [Next]_vars
<1> PICK r \in requests : ServeComplete(r) \/ RefuseComplete(r) \/ AbortComplete(r) \/ ServeFail(r)
    BY DEF AnswerStep
<1>0. r.node \in Node /\ r.task \in Task /\ r.attempt \in 1..MaxAttempt
    BY RequestTyped
<1>1. CASE ServeComplete(r)
    <2>1. CompleteBuildTask(r.node, r.task, r.attempt, FALSE)
        BY <1>1 DEF ServeComplete
    <2> QED BY <1>0, <2>1 DEF Next, BuilderRequests
<1>2. ASSUME NEW withLog \in BOOLEAN, FailBuildTask(r.node, r.task, r.attempt, withLog) PROVE Next
    BY <1>0, <1>2 DEF Next, BuilderRequests
<1>3. CASE ServeFail(r)
    BY <1>2, <1>3 DEF ServeFail
<1> QED BY <1>1, <1>3 DEF RefuseComplete, AbortComplete

\* What users, operators and time do is what the cluster lets them do.
LEMMA OutsideIsNext ==
    ASSUME Outside PROVE [Next]_vars
<1>1. ASSUME NEW t \in Task, LeasePasses(t) PROVE Next
    BY <1>1 DEF LeasePasses, Next, Environment
<1>2. ASSUME NEW s \in slots, SlotPasses(s) PROVE Next
    BY <1>2 DEF SlotPasses, Next, Environment
<1>3. ASSUME NEW t \in Task, CreateBuildTask(t) \/ CancelBuildTask(t) \/ ReservationExpires(t)
      PROVE  Next
    BY <1>3 DEF Next, Requests, Environment
<1>4. ASSUME NEW t \in Task, NEW source \in Task, RetryBuildTask(t, source) PROVE Next
    BY <1>4 DEF Next, Requests
<1>5. ASSUME NEW x \in Tenant, ChangeSubscription(x) PROVE Next
    BY <1>5 DEF Next, Environment
<1>6. ASSUME NEW n \in Node, Undrain(n) PROVE Next
    BY <1>6 DEF Undrain, Next, NodeNext
<1>7. ASSUME NEW n \in Node, HeartbeatGoesStale(n) \/ ClaimFromStaleNode(n), UNCHANGED clusterVars
      PROVE  Next
    BY <1>7 DEF Next, NodeNext
<1> QED BY <1>1, <1>2, <1>3, <1>4, <1>5, <1>6, <1>7 DEF Outside

\* Every step of the workers is a step of the cluster or leaves it alone.
LEMMA WorkerStepIsNext ==
    ASSUME WorkerTypeOK, [WorkerNext]_allVars PROVE [Next]_vars
<1>1. CASE UNCHANGED allVars
    BY <1>1 DEF allVars
<1> QED BY <1>1, WorkerSteps, ProcessStepIsNext, BuildStepIsNext, AnswerStepIsNext, OutsideIsNext

-----------------------------------------------------------------------------
(***************************************************************************)
(* What a step does to the builds, the calls and the store: one of six     *)
(* things.  The type invariant and the invariant on keys follow from this  *)
(* classification.                                                         *)
(***************************************************************************)

Build(t, n) ==
    [task |-> t, attempt |-> attempt[t] + 1, node |-> n, pc |-> "building", cancelled |-> "none"]

\* A build that is cancelled when the drain of node n times out.
Stopped(e, n) ==
    IF e.node = n /\ Cancellable(e) THEN [e EXCEPT !.cancelled = "shutdown"] ELSE e

CallOf(e, kind) == [kind |-> kind, task |-> e.task, attempt |-> e.attempt, node |-> e.node]
Answer(kind) == IF kind = "complete" THEN "completing" ELSE "reporting"

\* Builds and calls end, or nothing happens.
Dropped ==
    /\ exec' \subseteq exec /\ requests' \subseteq requests
    /\ UNCHANGED <<objects, artifact>>

Taken(t, n) ==
    /\ Claimable(t) /\ attempt'[t] = attempt[t] + 1
    /\ Build(t, n) \in Exec
    /\ exec' = exec \cup {Build(t, n)}
    /\ UNCHANGED <<requests, objects, artifact>>

Relabelled(n) ==
    /\ exec' = {Stopped(e, n) : e \in exec}
    /\ UNCHANGED <<requests, objects, artifact>>

\* One build goes on, in one of four ways.
Continues(e, f) ==
    /\ f.pc = e.pc \/ (e.pc \in {"building", "uploading"} /\ f.pc \in {"uploading", "failing"})
    /\ objects' \in {objects, objects \cup {KeyOf(e)}}
    /\ UNCHANGED requests
Uploads(e, f) ==
    /\ e.pc = "uploading" /\ f.pc = "uploaded"
    /\ objects' = objects \cup {KeyOf(e)}
    /\ UNCHANGED requests
GivesUp(e, f) ==
    /\ e.pc = "uploaded" /\ f.pc = "failing"
    /\ objects' \in {objects, objects \ {KeyOf(e)}}
    /\ UNCHANGED requests
Calls(e, f, kind) ==
    /\ e.pc = IF kind = "complete" THEN "uploaded" ELSE "failing"
    /\ f.pc = Answer(kind)
    /\ requests' = requests \cup {CallOf(e, kind)}
    /\ UNCHANGED objects

Moved(e, f) ==
    /\ f.task = e.task /\ f.attempt = e.attempt /\ f.node = e.node
    /\ exec' = (exec \ {e}) \cup {f}
    /\ UNCHANGED artifact
    /\ \/ Continues(e, f) \/ Uploads(e, f) \/ GivesUp(e, f)
       \/ \E kind \in {"complete", "fail"} : Calls(e, f, kind)

Committed(r) ==
    /\ r.kind = "complete"
    /\ Owns(r.node, r.task, r.attempt)
    /\ status'[r.task] = "success" /\ attempt' = attempt
    /\ artifact' = [artifact EXCEPT ![r.task] = KeyOf(r)]
    /\ requests' = requests \ {r} /\ exec' = exec \ Callers(r)
    /\ UNCHANGED objects

Refused(r) ==
    /\ objects' = objects \ {KeyOf(e) : e \in Callers(r)}
    /\ requests' = requests \ {r} /\ exec' = exec \ Callers(r)
    /\ UNCHANGED artifact

WorkerStep ==
    \/ Dropped
    \/ \E t \in Task, n \in Node : Taken(t, n)
    \/ \E n \in Node : Relabelled(n)
    \/ \E e \in exec, f \in Exec : Moved(e, f)
    \/ \E r \in requests : Committed(r) \/ Refused(r)

\* A poll takes one task, whose attempt it moves to a number of the model.
LEMMA PollTakesOne ==
    ASSUME Typed, NEW n \in Node, NEW delivered \in BOOLEAN, Poll(n, delivered)
    PROVE  \E t \in Task :
             /\ Claimable(t) /\ attempt'[t] = attempt[t] + 1
             /\ Build(t, n) \in Exec
             /\ \/ exec' = exec /\ active' = active
                \/ /\ exec' = exec \cup {Build(t, n)}
                   /\ active' = [active EXCEPT ![n] = @ \cup {t}]
<1>1. PICK t \in Task : Claimable(t) /\ Grant(t, n)
    BY ScheduledClaimGrants DEF Poll
<1>2. /\ attempt \in [Task -> Nat] /\ status \in [Task -> TaskStatus]
      /\ attempt' = [attempt EXCEPT ![t] = @ + 1]
      /\ status' = [status EXCEPT ![t] = "building"]
    BY <1>1 DEF Grant, Typed, TypeOK
<1>3. attempt'[t] \in 1..MaxAttempt /\ attempt'[t] = attempt[t] + 1
    <2>1. Next
        BY DEF Poll, Next, Requests
    <2>2. AttemptsInRange'
        BY <2>1, AttemptsInRangeStep DEF Typed
    <2> QED BY <1>2, <2>2, PhaseAssumption DEF AttemptsInRange, Running
<1>4. {u \in Task : attempt'[u] # attempt[u]} = {t}
    BY <1>2
<1>5. Build(t, n) \in Exec
    BY <1>3 DEF Build, Exec, Pc, Cause
<1>6. CASE delivered
    <2>1. exec' = exec \cup {[task |-> u, attempt |-> attempt'[u], node |-> n,
                              pc |-> "building", cancelled |-> "none"] :
                                u \in {v \in Task : attempt'[v] # attempt[v]}}
          /\ active' = [active EXCEPT ![n] = @ \cup {v \in Task : attempt'[v] # attempt[v]}]
        BY <1>6 DEF Poll
    <2>2. exec' = exec \cup {Build(t, n)}
        BY <1>3, <1>4, <2>1, Zenon DEF Build
    <2> QED BY <1>1, <1>3, <1>4, <1>5, <2>1, <2>2
<1>7. CASE ~delivered
    BY <1>1, <1>3, <1>5, <1>7 DEF Poll
<1> QED BY <1>6, <1>7

\* What becomes of a build keeps its type, and the labels that do not change.
LEMMA StoppedTyped ==
    ASSUME WorkerTypeOK, NEW e \in exec, NEW n
    PROVE  /\ Stopped(e, n) \in Exec
           /\ Stopped(e, n).task = e.task /\ Stopped(e, n).attempt = e.attempt
           /\ Stopped(e, n).node = e.node /\ Stopped(e, n).pc = e.pc
<1>1. e \in Exec
    BY DEF WorkerTypeOK
<1>2. CASE e.node = n /\ Cancellable(e)
    <2>1. Stopped(e, n) = [e EXCEPT !.cancelled = "shutdown"]
        BY <1>2 DEF Stopped
    <2> QED BY <1>1, <2>1 DEF Exec, Cause
<1>3. CASE ~(e.node = n /\ Cancellable(e))
    BY <1>1, <1>3 DEF Stopped
<1> QED BY <1>2, <1>3

LEMMA RelabelTyped ==
    ASSUME WorkerTypeOK, NEW e \in exec, NEW pc \in Pc
    PROVE  /\ [e EXCEPT !.pc = pc] \in Exec
           /\ [e EXCEPT !.pc = pc].pc = pc
           /\ [e EXCEPT !.pc = pc].task = e.task /\ [e EXCEPT !.pc = pc].attempt = e.attempt
           /\ [e EXCEPT !.pc = pc].node = e.node
<1>1. e \in Exec
    BY DEF WorkerTypeOK
<1> QED BY <1>1 DEF Exec

LEMMA ProcessStepClass ==
    ASSUME Typed, ProcessStep PROVE WorkerStep
<1> PICK n \in Node :
        \/ WorkerStarts(n) \/ WorkerHeartbeat(n)
        \/ \E delivered \in BOOLEAN : Poll(n, delivered)
        \/ Crash(n) \/ ExitWhilePolling(n)
        \/ BeginShutdown(n) \/ ShutdownEnds(n) \/ ShutdownTimesOut(n)
    BY DEF ProcessStep
<1>1. ASSUME NEW delivered \in BOOLEAN, Poll(n, delivered) PROVE WorkerStep
    <2>1. PICK t \in Task :
             /\ Claimable(t) /\ attempt'[t] = attempt[t] + 1
             /\ Build(t, n) \in Exec
             /\ exec' = exec \/ exec' = exec \cup {Build(t, n)}
        BY <1>1, PollTakesOne
    <2>2. UNCHANGED <<requests, objects, artifact>>
        BY <1>1 DEF Poll
    <2> QED BY <2>1, <2>2 DEF WorkerStep, Dropped, Taken
<1>2. CASE ShutdownTimesOut(n)
    <2>1. exec' = {Stopped(e, n) : e \in exec}
        BY <1>2, Zenon DEF ShutdownTimesOut, Stopped
    <2> QED BY <1>2, <2>1 DEF ShutdownTimesOut, WorkerStep, Relabelled
<1>3. ASSUME exec' \subseteq exec, UNCHANGED <<requests, objects, artifact>> PROVE WorkerStep
    BY <1>3 DEF WorkerStep, Dropped
<1> QED BY <1>1, <1>2, <1>3 DEF WorkerStarts, WorkerHeartbeat, workerVars, Crash, ExitWhilePolling,
        BeginShutdown, ShutdownEnds, Dies

LEMMA BuildStepClass ==
    ASSUME Typed, BuildStep PROVE WorkerStep
<1> PICK e \in exec :
        \/ BuildFails(e) \/ HeartbeatFails(e) \/ ReportUploading(e) \/ UploadApk(e)
        \/ UploadLogFails(e) \/ CallComplete(e) \/ CallFail(e) \/ CallUnanswered(e)
    BY DEF BuildStep
<1>0. ASSUME NEW pc \in Pc, Goto(e, pc), UNCHANGED artifact,
             LET f == [e EXCEPT !.pc = pc]
             IN  \/ Continues(e, f) \/ Uploads(e, f) \/ GivesUp(e, f)
                 \/ \E kind \in {"complete", "fail"} : Calls(e, f, kind)
      PROVE  WorkerStep
    <2>1. PICK f \in Exec : f = [e EXCEPT !.pc = pc]
        BY RelabelTyped DEF Typed
    <2>2. f.task = e.task /\ f.attempt = e.attempt /\ f.node = e.node
        BY <2>1, RelabelTyped DEF Typed
    <2>3. exec' = (exec \ {e}) \cup {f}
        BY <1>0, <2>1, Zenon DEF Goto, Becomes
    <2>4. \/ Continues(e, f) \/ Uploads(e, f) \/ GivesUp(e, f)
          \/ \E kind \in {"complete", "fail"} : Calls(e, f, kind)
        BY <1>0, <2>1, Zenon
    <2>5. Moved(e, f)
        BY <1>0, <2>2, <2>3, <2>4 DEF Moved
    <2> QED BY <2>5 DEF WorkerStep
<1>f. {"failing", "uploading", "uploaded", "completing", "reporting"} \subseteq Pc
      /\ \A pc \in Pc : [e EXCEPT !.pc = pc].pc = pc
    <2>1. \A pc \in Pc : [e EXCEPT !.pc = pc].pc = pc
        BY RelabelTyped DEF Typed
    <2> QED BY <2>1 DEF Pc
<1>1. CASE BuildFails(e)
    <2>1. Goto(e, "failing") /\ UNCHANGED artifact
        BY <1>1 DEF BuildFails
    <2>2. Continues(e, [e EXCEPT !.pc = "failing"])
        BY <1>1, <1>f DEF BuildFails, Continues
    <2> QED BY <1>0, <1>f, <2>1, <2>2
<1>2. CASE HeartbeatFails(e)
    <2>1. PICK f : f = [e EXCEPT !.cancelled = "heartbeat"]
        OBVIOUS
    <2>2. e \in Exec
        BY DEF Typed, WorkerTypeOK
    <2>3. f \in Exec /\ f.pc = e.pc /\ f.task = e.task /\ f.attempt = e.attempt /\ f.node = e.node
        BY <2>1, <2>2 DEF Exec, Cause
    <2>4. exec' = (exec \ {e}) \cup {f}
        BY <1>2, <2>1, Zenon DEF HeartbeatFails, Becomes
    <2>5. UNCHANGED <<requests, objects, artifact>>
        BY <1>2 DEF HeartbeatFails
    <2>6. Moved(e, f)
        BY <2>3, <2>4, <2>5 DEF Moved, Continues
    <2> QED BY <2>3, <2>6 DEF WorkerStep
<1>3. CASE ReportUploading(e)
    <2>1. PICK pc \in {"uploading", "failing"} : Goto(e, pc)
        BY <1>3, Zenon DEF ReportUploading
    <2>2. Continues(e, [e EXCEPT !.pc = pc]) /\ UNCHANGED artifact
        BY <1>3, <1>f DEF ReportUploading, Continues
    <2> QED BY <1>0, <1>f, <2>1, <2>2
<1>4. CASE UploadApk(e)
    <2>1. Goto(e, "uploaded") /\ UNCHANGED artifact
        BY <1>4 DEF UploadApk
    <2>2. Uploads(e, [e EXCEPT !.pc = "uploaded"])
        BY <1>4, <1>f DEF UploadApk, Uploads
    <2> QED BY <1>0, <1>f, <2>1, <2>2
<1>5. CASE UploadLogFails(e)
    <2>1. Goto(e, "failing") /\ UNCHANGED artifact
        BY <1>5 DEF UploadLogFails
    <2>2. GivesUp(e, [e EXCEPT !.pc = "failing"])
        BY <1>5, <1>f DEF UploadLogFails, GivesUp
    <2> QED BY <1>0, <1>f, <2>1, <2>2
<1>6. CASE CallComplete(e)
    <2>1. Goto(e, "completing") /\ UNCHANGED artifact
        BY <1>6 DEF CallComplete
    <2>2. Calls(e, [e EXCEPT !.pc = "completing"], "complete")
        BY <1>6, <1>f DEF CallComplete, Calls, Call, CallOf, Answer
    <2> QED BY <1>0, <1>f, <2>1, <2>2
<1>7. CASE CallFail(e)
    <2>1. Goto(e, "reporting") /\ UNCHANGED artifact
        BY <1>7 DEF CallFail
    <2>2. Calls(e, [e EXCEPT !.pc = "reporting"], "fail")
        BY <1>7, <1>f DEF CallFail, Calls, Call, CallOf, Answer
    <2> QED BY <1>0, <1>f, <2>1, <2>2
<1>8. CASE CallUnanswered(e)
    BY <1>8 DEF CallUnanswered, Returns, WorkerStep, Dropped
<1> QED BY <1>1, <1>2, <1>3, <1>4, <1>5, <1>6, <1>7, <1>8

LEMMA AnswerStepClass ==
    ASSUME Typed, AnswerStep PROVE WorkerStep
<1> PICK r \in requests : ServeComplete(r) \/ RefuseComplete(r) \/ AbortComplete(r) \/ ServeFail(r)
    BY DEF AnswerStep
<1>1. CASE ServeComplete(r)
    <2>1. /\ Owns(r.node, r.task, r.attempt) /\ attempt' = attempt
          /\ status' = [status EXCEPT ![r.task] = "success"]
        BY <1>1 DEF ServeComplete, CompleteBuildTask, Succeeds, Finish
    <2>2. r.task \in Task
        BY RequestTyped DEF Typed
    <2>3. status'[r.task] = "success"
        BY <2>1, <2>2 DEF Typed, TypeOK
    <2>4. /\ artifact' = [artifact EXCEPT ![r.task] = KeyOf(r)] /\ r.kind = "complete"
          /\ requests' = requests \ {r} /\ exec' = exec \ Callers(r) /\ UNCHANGED objects
        BY <1>1 DEF ServeComplete, KeyOf, Answered
    <2> QED BY <2>1, <2>3, <2>4 DEF WorkerStep, Committed
<1>2. CASE RefuseComplete(r)
    BY <1>2 DEF RefuseComplete, Answered, WorkerStep, Refused
<1>3. CASE AbortComplete(r) \/ ServeFail(r)
    BY <1>3 DEF AbortComplete, ServeFail, Answered, WorkerStep, Dropped
<1> QED BY <1>1, <1>2, <1>3

LEMMA EveryWorkerStep ==
    ASSUME Typed, [WorkerNext]_allVars PROVE WorkerStep
<1>1. ASSUME UNCHANGED workerVars PROVE WorkerStep
    BY <1>1 DEF workerVars, WorkerStep, Dropped
<1>2. CASE UNCHANGED allVars
    BY <1>1, <1>2 DEF allVars
<1> QED BY <1>1, <1>2, WorkerSteps, ProcessStepClass, BuildStepClass, AnswerStepClass

-----------------------------------------------------------------------------
(* Types, and the refinement of the cluster. *)

LEMMA StoreTypes ==
    ASSUME Typed, WorkerStep
    PROVE  /\ exec' \subseteq Exec /\ requests' \subseteq Request /\ objects' \subseteq Key
           /\ artifact' \in [Task -> Key \cup {NoApk}]
<1>1. /\ exec \subseteq Exec /\ requests \subseteq Request /\ objects \subseteq Key
      /\ artifact \in [Task -> Key \cup {NoApk}]
    BY DEF Typed, WorkerTypeOK
<1>2. CASE Dropped
    BY <1>1, <1>2 DEF Dropped
<1>3. ASSUME NEW t \in Task, NEW n \in Node, Taken(t, n)
      PROVE  exec' \subseteq Exec /\ UNCHANGED <<requests, objects, artifact>>
    BY <1>1, <1>3 DEF Taken
<1>4. ASSUME NEW n \in Node, Relabelled(n)
      PROVE  exec' \subseteq Exec /\ UNCHANGED <<requests, objects, artifact>>
    BY <1>4, StoppedTyped DEF Relabelled, Typed
<1>5. ASSUME NEW e \in exec, NEW f \in Exec, Moved(e, f)
      PROVE  /\ exec' \subseteq Exec /\ requests' \subseteq Request /\ objects' \subseteq Key
             /\ UNCHANGED artifact
    <2>1. KeyOf(e) \in Key /\ \A kind \in {"complete", "fail"} : CallOf(e, kind) \in Request
        BY ExecTyped DEF Typed, CallOf, Request
    <2> QED BY <1>1, <1>5, <2>1 DEF Moved, Continues, Uploads, GivesUp, Calls
<1>6. ASSUME NEW r \in requests, Committed(r)
      PROVE  /\ exec' \subseteq Exec /\ requests' \subseteq Request /\ objects' \subseteq Key
             /\ artifact' \in [Task -> Key \cup {NoApk}]
    <2>1. KeyOf(r) \in Key
        BY RequestTyped DEF Typed
    <2> QED BY <1>1, <1>6, <2>1 DEF Committed
<1>7. ASSUME NEW r \in requests, Refused(r)
      PROVE  /\ exec' \subseteq Exec /\ requests' \subseteq Request /\ objects' \subseteq Key
             /\ UNCHANGED artifact
    BY <1>1, <1>7 DEF Refused
<1> QED BY <1>1, <1>2, <1>3, <1>4, <1>5, <1>6, <1>7 DEF WorkerStep

LEMMA CounterTypes ==
    ASSUME Typed, [WorkerNext]_allVars
    PROVE  /\ proc' \in [Node -> {"off", "running", "draining", "exited"}]
           /\ active' \in [Node -> SUBSET Task]
           /\ faults' \in 0..MaxFaults
<1>0. /\ proc \in [Node -> {"off", "running", "draining", "exited"}]
      /\ active \in [Node -> SUBSET Task]
      /\ faults \in 0..MaxFaults /\ MaxFaults \in Nat
    BY FaultsAssumption DEF Typed, WorkerTypeOK
<1>f. Fault \/ NoFault \/ UNCHANGED faults => faults' \in 0..MaxFaults
    BY <1>0 DEF Fault, NoFault
<1>p. ASSUME NEW n \in Node,
             \/ WorkerStarts(n) \/ WorkerHeartbeat(n) \/ Crash(n) \/ ExitWhilePolling(n)
             \/ BeginShutdown(n) \/ ShutdownEnds(n) \/ ShutdownTimesOut(n)
      PROVE  /\ proc' \in [Node -> {"off", "running", "draining", "exited"}]
             /\ active' \in [Node -> SUBSET Task] /\ faults' \in 0..MaxFaults
    <2>1. \/ UNCHANGED proc
          \/ \E s \in {"off", "running", "draining", "exited"} : proc' = [proc EXCEPT ![n] = s]
        BY <1>p DEF WorkerStarts, WorkerHeartbeat, workerVars, Crash, ExitWhilePolling,
            BeginShutdown, ShutdownEnds, ShutdownTimesOut
    <2>2. UNCHANGED active \/ active' = [active EXCEPT ![n] = {}]
        BY <1>p DEF WorkerStarts, WorkerHeartbeat, workerVars, Crash, ExitWhilePolling,
            BeginShutdown, ShutdownEnds, ShutdownTimesOut, Dies
    <2>3. Fault \/ NoFault
        BY <1>p DEF WorkerStarts, WorkerHeartbeat, Crash, ExitWhilePolling,
            BeginShutdown, ShutdownEnds, ShutdownTimesOut
    <2> QED BY <1>0, <1>f, <2>1, <2>2, <2>3
<1>q. ASSUME NEW n \in Node, NEW delivered \in BOOLEAN, Poll(n, delivered)
      PROVE  /\ UNCHANGED proc
             /\ active' \in [Node -> SUBSET Task] /\ faults' \in 0..MaxFaults
    <2>1. UNCHANGED proc /\ (Fault \/ NoFault)
        BY <1>q DEF Poll
    <2>2. PICK t \in Task : active' = active \/ active' = [active EXCEPT ![n] = @ \cup {t}]
        BY <1>q, PollTakesOne
    <2> QED BY <1>0, <1>f, <2>1, <2>2
<1>b. ASSUME BuildStep
      PROVE  UNCHANGED proc /\ active' \in [Node -> SUBSET Task] /\ faults' \in 0..MaxFaults
    <2> PICK e \in exec :
            \/ BuildFails(e) \/ HeartbeatFails(e) \/ ReportUploading(e) \/ UploadApk(e)
            \/ UploadLogFails(e) \/ CallComplete(e) \/ CallFail(e) \/ CallUnanswered(e)
        BY <1>b DEF BuildStep
    <2>1. UNCHANGED proc
        BY DEF BuildFails, HeartbeatFails, ReportUploading, UploadApk, UploadLogFails, CallComplete,
            CallFail, CallUnanswered
    <2>2. Fault \/ NoFault
        BY DEF BuildFails, HeartbeatFails, ReportUploading, UploadApk, UploadLogFails, CallComplete,
            CallFail, CallUnanswered
    <2>3. UNCHANGED active \/ active' = [active EXCEPT ![e.node] = @ \ {e.task}]
        BY Zenon DEF BuildFails, HeartbeatFails, ReportUploading, UploadApk, UploadLogFails,
            CallComplete, CallFail, CallUnanswered, Goto, Becomes, Returns
    <2> QED BY <1>0, <1>f, <2>1, <2>2, <2>3
<1>a. ASSUME AnswerStep
      PROVE  UNCHANGED proc /\ active' \in [Node -> SUBSET Task] /\ faults' \in 0..MaxFaults
    <2> PICK r \in requests :
            ServeComplete(r) \/ RefuseComplete(r) \/ AbortComplete(r) \/ ServeFail(r)
        BY <1>a DEF AnswerStep
    <2>1. Answered(r) /\ (Fault \/ NoFault)
        BY DEF ServeComplete, RefuseComplete, AbortComplete, ServeFail
    <2> QED BY <1>0, <1>f, <2>1 DEF Answered
<1>o. ASSUME Outside, UNCHANGED workerVars
      PROVE  UNCHANGED <<proc, active>> /\ faults' \in 0..MaxFaults
    BY <1>f, <1>o DEF Outside, workerVars, LeasePasses, SlotPasses
<1>u. CASE UNCHANGED allVars
    BY <1>0, <1>f, <1>u DEF allVars, workerVars
<1> QED BY <1>0, <1>p, <1>q, <1>b, <1>a, <1>o, <1>u, WorkerSteps DEF ProcessStep

\* The types of the server and of the workers are inductive together: a build
\* carries the attempt its grant wrote.
LEMMA TypedStep == Typed /\ [WorkerNext]_allVars => Typed'
<1> SUFFICES ASSUME Typed, [WorkerNext]_allVars PROVE Typed'
    OBVIOUS
<1>1. [Next]_vars
    BY WorkerStepIsNext DEF Typed
<1>2. TypeOK' /\ AttemptsInRange'
    BY <1>1, TypeStep, AttemptsInRangeStep DEF Typed
<1> QED BY <1>2, EveryWorkerStep, StoreTypes, CounterTypes DEF Typed, WorkerTypeOK

LEMMA TypedInit == WorkerInit => Typed
<1> SUFFICES ASSUME WorkerInit PROVE Typed
    OBVIOUS
<1>1. TypeOK
    BY MaxNodeEventsAssumption, BoundsAssumption
    DEF WorkerInit, Init, NodeInit, TypeOK, NodeTypeOK, NodeStatus, TaskStatus, Reservation
<1>2. AttemptsInRange
    BY PhaseAssumption DEF WorkerInit, Init, AttemptsInRange, Running
<1>3. WorkerTypeOK
    BY FaultsAssumption DEF WorkerInit, WorkerTypeOK
<1> QED BY <1>1, <1>2, <1>3 DEF Typed

\* The variables of every process, build and call keep their types.
THEOREM WorkersTyped == WorkerSpec => []Typed
BY TypedInit, TypedStep, PTL DEF WorkerSpec

\* The core service under real workers, which crash, lose calls and are shut
\* down, behaves as the cluster under arbitrary requests, so every theorem
\* about Spec holds of the workers.
THEOREM WorkersImplementCluster == WorkerSpec => Spec
<1>1. WorkerInit => Init
    BY DEF WorkerInit
<1>2. Typed /\ [WorkerNext]_allVars => [Next]_vars
    BY WorkerStepIsNext DEF Typed
<1> QED BY <1>1, <1>2, WorkersTyped, PTL DEF WorkerSpec, Spec

\* So it behaves as BuildLifecycle promises: a task is run by the holder of its
\* last token or by nobody, and ends once.
THEOREM WorkersImplementLifecycle == WorkerSpec => ImplementsLifecycle
BY WorkersImplementCluster, ClusterImplementsLifecycle, PTL

-----------------------------------------------------------------------------
(***************************************************************************)
(* The invariant on keys.  A grant makes a new key, so a key has one build *)
(* and, as a build reports once, one call; the APK of a build that calls   *)
(* CompleteBuildTask is stored; and when the server commits the key it is  *)
(* the last of its task, and build and call are gone with the answer, so   *)
(* nobody is left to delete it.                                            *)
(***************************************************************************)

KeysGranted == \A x \in exec \cup requests : x.attempt <= attempt[x.task]

OneBuildPerKey == \A e, f \in exec : KeyOf(e) = KeyOf(f) => e = f

OneCallPerKey ==
    \A r \in requests :
        /\ \A q \in requests : KeyOf(q) = KeyOf(r) => q = r
        /\ \A e \in exec : KeyOf(e) = KeyOf(r) => e.pc = Answer(r.kind)

UploadsStored ==
    /\ \A e \in exec : e.pc = "uploaded" => KeyOf(e) \in objects
    /\ \A r \in requests : r.kind = "complete" => KeyOf(r) \in objects

\* The keys builds and calls still hold.
Held(k) == \E x \in exec \cup requests : KeyOf(x) = k

ArtifactsSettled ==
    \A t \in Task : artifact[t] # NoApk =>
        /\ status[t] = "success" /\ artifact[t] = <<t, attempt[t]>>
        /\ artifact[t] \in objects
        /\ ~Held(artifact[t])

KeyInv == KeysGranted /\ OneBuildPerKey /\ OneCallPerKey /\ UploadsStored

\* Two builds or calls have the same key when task and attempt agree.
LEMMA SameKey ==
    ASSUME NEW x, NEW y
    PROVE  KeyOf(x) = KeyOf(y) <=> x.task = y.task /\ x.attempt = y.attempt
BY DEF KeyOf

\* A grant makes a key nobody holds.
LEMMA TakenIsNew ==
    ASSUME Typed, KeysGranted, NEW t \in Task, NEW n \in Node,
           NEW x \in exec \cup requests
    PROVE  KeyOf(x) # KeyOf(Build(t, n))
<1>1. x.attempt <= attempt[x.task] /\ x.attempt \in Nat /\ x.task \in Task
    BY ExecTyped, RequestTyped DEF Typed, KeysGranted
<1>2. attempt[t] \in Nat
    BY DEF Typed, TypeOK
<1>3. Build(t, n).task = t /\ Build(t, n).attempt = attempt[t] + 1
    BY DEF Build
<1> QED BY <1>1, <1>2, <1>3, SameKey

\* The keys of the next state are those of this one, but for a new grant.
LEMMA KeysStep ==
    ASSUME Typed, WorkerStep, NEW x \in exec' \cup requests'
    PROVE  \/ \E y \in exec \cup requests : y.task = x.task /\ y.attempt = x.attempt
           \/ /\ x.task \in Task /\ Claimable(x.task)
              /\ x.attempt = attempt[x.task] + 1 /\ attempt'[x.task] = attempt[x.task] + 1
<1>1. CASE Dropped
    BY <1>1 DEF Dropped
<1>2. ASSUME NEW t \in Task, NEW n \in Node, Taken(t, n)
      PROVE  \/ \E y \in exec \cup requests : y.task = x.task /\ y.attempt = x.attempt
             \/ /\ x.task \in Task /\ Claimable(x.task)
                /\ x.attempt = attempt[x.task] + 1 /\ attempt'[x.task] = attempt[x.task] + 1
    <2>1. Build(t, n).task = t /\ Build(t, n).attempt = attempt[t] + 1
        BY DEF Build
    <2> QED BY <1>2, <2>1 DEF Taken
<1>3. ASSUME NEW n \in Node, Relabelled(n)
      PROVE  \E y \in exec \cup requests : y.task = x.task /\ y.attempt = x.attempt
    BY <1>3, StoppedTyped DEF Relabelled, Typed
<1>4. ASSUME NEW e \in exec, NEW f \in Exec, Moved(e, f)
      PROVE  \E y \in exec \cup requests : y.task = x.task /\ y.attempt = x.attempt
    <2>1. \A kind : CallOf(e, kind).task = e.task /\ CallOf(e, kind).attempt = e.attempt
        BY DEF CallOf
    <2> QED BY <1>4, <2>1 DEF Moved, Continues, Uploads, GivesUp, Calls
<1>5. ASSUME NEW r \in requests, Committed(r) \/ Refused(r)
      PROVE  \E y \in exec \cup requests : y.task = x.task /\ y.attempt = x.attempt
    BY <1>5 DEF Committed, Refused
<1> QED BY <1>1, <1>2, <1>3, <1>4, <1>5 DEF WorkerStep

LEMMA KeysGrantedStep ==
    ASSUME Typed, KeysGranted, WorkerStep, [Next]_vars PROVE KeysGranted'
<1> SUFFICES ASSUME NEW x \in exec' \cup requests' PROVE x.attempt <= attempt'[x.task]
    BY DEF KeysGranted
<1>1. CASE \E y \in exec \cup requests : y.task = x.task /\ y.attempt = x.attempt
    <2>1. /\ x.attempt <= attempt[x.task] /\ x.task \in Task
          /\ x.attempt \in Nat /\ attempt[x.task] \in Nat
        BY <1>1, ExecTyped, RequestTyped DEF Typed, KeysGranted, TypeOK
    <2>2. attempt'[x.task] \in {attempt[x.task], attempt[x.task] + 1}
        BY <2>1, FenceStep DEF Typed
    <2> QED BY <2>1, <2>2
<1>2. CASE /\ x.task \in Task
           /\ x.attempt = attempt[x.task] + 1 /\ attempt'[x.task] = attempt[x.task] + 1
    BY <1>2 DEF Typed, TypeOK
<1> QED BY <1>1, <1>2, KeysStep

LEMMA OneBuildStep ==
    ASSUME Typed, KeyInv, WorkerStep PROVE OneBuildPerKey'
<1> SUFFICES ASSUME NEW e \in exec', NEW f \in exec', e.task = f.task, e.attempt = f.attempt
             PROVE  e = f
    BY SameKey DEF OneBuildPerKey, KeyOf
<1>0. \A x, y \in exec : x.task = y.task /\ x.attempt = y.attempt => x = y
    BY SameKey DEF KeyInv, OneBuildPerKey
<1>1. CASE exec' \subseteq exec
    BY <1>0, <1>1
<1>2. ASSUME NEW t \in Task, NEW n \in Node, Taken(t, n) PROVE e = f
    BY <1>0, <1>2, TakenIsNew, SameKey DEF Taken, KeyInv
<1>3. ASSUME NEW n \in Node, Relabelled(n) PROVE e = f
    BY <1>0, <1>3, StoppedTyped DEF Relabelled, Typed
<1>4. ASSUME NEW x \in exec, NEW y \in Exec, Moved(x, y) PROVE e = f
    BY <1>0, <1>4 DEF Moved
<1> QED BY <1>1, <1>2, <1>3, <1>4 DEF WorkerStep, Dropped, Committed, Refused

\* A build calls once: before the call no request has its key, and after it
\* the build only waits for the answer.
LEMMA OneCallStep ==
    ASSUME Typed, KeyInv, WorkerStep PROVE OneCallPerKey'
<1> DEFINE Fits(r, e) == r.task = e.task /\ r.attempt = e.attempt => e.pc = Answer(r.kind)
<1> SUFFICES /\ \A r, q \in requests' : r.task = q.task /\ r.attempt = q.attempt => q = r
             /\ \A r \in requests', e \in exec' : Fits(r, e)
    BY SameKey DEF OneCallPerKey, KeyOf
<1>0. /\ \A r, q \in requests : r.task = q.task /\ r.attempt = q.attempt => q = r
      /\ \A r \in requests, e \in exec : Fits(r, e)
    BY SameKey DEF KeyInv, OneCallPerKey
<1> HIDE DEF Fits
<1>1. CASE exec' \subseteq exec /\ requests' \subseteq requests
    BY <1>0, <1>1
<1>2. ASSUME NEW t \in Task, NEW n \in Node, Taken(t, n)
      PROVE  requests' = requests /\ \A r \in requests', e \in exec' : Fits(r, e)
    <2>1. \A r \in requests : Fits(r, Build(t, n))
        BY TakenIsNew, SameKey DEF KeyInv, Fits
    <2> QED BY <1>0, <1>2, <2>1 DEF Taken
<1>3. ASSUME NEW n \in Node, Relabelled(n)
      PROVE  requests' = requests /\ \A r \in requests', e \in exec' : Fits(r, e)
    <2>1. ASSUME NEW r \in requests, NEW e \in exec PROVE Fits(r, Stopped(e, n))
        BY <1>0, StoppedTyped DEF Fits, Typed
    <2> QED BY <1>3, <2>1 DEF Relabelled
<1>4. ASSUME NEW x \in exec, NEW y \in Exec, Moved(x, y), ~\E kind \in {"complete", "fail"} : Calls(x, y, kind)
      PROVE  requests' = requests /\ \A r \in requests', e \in exec' : Fits(r, e)
    <2>1. requests' = requests /\ exec' = (exec \ {x}) \cup {y}
        BY <1>4 DEF Moved, Continues, Uploads, GivesUp
    <2>2. ASSUME NEW r \in requests PROVE Fits(r, y)
        <3>1. Fits(r, x) /\ y.task = x.task /\ y.attempt = x.attempt
            BY <1>0, <1>4 DEF Moved
        <3>2. y.pc = x.pc \/ x.pc \notin {"completing", "reporting"}
            BY <1>4 DEF Moved, Continues, Uploads, GivesUp
        <3> QED BY <3>1, <3>2 DEF Fits, Answer
    <2> QED BY <1>0, <2>1, <2>2
<1>5. ASSUME NEW x \in exec, NEW y \in Exec, Moved(x, y),
             NEW kind \in {"complete", "fail"}, Calls(x, y, kind)
      PROVE  /\ \A r, q \in requests' : r.task = q.task /\ r.attempt = q.attempt => q = r
             /\ \A r \in requests', e \in exec' : Fits(r, e)
    <2>1. /\ requests' = requests \cup {CallOf(x, kind)} /\ exec' = (exec \ {x}) \cup {y}
          /\ y.task = x.task /\ y.attempt = x.attempt /\ y.pc = Answer(kind)
          /\ x.pc \notin {"completing", "reporting"}
        BY <1>5 DEF Moved, Calls
    <2>2. /\ CallOf(x, kind).task = x.task /\ CallOf(x, kind).attempt = x.attempt
          /\ CallOf(x, kind).kind = kind
        BY DEF CallOf
    <2>3. ASSUME NEW r \in requests PROVE ~(r.task = x.task /\ r.attempt = x.attempt)
        BY <1>0, <2>1 DEF Fits, Answer
    <2>4. \A e \in exec \ {x} : ~(e.task = x.task /\ e.attempt = x.attempt)
        BY SameKey DEF KeyInv, OneBuildPerKey
    <2>5. \A r, q \in requests' : r.task = q.task /\ r.attempt = q.attempt => q = r
        BY <1>0, <2>1, <2>2, <2>3
    <2>6. \A r \in requests', e \in exec' : Fits(r, e)
        BY <1>0, <2>1, <2>2, <2>3, <2>4 DEF Fits
    <2> QED BY <2>5, <2>6
<1> QED BY <1>0, <1>1, <1>2, <1>3, <1>4, <1>5 DEF WorkerStep, Dropped, Committed, Refused

\* What a build that is about to complete has uploaded stays: only its own
\* goroutine deletes it, and then it no longer completes.
LEMMA UploadsStep ==
    ASSUME Typed, KeyInv, WorkerStep PROVE UploadsStored'
<1>0. /\ \A e \in exec : e.pc = "uploaded" => KeyOf(e) \in objects
      /\ \A r \in requests : r.kind = "complete" => KeyOf(r) \in objects
    BY DEF KeyInv, UploadsStored
<1>k. ASSUME NEW x \in exec, NEW y \in exec, KeyOf(x) = KeyOf(y) PROVE x = y
    BY <1>k DEF KeyInv, OneBuildPerKey
<1>1. CASE exec' \subseteq exec /\ requests' \subseteq requests /\ objects' = objects
    BY <1>0, <1>1 DEF UploadsStored
<1>2. ASSUME NEW t \in Task, NEW n \in Node, Taken(t, n) PROVE UploadsStored'
    <2>1. Build(t, n).pc = "building"
        BY DEF Build
    <2> QED BY <1>0, <1>2, <2>1 DEF Taken, UploadsStored
<1>3. ASSUME NEW n \in Node, Relabelled(n) PROVE UploadsStored'
    <2>1. ASSUME NEW e \in exec PROVE Stopped(e, n).pc = e.pc /\ KeyOf(Stopped(e, n)) = KeyOf(e)
        BY StoppedTyped, SameKey DEF Typed
    <2> QED BY <1>0, <1>3, <2>1 DEF Relabelled, UploadsStored
<1>4. ASSUME NEW x \in exec, NEW y \in Exec, Moved(x, y) PROVE UploadsStored'
    <2>0. exec' = (exec \ {x}) \cup {y} /\ KeyOf(y) = KeyOf(x)
        BY <1>4, SameKey DEF Moved
    <2>1. CASE Continues(x, y)
        BY <1>0, <2>0, <2>1 DEF Continues, UploadsStored
    <2>2. CASE Uploads(x, y)
        BY <1>0, <2>0, <2>2 DEF Uploads, UploadsStored
    <2>3. CASE GivesUp(x, y)
        <3>1. \A r \in requests : KeyOf(r) # KeyOf(x)
            BY <2>3 DEF GivesUp, KeyInv, OneCallPerKey, Answer
        <3>2. y.pc # "uploaded" /\ \A e \in exec \ {x} : KeyOf(e) # KeyOf(x)
            BY <1>k, <2>3 DEF GivesUp
        <3> QED BY <1>0, <2>0, <2>3, <3>1, <3>2 DEF GivesUp, UploadsStored
    <2>4. ASSUME NEW kind \in {"complete", "fail"}, Calls(x, y, kind) PROVE UploadsStored'
        <3>1. CallOf(x, kind).kind = kind /\ KeyOf(CallOf(x, kind)) = KeyOf(x)
            BY SameKey DEF CallOf
        <3>2. /\ requests' = requests \cup {CallOf(x, kind)} /\ objects' = objects
              /\ kind = "complete" => x.pc = "uploaded"
              /\ y.pc # "uploaded"
            BY <2>4 DEF Calls, Answer
        <3> QED BY <1>0, <2>0, <3>1, <3>2 DEF UploadsStored
    <2> QED BY <1>4, <2>1, <2>2, <2>3, <2>4 DEF Moved
<1>5. ASSUME NEW r \in requests, Refused(r) PROVE UploadsStored'
    <2>1. /\ objects' = objects \ {KeyOf(e) : e \in Callers(r)}
          /\ requests' = requests \ {r} /\ exec' = exec \ Callers(r)
        BY <1>5 DEF Refused
    <2>2. \A e \in Callers(r) : e \in exec /\ KeyOf(e) = KeyOf(r)
        BY DEF Callers, KeyOf
    <2>3. \A e \in exec' : \A c \in Callers(r) : KeyOf(e) # KeyOf(c)
        BY <1>k, <2>1, <2>2
    <2>4. \A q \in requests' : KeyOf(q) # KeyOf(r)
        BY <2>1 DEF KeyInv, OneCallPerKey
    <2>5. \A e \in exec' : e.pc = "uploaded" => KeyOf(e) \in objects'
        BY <1>0, <2>1, <2>3
    <2>6. \A q \in requests' : q.kind = "complete" => KeyOf(q) \in objects'
        BY <1>0, <2>1, <2>2, <2>4
    <2> QED BY <2>5, <2>6 DEF UploadsStored
<1> QED BY <1>1, <1>2, <1>3, <1>4, <1>5 DEF WorkerStep, Dropped, Committed

\* The committed key is the last of its task, is stored, and nobody holds it.
LEMMA CommitSettles ==
    ASSUME Typed, KeyInv, NEW r \in requests, Committed(r)
    PROVE  /\ r.task \in Task /\ artifact'[r.task] = KeyOf(r)
           /\ status'[r.task] = "success" /\ KeyOf(r) = <<r.task, attempt'[r.task]>>
           /\ KeyOf(r) \in objects'
           /\ \A x \in exec' \cup requests' : KeyOf(x) # KeyOf(r)
<1>1. r.task \in Task /\ artifact'[r.task] = KeyOf(r)
    BY RequestTyped DEF Typed, Committed, WorkerTypeOK
<1>2. KeyOf(r) = <<r.task, attempt'[r.task]>>
    BY DEF Committed, Owns, KeyOf
<1>3. KeyOf(r) \in objects'
    BY DEF Committed, KeyInv, UploadsStored
<1>4. \A q \in requests' : KeyOf(q) # KeyOf(r)
    BY DEF Committed, KeyInv, OneCallPerKey
<1>5. ASSUME NEW e \in exec', KeyOf(e) = KeyOf(r) PROVE FALSE
    <2>1. e \in exec /\ e \notin Callers(r)
        BY DEF Committed
    <2>2. e.pc = "completing"
        BY <1>5, <2>1 DEF KeyInv, OneCallPerKey, Committed, Answer
    <2>3. KeyOf(e) = <<r.task, r.attempt>>
        BY <1>5 DEF KeyOf
    <2> QED BY <2>1, <2>2, <2>3 DEF Callers
<1> QED BY <1>1, <1>2, <1>3, <1>4, <1>5 DEF Committed

\* An object goes only with a build that holds its key.
LEMMA DeletedWasHeld ==
    ASSUME Typed, WorkerStep, NEW k \in objects, k \notin objects' PROVE Held(k)
<1>1. ASSUME NEW e \in exec, NEW f \in Exec, Moved(e, f) PROVE Held(k)
    BY <1>1 DEF Moved, Continues, Uploads, GivesUp, Calls, Held
<1>2. ASSUME NEW r \in requests, Refused(r) PROVE Held(k)
    BY <1>2 DEF Refused, Callers, Held
<1> QED BY <1>1, <1>2 DEF WorkerStep, Dropped, Taken, Relabelled, Committed

\* What is committed stays as it is, whatever the other builds do.
LEMMA ArtifactsSettledStep ==
    ASSUME Typed, KeyInv, ArtifactsSettled, WorkerStep, [Next]_vars PROVE ArtifactsSettled'
<1> SUFFICES ASSUME NEW t \in Task, artifact'[t] # NoApk
             PROVE  /\ status'[t] = "success" /\ artifact'[t] = <<t, attempt'[t]>>
                    /\ artifact'[t] \in objects'
                    /\ \A x \in exec' \cup requests' : KeyOf(x) # artifact'[t]
    BY DEF ArtifactsSettled, Held, NoApk, KeyOf
<1>1. ASSUME NEW r \in requests, Committed(r), r.task = t
      PROVE  /\ status'[t] = "success" /\ artifact'[t] = <<t, attempt'[t]>>
             /\ artifact'[t] \in objects'
             /\ \A x \in exec' \cup requests' : KeyOf(x) # artifact'[t]
    BY <1>1, CommitSettles
<1>2. CASE ~\E r \in requests : Committed(r) /\ r.task = t
    <2>1. artifact'[t] = artifact[t]
        BY <1>2 DEF WorkerStep, Dropped, Taken, Relabelled, Moved, Committed, Refused,
            Typed, WorkerTypeOK
    <2>2. /\ status[t] = "success" /\ artifact[t] = <<t, attempt[t]>>
          /\ artifact[t] \in objects /\ ~Held(artifact[t])
        BY <2>1 DEF ArtifactsSettled
    <2>3. status'[t] = status[t] /\ attempt'[t] = attempt[t]
        BY <2>2, FinalStep DEF Typed, Terminal
    <2>4. artifact'[t] \in objects'
        BY <2>1, <2>2, DeletedWasHeld
    <2>5. ASSUME NEW x \in exec' \cup requests', KeyOf(x) = artifact'[t] PROVE FALSE
        <3>1. x.task = t /\ x.attempt = attempt[t]
            BY <2>1, <2>2, <2>5 DEF KeyOf
        <3>2. ~Claimable(t)
            BY <2>2, PhaseAssumption DEF Claimable, Running
        <3>3. PICK y \in exec \cup requests : y.task = t /\ y.attempt = attempt[t]
            BY <3>1, <3>2, KeysStep
        <3> QED BY <2>2, <3>3 DEF Held, KeyOf
    <2> QED BY <2>1, <2>2, <2>3, <2>4, <2>5
<1> QED BY <1>1, <1>2

LEMMA KeyInvariant == WorkerSpec => [](KeyInv /\ ArtifactsSettled)
<1>1. WorkerInit => KeyInv /\ ArtifactsSettled
    BY DEF WorkerInit, KeyInv, KeysGranted, OneBuildPerKey, OneCallPerKey, UploadsStored,
        ArtifactsSettled
<1>2. Typed /\ KeyInv /\ ArtifactsSettled /\ [WorkerNext]_allVars => (KeyInv /\ ArtifactsSettled)'
    <2> SUFFICES ASSUME Typed, KeyInv, ArtifactsSettled, [WorkerNext]_allVars
                 PROVE  (KeyInv /\ ArtifactsSettled)'
        OBVIOUS
    <2>1. WorkerStep /\ [Next]_vars
        BY EveryWorkerStep, WorkerStepIsNext DEF Typed
    <2>2. KeysGranted'
        BY <2>1, KeysGrantedStep DEF KeyInv
    <2> QED BY <2>1, <2>2, OneBuildStep, OneCallStep, UploadsStep, ArtifactsSettledStep DEF KeyInv
<1> QED BY <1>1, <1>2, WorkersTyped, PTL DEF WorkerSpec

\* The APK of a finished build is never deleted: not by the build that
\* uploaded it and lost the answer, not by one that was refused, not by one
\* that was cancelled half-way.
THEOREM CommittedApksSurvive == WorkerSpec => []ArtifactsSurvive
<1>1. ArtifactsSettled => ArtifactsSurvive
    BY DEF ArtifactsSettled, ArtifactsSurvive
<1> QED BY <1>1, KeyInvariant, PTL

\* A task that points at an APK succeeded, and the APK is of its last attempt.
THEOREM ApkOfLastAttempt == WorkerSpec => []ArtifactOfLastAttempt
<1>1. ArtifactsSettled => ArtifactOfLastAttempt
    BY DEF ArtifactsSettled, ArtifactOfLastAttempt
<1> QED BY <1>1, KeyInvariant, PTL

\* Builds of one task may run at the same time, on several nodes or twice in
\* one process, and their calls may be under way together; at most one of the
\* builds, and one of the calls, satisfies the clause every write carries.
OneHasTheTask ==
    /\ \A e, f \in exec :
        /\ e.task = f.task
        /\ Owns(e.node, e.task, e.attempt) /\ Owns(f.node, f.task, f.attempt)
        => e = f
    /\ \A q, r \in requests :
        /\ q.task = r.task
        /\ Owns(q.node, q.task, q.attempt) /\ Owns(r.node, r.task, r.attempt)
        => q = r

\* The core service never serves two builds, or two calls, of one task.
THEOREM OneBuildHasTheTask == WorkerSpec => []OneHasTheTask
<1>1. KeyInv => OneHasTheTask
    BY SameKey DEF KeyInv, OneBuildPerKey, OneCallPerKey, OneHasTheTask, Owns
<1> QED BY <1>1, KeyInvariant, PTL

-----------------------------------------------------------------------------
(***************************************************************************)
(* w.active counts task ids, not builds: a second build of the same task   *)
(* in a process shares the slot of the first, and the first to return      *)
(* frees it.  So builds may outnumber slots; but a slot is never left      *)
(* taken without a build, and the process never stops polling for nothing. *)
(***************************************************************************)
NoSlotLeaks == \A n \in Node : \A t \in active[n] : \E e \in ExecsOf(n) : e.task = t

\* So it is with every step.
LEMMA NoSlotLeaksStep ==
    ASSUME Typed, NoSlotLeaks, [WorkerNext]_allVars PROVE NoSlotLeaks'
<1> SUFFICES ASSUME NEW n \in Node PROVE \A t \in active'[n] : \E e \in ExecsOf(n)' : e.task = t
    BY DEF NoSlotLeaks
<1>0. active \in [Node -> SUBSET Task]
    BY DEF Typed, WorkerTypeOK
<1>1. CASE UNCHANGED <<exec, active>>
    BY <1>1 DEF NoSlotLeaks, ExecsOf
<1>2. ASSUME NEW m \in Node, NEW delivered \in BOOLEAN, Poll(m, delivered)
      PROVE  \A t \in active'[n] : \E e \in ExecsOf(n)' : e.task = t
    <2>1. PICK u \in Task :
             \/ exec' = exec /\ active' = active
             \/ exec' = exec \cup {Build(u, m)} /\ active' = [active EXCEPT ![m] = @ \cup {u}]
        BY <1>2, PollTakesOne
    <2>2. Build(u, m).node = m /\ Build(u, m).task = u
        BY DEF Build
    <2> QED BY <1>0, <2>1, <2>2 DEF NoSlotLeaks, ExecsOf
<1>3. ASSUME NEW m \in Node, Dies(m)
      PROVE  \A t \in active'[n] : \E e \in ExecsOf(n)' : e.task = t
    BY <1>0, <1>3 DEF Dies, NoSlotLeaks, ExecsOf
<1>4. ASSUME NEW m \in Node, ShutdownTimesOut(m)
      PROVE  \A t \in active'[n] : \E e \in ExecsOf(n)' : e.task = t
    <2>1. exec' = {Stopped(e, m) : e \in exec} /\ active' = active
        BY <1>4, Zenon DEF ShutdownTimesOut, Stopped
    <2>2. \A e \in exec : Stopped(e, m).node = e.node /\ Stopped(e, m).task = e.task
        BY StoppedTyped DEF Typed
    <2> QED BY <2>1, <2>2 DEF NoSlotLeaks, ExecsOf
<1>5. ASSUME NEW e \in exec, NEW f, Becomes(e, f), f.node = e.node, f.task = e.task
      PROVE  \A t \in active'[n] : \E x \in ExecsOf(n)' : x.task = t
    BY <1>5 DEF Becomes, NoSlotLeaks, ExecsOf
<1>6. ASSUME NEW e \in exec, NEW pc \in Pc, Goto(e, pc)
      PROVE  \A t \in active'[n] : \E x \in ExecsOf(n)' : x.task = t
    BY <1>5, <1>6, RelabelTyped DEF Goto, Typed
<1>7. ASSUME NEW e \in exec, HeartbeatFails(e)
      PROVE  \A t \in active'[n] : \E x \in ExecsOf(n)' : x.task = t
    <2>1. e \in Exec /\ Becomes(e, [e EXCEPT !.cancelled = "heartbeat"])
        BY <1>7 DEF HeartbeatFails, Typed, WorkerTypeOK
    <2>2. [e EXCEPT !.cancelled = "heartbeat"].node = e.node
          /\ [e EXCEPT !.cancelled = "heartbeat"].task = e.task
        BY <2>1 DEF Exec
    <2> QED BY <1>5, <2>1, <2>2
<1>8. ASSUME NEW e \in exec, Returns(e)
      PROVE  \A t \in active'[n] : \E x \in ExecsOf(n)' : x.task = t
    BY <1>0, <1>8, ExecTyped DEF Returns, NoSlotLeaks, ExecsOf, Typed
<1>9. ASSUME NEW r \in requests, Answered(r)
      PROVE  \A t \in active'[n] : \E x \in ExecsOf(n)' : x.task = t
    <2> SUFFICES ASSUME NEW t \in active'[n] PROVE \E x \in ExecsOf(n)' : x.task = t
        OBVIOUS
    <2>1. /\ t \in active[n] /\ exec' = exec \ Callers(r)
          /\ t \notin {e.task : e \in {c \in Callers(r) : c.node = n}}
        BY <1>9 DEF Answered
    <2>2. PICK x \in exec : x.node = n /\ x.task = t
        BY <2>1 DEF NoSlotLeaks, ExecsOf
    <2>3. x \notin Callers(r)
        BY <2>1, <2>2
    <2> QED BY <2>1, <2>2, <2>3 DEF ExecsOf
<1>a. ASSUME ProcessStep PROVE \A t \in active'[n] : \E e \in ExecsOf(n)' : e.task = t
    BY <1>1, <1>2, <1>3, <1>4, <1>a DEF ProcessStep, WorkerStarts, WorkerHeartbeat, workerVars,
        Crash, ExitWhilePolling, BeginShutdown, ShutdownEnds
<1>b. ASSUME BuildStep PROVE \A t \in active'[n] : \E e \in ExecsOf(n)' : e.task = t
    <2> PICK e \in exec :
            \/ BuildFails(e) \/ HeartbeatFails(e) \/ ReportUploading(e) \/ UploadApk(e)
            \/ UploadLogFails(e) \/ CallComplete(e) \/ CallFail(e) \/ CallUnanswered(e)
        BY <1>b DEF BuildStep
    <2>1. \/ \E pc \in Pc : Goto(e, pc)
          \/ HeartbeatFails(e) \/ Returns(e)
        BY Zenon DEF BuildFails, ReportUploading, UploadApk, UploadLogFails, CallComplete, CallFail,
            CallUnanswered, Pc
    <2> QED BY <1>6, <1>7, <1>8, <2>1
<1>c. ASSUME AnswerStep PROVE \A t \in active'[n] : \E e \in ExecsOf(n)' : e.task = t
    BY <1>9, <1>c DEF AnswerStep, ServeComplete, RefuseComplete, AbortComplete, ServeFail
<1> QED BY <1>1, <1>a, <1>b, <1>c, WorkerSteps DEF allVars, workerVars

\* Every slot a process believes to be taken has a build that runs in it.
THEOREM SlotsAreReturned == WorkerSpec => []NoSlotLeaks
<1>1. WorkerInit => NoSlotLeaks
    BY DEF WorkerInit, NoSlotLeaks
<1> QED BY <1>1, NoSlotLeaksStep, WorkersTyped, PTL DEF WorkerSpec

-----------------------------------------------------------------------------
(***************************************************************************)
(* Limits of rows are limits of builds.  A process may run a build whose   *)
(* task was given away, and a slot may outlive its build, so the number of *)
(* builds that run is bounded by nothing; but the builds whose heartbeats  *)
(* the server still answers each have a slot of their own.                 *)
(***************************************************************************)
Renewed(e) == Renews(e.node, e.task, e.attempt)

BuildsWithinLimits ==
    /\ Cardinality({e \in exec : Renewed(e)}) <= PoolMax
    /\ \A n \in Node : Cardinality({e \in ExecsOf(n) : Renewed(e)}) <= NodeMax[n]
    /\ \A p \in App : Cardinality({e \in exec : Renewed(e) /\ AppOf[e.task] = p}) <= AppMax[p]
    /\ \A x \in Tenant :
        /\ Cardinality({e \in exec : Renewed(e) /\ TenantOf[e.task] = x}) <= TenantPolicyMax[x]
        /\ EntitlementMax[x] >= 0 =>
              Cardinality({e \in exec : Renewed(e) /\ TenantOf[e.task] = x}) <= EntitlementMax[x]

\* Renewed builds are no more than the slots they are renewed with.
LEMMA RenewedHaveSlots ==
    ASSUME OneBuildPerKey, NEW E \in SUBSET exec, NEW S \in SUBSET slots, IsFiniteSet(S),
           \A e \in E : \E s \in S : s.task = e.task /\ s.attempt = e.attempt
    PROVE  \A limit \in Int : Cardinality(S) <= limit => Cardinality(E) <= limit
<1> DEFINE slot == [e \in E |-> CHOOSE s \in S : s.task = e.task /\ s.attempt = e.attempt]
<1>1. ASSUME NEW e \in E PROVE slot[e] \in S /\ slot[e].task = e.task /\ slot[e].attempt = e.attempt
    OBVIOUS
<1>2. ASSUME NEW e \in E, NEW f \in E, slot[e] = slot[f] PROVE e = f
    <2>1. e.task = f.task /\ e.attempt = f.attempt
        BY <1>1, <1>2
    <2> QED BY <2>1, SameKey DEF OneBuildPerKey
<1>3. slot \in Injection(E, S)
    <2>1. slot \in [E -> S]
        BY <1>1
    <2> QED BY <1>2, <2>1 DEF Injection, IsInjective
<1>4. /\ Cardinality(E) <= Cardinality(S)
      /\ Cardinality(E) \in Nat /\ Cardinality(S) \in Nat
    BY <1>3, FS_Injection, FS_CardinalityType
<1> QED BY <1>4

\* With cloud nodes alone, no pool, node, app or tenant ever runs more builds
\* than it may, of those whose heartbeats are answered.
THEOREM RunningWithinLimits == WorkerSpec => [](Agent = {} => BuildsWithinLimits)
<1>1. /\ WorkerSpec => []SlotsFinite /\ []TypeOK
      /\ WorkerSpec => [](Agent = {} => LimitsRespected) /\ []EntitlementWithinLimit
    BY WorkersImplementCluster, SlotsStayFinite, TypeCorrect, LimitsHold, EntitlementLimitHolds, PTL
<1>2. /\ WorkerTypeOK /\ KeyInv /\ SlotsFinite /\ (Agent = {} => LimitsRespected)
      /\ EntitlementWithinLimit
      => (Agent = {} => BuildsWithinLimits)
    <2> SUFFICES ASSUME WorkerTypeOK, KeyInv, SlotsFinite, LimitsRespected, EntitlementWithinLimit
                 PROVE  BuildsWithinLimits
        OBVIOUS
    <2>0. ASSUME NEW e \in exec, Renewed(e)
          PROVE  \E s \in slots : s.task = e.task /\ s.attempt = e.attempt /\ s.node = e.node
        BY <2>0 DEF Renewed, Renews, SlotOf
    <2>1. Cardinality({e \in exec : Renewed(e)}) <= PoolMax
        <3>1. Cardinality(slots) <= PoolMax /\ PoolMax \in Int
            BY LimitsAssumption DEF LimitsRespected, PoolWithinLimit
        <3> QED BY <2>0, <3>1, RenewedHaveSlots DEF KeyInv, SlotsFinite
    <2>2. ASSUME NEW n \in Node
          PROVE  Cardinality({e \in ExecsOf(n) : Renewed(e)}) <= NodeMax[n]
        <3> DEFINE S == {s \in slots : s.node = n}
                   E == {e \in ExecsOf(n) : Renewed(e)}
        <3>1. Cardinality(S) <= NodeMax[n] /\ NodeMax[n] \in Int
            BY LimitsAssumption DEF LimitsRespected, NodeWithinLimit, Builder
        <3>2. /\ IsFiniteSet(S) /\ E \subseteq exec
              /\ \A e \in E : \E s \in S : s.task = e.task /\ s.attempt = e.attempt
            BY <2>0, FS_Subset DEF SlotsFinite, ExecsOf
        <3> HIDE DEF E
        <3>3. Cardinality(E) <= NodeMax[n]
            BY <3>1, <3>2, RenewedHaveSlots DEF KeyInv
        <3> QED BY <3>3 DEF E
    <2>3. ASSUME NEW p \in App
          PROVE  Cardinality({e \in exec : Renewed(e) /\ AppOf[e.task] = p}) <= AppMax[p]
        <3> DEFINE S == {s \in slots : AppOf[s.task] = p}
                   E == {e \in exec : Renewed(e) /\ AppOf[e.task] = p}
        <3>1. Cardinality(S) <= AppMax[p] /\ AppMax[p] \in Int
            BY LimitsAssumption DEF LimitsRespected, AppWithinLimit
        <3>2. /\ IsFiniteSet(S) /\ E \subseteq exec
              /\ \A e \in E : \E s \in S : s.task = e.task /\ s.attempt = e.attempt
            BY <2>0, FS_Subset DEF SlotsFinite
        <3> HIDE DEF E
        <3>3. Cardinality(E) <= AppMax[p]
            BY <3>1, <3>2, RenewedHaveSlots DEF KeyInv
        <3> QED BY <3>3 DEF E
    <2>4. ASSUME NEW x \in Tenant
          PROVE  \A limit \in Int : Cardinality(SlotsOfTenant(x)) <= limit =>
                    Cardinality({e \in exec : Renewed(e) /\ TenantOf[e.task] = x}) <= limit
        <3> DEFINE E == {e \in exec : Renewed(e) /\ TenantOf[e.task] = x}
        <3>1. /\ IsFiniteSet(SlotsOfTenant(x)) /\ E \subseteq exec /\ SlotsOfTenant(x) \subseteq slots
              /\ \A e \in E : \E s \in SlotsOfTenant(x) : s.task = e.task /\ s.attempt = e.attempt
            BY <2>0, FS_Subset DEF SlotsFinite, SlotsOfTenant
        <3> HIDE DEF E
        <3>2. \A limit \in Int : Cardinality(SlotsOfTenant(x)) <= limit => Cardinality(E) <= limit
            BY <3>1, RenewedHaveSlots DEF KeyInv
        <3> QED BY <3>2 DEF E
    <2>5. ASSUME NEW x \in Tenant
          PROVE  /\ Cardinality(SlotsOfTenant(x)) <= TenantPolicyMax[x]
                 /\ EntitlementMax[x] >= 0 => Cardinality(SlotsOfTenant(x)) <= EntitlementMax[x]
                 /\ TenantPolicyMax[x] \in Int /\ EntitlementMax[x] \in Int
        BY LimitsAssumption DEF LimitsRespected, TenantWithinPolicy, EntitlementWithinLimit
    <2> QED BY <2>1, <2>2, <2>3, <2>4, <2>5 DEF BuildsWithinLimits
<1> QED BY <1>1, <1>2, WorkersTyped, KeyInvariant, PTL DEF Typed
=============================================================================
