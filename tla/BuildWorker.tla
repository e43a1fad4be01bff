---------------------------- MODULE BuildWorker ----------------------------
(***************************************************************************)
(* The builder processes (services/builder/internal/worker/worker.go) in   *)
(* front of the core service: the poll loop, the goroutine of each build,  *)
(* its upload and its report, the heartbeats, crashes, restarts and the    *)
(* graceful shutdown.  A server step below is an action of BuildCluster,   *)
(* so every behaviour is one of the cluster with a subset of its requests. *)
(*                                                                         *)
(* Calls are asynchronous: a Complete or Fail request may be served after  *)
(* its caller gave up or died, and a reply may be lost.  Object keys are   *)
(* random and used once, so <<task, attempt>> names the APK of a build;    *)
(* the log goes with it.  Preflights are not modelled.                     *)
(***************************************************************************)
EXTENDS BuildCluster

CONSTANT MaxFaults      \* bound on crashes, lost messages, stalls and signals

ASSUME FaultsAssumption == MaxFaults \in Nat

VARIABLES
    proc,       \* state of the worker process of a node
    exec,       \* running execute() calls: [task, attempt, node, pc]
    active,     \* w.active: the task ids a process believes to be running
    requests,   \* CompleteBuildTask and FailBuildTask calls not yet served
    objects,    \* APKs in the object store
    artifact,   \* apk_object_key of a task, NoApk before it completed
    faults

workerVars == <<proc, exec, active, requests, objects, artifact>>
allVars == <<vars, workerVars, faults>>

Key == Task \X (1..MaxAttempt)
NoApk == <<0, 0>>
Pc == {"building", "uploading", "uploaded", "completing", "failing", "reporting"}
Cause == {"none", "heartbeat", "shutdown"}      \* who cancelled the context
Exec == [task : Task, attempt : 1..MaxAttempt, node : Node, pc : Pc, cancelled : Cause]
Request == [kind : {"complete", "fail"}, task : Task, attempt : 1..MaxAttempt, node : Node]

WorkerInit ==
    /\ Init
    /\ proc = [n \in Node |-> "off"]
    /\ exec = {}
    /\ active = [n \in Node |-> {}]
    /\ requests = {}
    /\ objects = {}
    /\ artifact = [t \in Task |-> NoApk]
    /\ faults = 0

Fault == faults < MaxFaults /\ faults' = faults + 1
NoFault == UNCHANGED faults

KeyOf(e) == <<e.task, e.attempt>>
ExecsOf(n) == {e \in exec : e.node = n}

\* fail() is detached from the context of the build; the rest ends with it.
Cancelled(e) == e.cancelled # "none"
Cancellable(e) == ~Cancelled(e) /\ e.pc \notin {"failing", "reporting"}

\* The goroutine goes on: its record is replaced; or it returns, and
\* removeActive forgets the task id, whichever attempt it stands for.
Becomes(e, f) == exec' = (exec \ {e}) \cup {f} /\ UNCHANGED active
Goto(e, pc) == Becomes(e, [e EXCEPT !.pc = pc])
Returns(e) ==
    /\ exec' = exec \ {e}
    /\ active' = [active EXCEPT ![e.node] = @ \ {e.task}]

-----------------------------------------------------------------------------
(* The process *)

WorkerStarts(n) ==
    /\ proc[n] \in {"off", "exited"}
    /\ RegisterBuilderNode(n, FALSE)
    /\ proc' = [proc EXCEPT ![n] = "running"]
    /\ NoFault
    /\ UNCHANGED <<clusterVars, exec, active, requests, objects, artifact>>

WorkerHeartbeat(n) ==
    /\ proc[n] = "running"
    /\ BuilderNodeHeartbeat(n, FALSE)
    /\ NoFault
    /\ UNCHANGED <<clusterVars, workerVars>>

HasFreeSlot(n) == proc[n] = "running" /\ Cardinality(active[n]) < NodeMax[n]

\* One turn of the poll loop that got a task, or whose reply was lost.
Poll(n, delivered) ==
    /\ HasFreeSlot(n)
    /\ ClaimScheduledBuildTask(n)
    /\ LET granted == {t \in Task : attempt'[t] # attempt[t]}
       IN  IF delivered
           THEN /\ exec' = exec \cup {[task |-> t, attempt |-> attempt'[t], node |-> n,
                                       pc |-> "building", cancelled |-> "none"] : t \in granted}
                /\ active' = [active EXCEPT ![n] = @ \cup granted]
                /\ NoFault
           ELSE Fault /\ UNCHANGED <<exec, active>>
    /\ UNCHANGED <<proc, requests, objects, artifact>>

\* The process dies: its goroutines are gone, calls it made may still arrive.
Dies(n) ==
    /\ exec' = exec \ ExecsOf(n)
    /\ active' = [active EXCEPT ![n] = {}]
    /\ UNCHANGED <<vars, requests, objects, artifact>>

Crash(n) ==
    /\ proc[n] \in {"running", "draining"}
    /\ Fault
    /\ proc' = [proc EXCEPT ![n] = "off"]
    /\ Dies(n)

\* SIGTERM while the loop waits for the next poll: Run returns at once.
ExitWhilePolling(n) ==
    /\ HasFreeSlot(n)
    /\ Fault
    /\ proc' = [proc EXCEPT ![n] = "exited"]
    /\ Dies(n)

\* SIGTERM seen at the head of the loop: gracefulShutdown drains the node.
BeginShutdown(n) ==
    /\ proc[n] = "running"
    /\ Fault
    /\ proc' = [proc EXCEPT ![n] = "draining"]
    /\ \/ DrainBuilderNode(n, FALSE)
       \/ UNCHANGED nodeVars
    /\ UNCHANGED <<clusterVars, exec, active, requests, objects, artifact>>

ShutdownEnds(n) ==
    /\ proc[n] = "draining"
    /\ ExecsOf(n) = {}
    /\ NoFault
    /\ proc' = [proc EXCEPT ![n] = "exited"]
    /\ Dies(n)

\* Two minutes are over: cancelWork cancels the context of every build.
ShutdownTimesOut(n) ==
    /\ proc[n] = "draining"
    /\ \E e \in ExecsOf(n) : Cancellable(e)
    /\ NoFault
    /\ exec' = {IF e.node = n /\ Cancellable(e) THEN [e EXCEPT !.cancelled = "shutdown"] ELSE e :
                   e \in exec}
    /\ UNCHANGED <<vars, proc, active, requests, objects, artifact>>

-----------------------------------------------------------------------------
(* One build *)

\* A tool, a download or the build itself fails, or notices the cancelled
\* context; an upload that fails may have stored the APK all the same.
BuildFails(e) ==
    /\ e.pc \in {"building", "uploading"}
    /\ objects' \in {objects, IF e.pc = "uploading" THEN objects \cup {KeyOf(e)} ELSE objects}
    /\ Goto(e, "failing")
    /\ NoFault
    /\ UNCHANGED <<vars, proc, requests, artifact>>

\* Mutant: a refusal is taken for an answer, only a lost call cancels.
HeartbeatGetsLost(e) ==
    /\ Cancellable(e) /\ Renews(e.node, e.task, e.attempt)
    /\ Fault
    /\ Becomes(e, [e EXCEPT !.cancelled = "heartbeat"])
    /\ UNCHANGED <<vars, proc, requests, objects, artifact>>

\* A heartbeat is refused, or does not get through: the context is cancelled.
HeartbeatFails(e) ==
    /\ Cancellable(e)
    /\ IF Renews(e.node, e.task, e.attempt) THEN Fault ELSE NoFault
    /\ Becomes(e, [e EXCEPT !.cancelled = "heartbeat"])
    /\ UNCHANGED <<vars, proc, requests, objects, artifact>>

\* The progress reports; the one that matters is the last, before the upload.
ReportUploading(e) ==
    /\ e.pc = "building" /\ ~Cancelled(e)
    /\ IF Owns(e.node, e.task, e.attempt)
       THEN /\ ReportBuildProgress(e.node, e.task, e.attempt, "building")
            /\ Goto(e, "uploading")
       ELSE UNCHANGED vars /\ Goto(e, "failing")
    /\ NoFault
    /\ UNCHANGED <<proc, requests, objects, artifact>>

UploadApk(e) ==
    /\ e.pc = "uploading" /\ ~Cancelled(e)
    /\ objects' = objects \cup {KeyOf(e)}
    /\ Goto(e, "uploaded")
    /\ NoFault
    /\ UNCHANGED <<vars, proc, requests, artifact>>

\* The log upload fails: the APK is deleted unless the context is cancelled.
UploadLogFails(e) ==
    /\ e.pc = "uploaded"
    /\ IF Cancelled(e) THEN NoFault /\ UNCHANGED objects
       ELSE Fault /\ objects' = objects \ {KeyOf(e)}
    /\ Goto(e, "failing")
    /\ UNCHANGED <<vars, proc, requests, artifact>>

Call(e, kind) ==
    requests' = requests \cup {[kind |-> kind, task |-> e.task, attempt |-> e.attempt, node |-> e.node]}

CallComplete(e) ==
    /\ e.pc = "uploaded" /\ ~Cancelled(e)
    /\ Call(e, "complete")
    /\ Goto(e, "completing")
    /\ NoFault
    /\ UNCHANGED <<vars, proc, objects, artifact>>

\* fail(): sent by cancelled builds too.
CallFail(e) ==
    /\ e.pc = "failing"
    /\ Call(e, "fail")
    /\ Goto(e, "reporting")
    /\ NoFault
    /\ UNCHANGED <<vars, proc, objects, artifact>>

\* Mutant: every error of the call is taken for a lost task.
CallUnansweredDeletes(e) ==
    /\ \/ e.pc \in {"completing", "reporting"}
       \/ e.pc = "uploaded" /\ Cancelled(e)
    /\ IF Cancelled(e) /\ e.pc # "reporting" THEN NoFault ELSE Fault
    /\ Returns(e)
    /\ objects' = objects \ {KeyOf(e)}
    /\ UNCHANGED <<vars, proc, requests, artifact>>

\* The call ends without an answer that settles who owns the task: deadline,
\* lost reply, or the context of a completion cancelled.  Nothing is deleted
\* and nothing is reported.
CallUnanswered(e) ==
    /\ \/ e.pc \in {"completing", "reporting"}
       \/ e.pc = "uploaded" /\ Cancelled(e)
    /\ IF Cancelled(e) /\ e.pc # "reporting" THEN NoFault ELSE Fault
    /\ Returns(e)
    /\ UNCHANGED <<vars, proc, requests, objects, artifact>>

-----------------------------------------------------------------------------
(* The core service answers *)

Callers(r) == {e \in exec : e.pc \in {"completing", "reporting"} /\ KeyOf(e) = <<r.task, r.attempt>>}

Answered(r) ==
    /\ requests' = requests \ {r}
    /\ exec' = exec \ Callers(r)
    /\ active' = [n \in Node |-> active[n] \ {e.task : e \in {c \in Callers(r) : c.node = n}}]
    /\ UNCHANGED proc

ServeComplete(r) ==
    /\ r.kind = "complete"
    /\ CompleteBuildTask(r.node, r.task, r.attempt, FALSE)
    /\ artifact' = [artifact EXCEPT ![r.task] = <<r.task, r.attempt>>]
    /\ Answered(r)
    /\ NoFault
    /\ UNCHANGED objects

\* NotFound or FailedPrecondition is definitive: a caller that is still
\* there deletes what it uploaded.
RefuseComplete(r) ==
    /\ r.kind = "complete"
    /\ ~Owns(r.node, r.task, r.attempt) \/ ~subscribed[TenantOf[r.task]]
    /\ objects' = objects \ {KeyOf(e) : e \in Callers(r)}
    /\ Answered(r)
    /\ NoFault
    /\ UNCHANGED <<vars, artifact>>

\* The storage quota is used up, the database fails, or nobody waits for the
\* answer any more and the transaction is cancelled: not definitive.
AbortComplete(r) ==
    /\ r.kind = "complete"
    /\ IF Callers(r) = {} THEN NoFault ELSE Fault
    /\ Answered(r)
    /\ UNCHANGED <<vars, objects, artifact>>

ServeFail(r) ==
    /\ r.kind = "fail"
    /\ \/ \E withLog \in BOOLEAN : FailBuildTask(r.node, r.task, r.attempt, withLog) /\ NoFault
       \/ ~(Owns(r.node, r.task, r.attempt) /\ subscribed[TenantOf[r.task]]) /\ NoFault /\ UNCHANGED vars
       \/ Fault /\ UNCHANGED vars
    /\ Answered(r)
    /\ UNCHANGED <<objects, artifact>>

-----------------------------------------------------------------------------
(* Users, operators and time *)

\* Somebody heartbeats for the current attempt of t.
Kept(t) == \E e \in exec : e.task = t /\ e.attempt = attempt[t] /\ ~Cancelled(e)

\* A lease that is kept passes only when its heartbeats stall for all of it.
LeasePasses(t) ==
    /\ TaskLeasePasses(t)
    /\ IF Kept(t) THEN Fault ELSE NoFault

SlotPasses(s) ==
    /\ SlotLeasePasses(s)
    /\ IF s.attempt = attempt[s.task] /\ Kept(s.task) THEN Fault ELSE NoFault

\* An operator lets a restarted node work again.
Undrain(n) == proc[n] = "running" /\ DrainBuilderNode(n, TRUE) /\ UNCHANGED clusterVars

Outside ==
    \/ \E t \in Task : LeasePasses(t)
    \/ \E s \in slots : SlotPasses(s)
    \/ /\ NoFault
       /\ \/ \E t \in Task : CreateBuildTask(t) \/ CancelBuildTask(t) \/ ReservationExpires(t)
          \/ \E t, source \in Task : RetryBuildTask(t, source)
          \/ \E x \in Tenant : ChangeSubscription(x)
          \/ \E n \in Node :
                \/ Undrain(n)
                \/ (HeartbeatGoesStale(n) \/ ClaimFromStaleNode(n)) /\ UNCHANGED clusterVars

WorkerNext ==
    \/ \E n \in Node :
        \/ WorkerStarts(n) \/ WorkerHeartbeat(n)
        \/ \E delivered \in BOOLEAN : Poll(n, delivered)
        \/ Crash(n) \/ ExitWhilePolling(n)
        \/ BeginShutdown(n) \/ ShutdownEnds(n) \/ ShutdownTimesOut(n)
    \/ \E e \in exec :
        \/ BuildFails(e) \/ HeartbeatFails(e) \/ ReportUploading(e) \/ UploadApk(e)
        \/ UploadLogFails(e) \/ CallComplete(e) \/ CallFail(e) \/ CallUnanswered(e)
    \/ \E r \in requests : ServeComplete(r) \/ RefuseComplete(r) \/ AbortComplete(r) \/ ServeFail(r)
    \/ Outside /\ UNCHANGED workerVars

WorkerSpec == WorkerInit /\ [][WorkerNext]_allVars

(***************************************************************************)
(* Goroutines are scheduled, calls are served, processes are restarted and *)
(* poll, operators undrain them, and abandoned leases pass.  The tools,    *)
(* uploads and calls of a build that lost its task need not get anywhere:  *)
(* only its heartbeats go on, which a timer of their own sends three times *)
(* in a lease, and whatever heeds the context once it is cancelled.        *)
(***************************************************************************)
Works(e) ==
    \/ /\ Owns(e.node, e.task, e.attempt)
       /\ ReportUploading(e) \/ UploadApk(e) \/ CallComplete(e)
    \/ HeartbeatFails(e) /\ ~Renews(e.node, e.task, e.attempt)
    \/ Cancelled(e) /\ (BuildFails(e) \/ CallUnanswered(e))
    \/ CallFail(e)

Answers(r) == ServeComplete(r) \/ RefuseComplete(r) \/ AbortComplete(r) \/ ServeFail(r)

WorkerFairness ==
    /\ \A n \in Node :
        /\ WF_allVars(WorkerStarts(n))
        /\ WF_allVars(WorkerHeartbeat(n) /\ ~fresh[n])
        /\ WF_allVars(Poll(n, TRUE))
        /\ WF_allVars(ShutdownEnds(n))
        /\ WF_allVars(Undrain(n) /\ NoFault /\ UNCHANGED workerVars)
    /\ WF_allVars(\E e \in exec : Works(e))
    /\ WF_allVars(\E r \in requests : Answers(r))
    /\ \A t \in Task : WF_allVars(LeasePasses(t) /\ UNCHANGED <<workerVars, faults>>)
    /\ WF_allVars(\E s \in slots : SlotPasses(s) /\ UNCHANGED <<workerVars, faults>>)

WorkerFairSpec == WorkerSpec /\ WorkerFairness

-----------------------------------------------------------------------------
(* Properties *)

\* The APK of a finished build is in the store: no worker, whatever it
\* believes about its own call, deletes what was committed (worker.go:886).
ArtifactsSurvive == \A t \in Task : artifact[t] # NoApk => artifact[t] \in objects

\* The APK a task points at is the one of the attempt that was current when
\* the task ended, so of the build the log and the charge belong to.
ArtifactOfLastAttempt ==
    \A t \in Task : artifact[t] # NoApk =>
        status[t] = "success" /\ artifact[t] = <<t, attempt[t]>>

\* Interrupted nodes give their tasks back: every task of the queue ends,
\* through crashes, lost calls, stalled heartbeats and shutdowns (V4
\* specification 11.9).
EveryBuildEnds == \A t \in Task : status[t] = "pending" ~> status[t] \in Terminal

\* A build that lost its task notices it and stops (V4 specification 11.5): its
\* tools know nothing of it and may run for ever, so it must be the refused
\* heartbeat that cancels the context they and the calls are bound to.
FencedBuildsStop ==
    \A k \in Key :
        LET Fenced == \E e \in exec : KeyOf(e) = k /\ ~Owns(e.node, e.task, e.attempt)
        IN  Fenced ~> ~Fenced
=============================================================================
