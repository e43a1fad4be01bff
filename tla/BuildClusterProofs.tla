------------------------ MODULE BuildClusterProofs ------------------------
(***************************************************************************)
(* Theorems about BuildCluster for every set of tasks, tenants, builders,  *)
(* limits and plans.                                                       *)
(***************************************************************************)
EXTENDS BuildCluster, TLAPS, FiniteSetTheorems

-----------------------------------------------------------------------------
\* The operations on builder nodes keep the rows of t_builder_node well-typed.
LEMMA NodeTypeStep ==
    ASSUME NodeTypeOK, NodeNext PROVE NodeTypeOK'
<1> USE MaxNodeEventsAssumption DEF NodeTypeOK, NodeStatus, Bounded
<1> PICK n \in Node :
        \/ \E low \in BOOLEAN : RegisterBuilderNode(n, low) \/ BuilderNodeHeartbeat(n, low)
        \/ \E mode \in BOOLEAN : DrainBuilderNode(n, mode)
        \/ RecoverBuilderNode(n)
        \/ ClaimFromStaleNode(n)
        \/ HeartbeatGoesStale(n)
    BY DEF NodeNext
<1>1. ASSUME NEW low \in BOOLEAN, RegisterBuilderNode(n, low) PROVE NodeTypeOK'
    BY <1>1 DEF RegisterBuilderNode
<1>2. ASSUME NEW low \in BOOLEAN, BuilderNodeHeartbeat(n, low) PROVE NodeTypeOK'
    BY <1>2 DEF BuilderNodeHeartbeat
<1>3. ASSUME NEW mode \in BOOLEAN, DrainBuilderNode(n, mode) PROVE NodeTypeOK'
    BY <1>3 DEF DrainBuilderNode
<1>4. CASE RecoverBuilderNode(n)
    BY <1>4 DEF RecoverBuilderNode
<1>5. CASE ClaimFromStaleNode(n)
    BY <1>5 DEF ClaimFromStaleNode
<1>6. CASE HeartbeatGoesStale(n)
    BY <1>6 DEF HeartbeatGoesStale
<1> QED BY <1>1, <1>2, <1>3, <1>4, <1>5, <1>6

-----------------------------------------------------------------------------
\* Whoever claims, the task that is granted was waiting or had lost its lease.
LEMMA ScheduledClaimGrants ==
    ASSUME NEW n \in Node, ClaimScheduledBuildTask(n)
    PROVE  \E t \in Task : Claimable(t) /\ Grant(t, n) /\ subscribed[TenantOf[t]]
BY DEF ClaimScheduledBuildTask, FirstOf, Servable, Candidates, Head, Backlog

\* The same for a local agent.
LEMMA AgentClaimGrants ==
    ASSUME NEW b \in Agent, ClaimLocalAgentBuildTask(b)
    PROVE  \E t \in Task : Claimable(t) /\ Grant(t, b) /\ subscribed[TenantOf[t]]
BY DEF ClaimLocalAgentBuildTask, FirstOf, AgentHead, Head, Backlog

\* Confirming a reservation, or skipping it, keeps both billing tables typed.
LEMMA ConfirmQuotaTypes ==
    ASSUME TypeOK, NEW t \in Task, ConfirmQuota(t)
    PROVE  /\ resv' \in [Task -> Reservation]
           /\ ledger' \in SUBSET (Task \X Entry)
BY DEF TypeOK, ConfirmQuota, Reservation, Entry, billVars

\* The rows a claim writes are well-typed, whoever claims.
LEMMA GrantTypes ==
    ASSUME TypeOK, NEW t \in Task, NEW b \in Builder, Grant(t, b)
    PROVE  /\ status' \in [Task -> TaskStatus]
           /\ attempt' \in [Task -> Nat]
           /\ builder' \in [Task -> Builder \cup {NoBuilder}]
           /\ leased' \in [Task -> BOOLEAN]
           /\ slots' \in SUBSET Slot
           /\ resv' \in [Task -> Reservation]
           /\ ledger' \in SUBSET (Task \X Entry)
<1>1. ConfirmQuota(t)
    BY DEF Grant
<1>2. [task |-> t, attempt |-> attempt[t] + 1, node |-> b] \in Slot
    BY DEF TypeOK, Slot
<1>3. status' \in [Task -> TaskStatus]
    BY PhaseAssumption DEF Grant, TypeOK, TaskStatus
<1> QED BY <1>1, <1>2, <1>3, ConfirmQuotaTypes DEF Grant, TypeOK

\* The owner of a task ends it, whichever transaction it calls.
Closes(b, t, a, outcome, entries) ==
    /\ Owns(b, t, a)
    /\ Finish(t, a, outcome, entries)
    /\ "succeeded" \in entries => outcome = "success"
    /\ "refund" \in entries => ~Uncharged(t)

\* Nodes, V1 builders and local agents report progress or end their task.
LEMMA BuilderRequestForms ==
    ASSUME BuilderRequests
    PROVE  \E b \in Builder, t \in Task, a \in 1..MaxAttempt :
            \/ \E phase \in Phase : ReportBuildProgress(b, t, a, phase)
            \/ \E outcome \in {"success", "failed"}, entries \in SUBSET {"succeeded", "refund"} :
                    Closes(b, t, a, outcome, entries)
<1> PICK t \in Task, a \in 1..MaxAttempt :
        \/ \E b \in Builder, phase \in Phase : ReportBuildProgress(b, t, a, phase)
        \/ \E b \in Builder, cacheHit \in BOOLEAN : Succeeds(b, t, a, cacheHit)
        \/ \E b \in Builder : Fails(b, t, a)
    BY DEF BuilderRequests, Builder, CompleteBuildTask, FailBuildTask,
        CompleteLocalAgentBuildTask, FailLocalAgentBuildTask
<1>1. ASSUME NEW b \in Builder, NEW cacheHit \in BOOLEAN, Succeeds(b, t, a, cacheHit)
      PROVE  \E entries \in SUBSET {"succeeded", "refund"} : Closes(b, t, a, "success", entries)
    <2> DEFINE entries == {"succeeded"} \cup Refund(t, ~cacheHit \/ plan.chargeCacheHit)
    <2>1. entries \in SUBSET {"succeeded", "refund"} /\ ("refund" \in entries => ~Uncharged(t))
        BY DEF Refund
    <2>2. Closes(b, t, a, "success", entries)
        BY <1>1, <2>1 DEF Succeeds, Closes
    <2> QED BY <2>1, <2>2
<1>2. ASSUME NEW b \in Builder, Fails(b, t, a)
      PROVE  \E entries \in SUBSET {"succeeded", "refund"} : Closes(b, t, a, "failed", entries)
    <2> DEFINE entries == Refund(t, plan.chargeFailed)
    <2>1. entries \in SUBSET {"refund"} /\ ("refund" \in entries => ~Uncharged(t))
        BY DEF Refund
    <2>2. Closes(b, t, a, "failed", entries)
        BY <1>2, <2>1 DEF Fails, Closes
    <2> QED BY <2>1, <2>2
<1> QED BY <1>1, <1>2

\* The rows the end of a build writes are well-typed, whatever its outcome.
LEMMA FinishTypes ==
    ASSUME TypeOK, NEW t \in Task, NEW a \in Nat, NEW outcome \in Terminal,
           NEW entries \in SUBSET Entry, Finish(t, a, outcome, entries)
    PROVE  TypeOK'
<1>1. status' \in [Task -> TaskStatus]
    BY DEF Finish, TypeOK, TaskStatus
<1>2. ledger' \in SUBSET (Task \X Entry)
    BY DEF Finish, TypeOK
<1>3. NodeTypeOK'
    BY DEF Finish, TypeOK, NodeTypeOK, nodeVars
<1> QED BY <1>1, <1>2, <1>3 DEF Finish, TypeOK, envVars, SlotOf

\* Creating, retrying, cancelling and claiming keep every column typed.
LEMMA RequestTypes ==
    ASSUME TypeOK, Requests PROVE TypeOK'
<1> USE DEF TaskStatus, Reservation, nodeVars, envVars, billVars
<1>n. ASSUME UNCHANGED nodeVars PROVE NodeTypeOK'
    BY <1>n DEF TypeOK, NodeTypeOK
<1>1. ASSUME NEW t \in Task, CreateBuildTask(t) PROVE TypeOK'
    BY <1>1, <1>n DEF CreateBuildTask, TypeOK
<1>2. ASSUME NEW t \in Task, CancelBuildTask(t) PROVE TypeOK'
    BY <1>2, <1>n DEF CancelBuildTask, ReleaseQuota, TypeOK, SlotOf, Terminal
<1>3. ASSUME NEW t \in Task, NEW source \in Task, RetryBuildTask(t, source) PROVE TypeOK'
    BY <1>3, <1>n DEF RetryBuildTask, TypeOK
<1>4. ASSUME NEW n \in Node, ClaimScheduledBuildTask(n) PROVE TypeOK'
    <2>1. PICK t \in Task : Grant(t, n)
        BY <1>4, ScheduledClaimGrants
    <2>2. virtualFinish' \in [Tenant -> Nat]
        <3>1. PICK x \in Servable(n) :
                    virtualFinish' = [virtualFinish EXCEPT ![x] = @ + FairCost[x]]
            BY <1>4 DEF ClaimScheduledBuildTask
        <3>2. x \in Tenant
            BY DEF Servable, QueueHead
        <3>3. FairCost[x] \in Nat
            BY <3>2, QueueAssumption
        <3> QED BY <3>1, <3>2, <3>3 DEF TypeOK
    <2>3. UNCHANGED <<nodeVars, retryOf, envVars>>
        BY <1>4 DEF ClaimScheduledBuildTask
    <2> QED BY <1>n, <2>1, <2>2, <2>3, GrantTypes DEF TypeOK, Builder
<1>5. ASSUME NEW b \in Agent, ClaimLocalAgentBuildTask(b) PROVE TypeOK'
    <2>1. PICK t \in Task : Grant(t, b)
        BY <1>5, AgentClaimGrants
    <2>2. UNCHANGED <<nodeVars, retryOf, virtualFinish, envVars>>
        BY <1>5 DEF ClaimLocalAgentBuildTask
    <2> QED BY <1>n, <2>1, <2>2, GrantTypes DEF TypeOK, Builder
<1>6. ASSUME NEW b \in Legacy, ClaimBuildTask(b) PROVE TypeOK'
    BY <1>6, <1>n, PhaseAssumption DEF ClaimBuildTask, FirstOf, TypeOK, Builder
<1> QED BY <1>1, <1>2, <1>3, <1>4, <1>5, <1>6 DEF Requests

\* So do the requests of builders: progress, completion and failure.
LEMMA BuilderRequestTypes ==
    ASSUME TypeOK, BuilderRequests PROVE TypeOK'
<1> PICK b \in Builder, t \in Task, a \in 1..MaxAttempt :
        \/ \E phase \in Phase : ReportBuildProgress(b, t, a, phase)
        \/ \E outcome \in {"success", "failed"}, entries \in SUBSET {"succeeded", "refund"} :
                Closes(b, t, a, outcome, entries)
    BY BuilderRequestForms
<1>1. ASSUME NEW phase \in Phase, ReportBuildProgress(b, t, a, phase) PROVE TypeOK'
    BY <1>1 DEF ReportBuildProgress, TypeOK, NodeTypeOK, nodeVars, envVars, billVars, TaskStatus
<1>2. ASSUME NEW outcome \in {"success", "failed"}, NEW entries \in SUBSET {"succeeded", "refund"},
             Closes(b, t, a, outcome, entries)
      PROVE  TypeOK'
    BY <1>2, BoundsAssumption, FinishTypes DEF Closes, Terminal, Entry
<1> QED BY <1>1, <1>2

\* So do lapsing leases, expiring reservations and billing events.
LEMMA EnvironmentTypes ==
    ASSUME TypeOK, Environment PROVE TypeOK'
<1> USE DEF TypeOK, NodeTypeOK, nodeVars, envVars, billVars, taskVars
<1>1. ASSUME NEW t \in Task, TaskLeasePasses(t) PROVE TypeOK'
    BY <1>1 DEF TaskLeasePasses
<1>2. ASSUME NEW t \in Task, ReservationExpires(t) PROVE TypeOK'
    BY <1>2, BoundsAssumption DEF ReservationExpires, BillingEvent, Reservation
<1>3. ASSUME NEW s \in slots, SlotLeasePasses(s) PROVE TypeOK'
    BY <1>3 DEF SlotLeasePasses
<1>4. ASSUME NEW x \in Tenant, ChangeSubscription(x) PROVE TypeOK'
    BY <1>4, BoundsAssumption DEF ChangeSubscription, BillingEvent
<1>5. CASE ChangePlan
    BY <1>5, BoundsAssumption DEF ChangePlan, BillingEvent
<1> QED BY <1>1, <1>2, <1>3, <1>4, <1>5 DEF Environment

\* So does every step.
LEMMA TypeStep == TypeOK /\ [Next]_vars => TypeOK'
<1> SUFFICES ASSUME TypeOK, [Next]_vars PROVE TypeOK'
    OBVIOUS
<1>1. ASSUME NodeNext, UNCHANGED clusterVars PROVE TypeOK'
    BY <1>1, NodeTypeStep DEF TypeOK, clusterVars, taskVars, billVars, envVars
<1>2. CASE UNCHANGED vars
    BY <1>2 DEF vars, nodeVars, clusterVars, taskVars, billVars, envVars, TypeOK, NodeTypeOK
<1> QED BY <1>1, <1>2, RequestTypes, BuilderRequestTypes, EnvironmentTypes DEF Next

\* Every column keeps its type under every handler and every event.
THEOREM TypeCorrect == Spec => []TypeOK
<1>1. Init => TypeOK
    BY MaxNodeEventsAssumption, BoundsAssumption
    DEF Init, NodeInit, TypeOK, NodeTypeOK, NodeStatus, TaskStatus, Reservation
<1> QED BY <1>1, TypeStep, PTL DEF Spec

-----------------------------------------------------------------------------
(***************************************************************************)
(* SlotsMatchTasks is inductive over TypeOK: rows of a task are numbered   *)
(* by past grants, every grant and every cancellation moves the attempt    *)
(* past all of them, and the handlers that end a build delete the row of   *)
(* the current attempt.                                                    *)
(***************************************************************************)

\* The parts of SlotsMatchTasks that speak of a single row.
SlotFits(s) ==
    /\ s.attempt \in 1..attempt[s.task]
    /\ s.attempt = attempt[s.task] => Running(s.task) /\ builder[s.task] = s.node
    /\ status[s.task] = "cancelled" => s.attempt < attempt[s.task] - 1

\* A row of slots names a task, an attempt and a builder.
LEMMA SlotTyped ==
    ASSUME TypeOK, NEW s \in slots
    PROVE  s.task \in Task /\ s.attempt \in Nat /\ s.node \in Builder
BY DEF TypeOK, Slot

\* The row of a new grant carries an attempt no other row of the task has.
LEMMA GrantKeepsSlots ==
    ASSUME TypeOK, SlotsMatchTasks, NEW t \in Task, NEW b \in Builder, Grant(t, b)
    PROVE  SlotsMatchTasks'
<1>0. PICK new \in Slot : new = [task |-> t, attempt |-> attempt[t] + 1, node |-> b]
    <2>1. attempt[t] + 1 \in Nat
        BY DEF TypeOK
    <2>2. [task |-> t, attempt |-> attempt[t] + 1, node |-> b] \in Slot
        BY <2>1 DEF Slot
    <2> QED BY <2>2, Zenon
<1>1. /\ slots' = slots \cup {new}
      /\ attempt' = [attempt EXCEPT ![t] = @ + 1]
      /\ status' = [status EXCEPT ![t] = "building"]
      /\ builder' = [builder EXCEPT ![t] = b]
    BY <1>0 DEF Grant
<1>2. /\ attempt \in [Task -> Nat]
      /\ status \in [Task -> TaskStatus]
      /\ builder \in [Task -> Builder \cup {NoBuilder}]
    BY DEF TypeOK
<1>3. SlotFits(new)'
    <2>1. /\ new.task = t /\ new.attempt = attempt'[t] /\ new.node = builder'[t]
          /\ attempt'[t] \in Nat \ {0}
          /\ status'[t] \in Phase /\ status'[t] # "cancelled"
        BY <1>0, <1>1, <1>2, PhaseAssumption
    <2> QED BY <2>1 DEF SlotFits, Running
<1>4. ASSUME NEW s \in slots PROVE SlotFits(s)' /\ (s.task = t => s.attempt # new.attempt)
    <2>1. SlotFits(s) /\ s.task \in Task /\ s.attempt \in Nat
        BY SlotTyped DEF SlotsMatchTasks, SlotFits
    <2>2. CASE s.task = t
        BY <1>0, <1>1, <1>2, <2>1, <2>2, PhaseAssumption DEF SlotFits, Running
    <2>3. CASE s.task # t
        BY <1>1, <1>2, <2>1, <2>3 DEF SlotFits, Running
    <2> QED BY <2>2, <2>3
<1>5. \A s \in slots' : SlotFits(s)'
    BY <1>1, <1>3, <1>4
<1>6. \A r, s \in slots' : r.task = s.task /\ r.attempt = s.attempt => r = s
    <2> SUFFICES ASSUME NEW r \in slots', NEW s \in slots', r.task = s.task, r.attempt = s.attempt
                 PROVE  r = s
        OBVIOUS
    <2>1. CASE r \in slots /\ s \in slots
        BY <2>1 DEF SlotsMatchTasks
    <2>2. CASE r = new /\ s = new
        BY <2>2
    <2>3. CASE r = new /\ s \in slots
        <3>1. r.attempt = new.attempt /\ s.task = t
            BY <1>0, <2>3
        <3> QED BY <1>4, <2>3, <3>1
    <2>4. CASE r \in slots /\ s = new
        <3>1. s.attempt = new.attempt /\ r.task = t
            BY <1>0, <2>4
        <3> QED BY <1>4, <2>4, <3>1
    <2> QED BY <1>1, <2>1, <2>2, <2>3, <2>4
<1> QED BY <1>5, <1>6 DEF SlotsMatchTasks, SlotFits

\* A step that takes rows away, and moves no row's task out from under it.
LEMMA FewerSlots ==
    ASSUME TypeOK, SlotsMatchTasks, slots' \subseteq slots,
           \A s \in slots' : SlotFits(s) => SlotFits(s)'
    PROVE  SlotsMatchTasks'
BY DEF SlotsMatchTasks, SlotFits

\* A row still fits when its task did not change.
LEMMA RowUnchanged ==
    ASSUME UNCHANGED <<status, attempt, builder>>, NEW s, SlotFits(s)
    PROVE  SlotFits(s)'
BY DEF SlotFits, Running

\* Ending a build deletes the row of its attempt and leaves the older ones.
LEMMA FinishKeepsSlots ==
    ASSUME TypeOK, SlotsMatchTasks, NEW t \in Task, NEW outcome \in {"success", "failed"},
           NEW entries, Finish(t, attempt[t], outcome, entries)
    PROVE  SlotsMatchTasks'
<1>1. slots' = slots \ SlotOf(t, attempt[t]) /\ UNCHANGED <<attempt, builder>>
      /\ status' = [status EXCEPT ![t] = outcome]
    BY DEF Finish
<1>2. ASSUME NEW s \in slots', SlotFits(s) PROVE SlotFits(s)'
    <2>1. s \in slots /\ s.task \in Task /\ ~(s.task = t /\ s.attempt = attempt[t])
        BY <1>1, SlotTyped DEF SlotOf
    <2> QED BY <1>1, <1>2, <2>1 DEF SlotFits, Running, TypeOK
<1> QED BY <1>1, <1>2, FewerSlots

\* Cancelling deletes that row too and moves the attempt past all others.
LEMMA CancelKeepsSlots ==
    ASSUME TypeOK, SlotsMatchTasks, NEW t \in Task, CancelBuildTask(t)
    PROVE  SlotsMatchTasks'
<1>1. /\ slots' = slots \ SlotOf(t, attempt[t])
      /\ attempt' = [attempt EXCEPT ![t] = @ + 1]
      /\ status' = [status EXCEPT ![t] = "cancelled"]
      /\ UNCHANGED builder
    BY DEF CancelBuildTask, ReleaseQuota
<1>2. ASSUME NEW s \in slots', SlotFits(s) PROVE SlotFits(s)'
    <2>1. s \in slots /\ s.task \in Task /\ s.attempt \in Nat
          /\ ~(s.task = t /\ s.attempt = attempt[t])
        BY <1>1, SlotTyped DEF SlotOf
    <2>2. CASE s.task = t
        BY <1>1, <1>2, <2>1, <2>2 DEF SlotFits, Running, TypeOK
    <2>3. CASE s.task # t
        BY <1>1, <1>2, <2>1, <2>3 DEF SlotFits, Running, TypeOK
    <2> QED BY <2>2, <2>3
<1> QED BY <1>1, <1>2, FewerSlots

\* The slots that are counted are those of past grants, at most one of them
\* for the build that runs, with the right builder, and none for a task that ended.
THEOREM SlotsMatch == Spec => []SlotsMatchTasks
<1>1. Init => SlotsMatchTasks
    BY DEF Init, SlotsMatchTasks
<1>2. TypeOK /\ SlotsMatchTasks /\ [Next]_vars => SlotsMatchTasks'
    <2> SUFFICES ASSUME TypeOK, SlotsMatchTasks, [Next]_vars PROVE SlotsMatchTasks'
        OBVIOUS
    <2>s. ASSUME slots' \subseteq slots, UNCHANGED <<status, attempt, builder>>
          PROVE  SlotsMatchTasks'
        BY <2>s, FewerSlots, RowUnchanged
    <2>1. ASSUME NEW t \in Task, CreateBuildTask(t) PROVE SlotsMatchTasks'
        <3>1. slots' = slots /\ UNCHANGED <<attempt, builder>>
              /\ status[t] = "none" /\ status' = [status EXCEPT ![t] = "pending"]
            BY <2>1 DEF CreateBuildTask, NextId
        <3>2. ASSUME NEW s \in slots', SlotFits(s) PROVE SlotFits(s)'
            BY <3>1, <3>2, SlotTyped, PhaseAssumption DEF SlotFits, Running, TypeOK
        <3> QED BY <3>1, <3>2, FewerSlots
    <2>2. ASSUME NEW t \in Task, NEW source \in Task, RetryBuildTask(t, source)
          PROVE  SlotsMatchTasks'
        <3>1. slots' = slots /\ UNCHANGED <<attempt, builder>>
              /\ status[t] = "none" /\ status' = [status EXCEPT ![t] = "pending"]
            BY <2>2 DEF RetryBuildTask, NextId
        <3>2. ASSUME NEW s \in slots', SlotFits(s) PROVE SlotFits(s)'
            BY <3>1, <3>2, SlotTyped, PhaseAssumption DEF SlotFits, Running, TypeOK
        <3> QED BY <3>1, <3>2, FewerSlots
    <2>3. ASSUME NEW t \in Task, CancelBuildTask(t) PROVE SlotsMatchTasks'
        BY <2>3, CancelKeepsSlots
    <2>4. ASSUME NEW n \in Node, ClaimScheduledBuildTask(n) PROVE SlotsMatchTasks'
        BY <2>4, ScheduledClaimGrants, GrantKeepsSlots DEF Builder
    <2>5. ASSUME NEW b \in Agent, ClaimLocalAgentBuildTask(b) PROVE SlotsMatchTasks'
        BY <2>5, AgentClaimGrants, GrantKeepsSlots DEF Builder
    <2>6. ASSUME NEW b \in Legacy, ClaimBuildTask(b) PROVE SlotsMatchTasks'
        <3>1. PICK t \in Task :
                /\ status' = [status EXCEPT ![t] = "building"]
                /\ attempt' = [attempt EXCEPT ![t] = @ + 1]
                /\ builder' = [builder EXCEPT ![t] = b]
                /\ slots' = slots
            BY <2>6 DEF ClaimBuildTask, FirstOf
        <3>2. ASSUME NEW s \in slots', SlotFits(s) PROVE SlotFits(s)'
            BY <3>1, <3>2, SlotTyped, PhaseAssumption DEF SlotFits, Running, TypeOK
        <3> QED BY <3>1, <3>2, FewerSlots
    <2>7. ASSUME NEW b \in Builder, NEW t \in Task, NEW a \in 1..MaxAttempt, NEW phase \in Phase,
                 ReportBuildProgress(b, t, a, phase)
          PROVE  SlotsMatchTasks'
        <3>1. slots' = slots /\ UNCHANGED <<attempt, builder>>
              /\ status' = [status EXCEPT ![t] = phase]
            BY <2>7 DEF ReportBuildProgress
        <3>2. ASSUME NEW s \in slots', SlotFits(s) PROVE SlotFits(s)'
            BY <3>1, <3>2, SlotTyped, PhaseAssumption DEF SlotFits, Running, TypeOK
        <3> QED BY <3>1, <3>2, FewerSlots
    <2>8. ASSUME NEW b \in Builder, NEW t \in Task, NEW a \in 1..MaxAttempt,
                 NEW outcome \in {"success", "failed"}, NEW entries \in SUBSET {"succeeded", "refund"},
                 Closes(b, t, a, outcome, entries)
          PROVE  SlotsMatchTasks'
        BY <2>8, FinishKeepsSlots DEF Closes, Owns
    <2>10. CASE Environment
        BY <2>10, <2>s DEF Environment, TaskLeasePasses, ReservationExpires, SlotLeasePasses,
            ChangeSubscription, ChangePlan, taskVars
    <2>11. ASSUME UNCHANGED clusterVars PROVE SlotsMatchTasks'
        BY <2>11, <2>s DEF clusterVars, taskVars
    <2>12. CASE UNCHANGED vars
        BY <2>11, <2>12 DEF vars
    <2> QED
        BY <2>1, <2>2, <2>3, <2>4, <2>5, <2>6, <2>7, <2>8, <2>10, <2>11, <2>12, BuilderRequestForms
        DEF Next, Requests
<1> QED BY <1>1, <1>2, TypeCorrect, PTL DEF Spec

-----------------------------------------------------------------------------
(***************************************************************************)
(* What a step does to the rows of t_build_task: at most one row changes,  *)
(* in one of five ways.  The action properties and the refinement follow   *)
(* from this classification.                                               *)
(***************************************************************************)

Charged == {t \in Task : <<t, "started">> \in ledger}

Row(t, s, a, b, l) ==
    /\ status' = [status EXCEPT ![t] = s]
    /\ attempt' = [attempt EXCEPT ![t] = a]
    /\ builder' = [builder EXCEPT ![t] = b]
    /\ leased' = [leased EXCEPT ![t] = l]

Submitted(t) ==
    /\ status[t] = "none"
    /\ Row(t, "pending", attempt[t], builder[t], leased[t])
    /\ Charged' = Charged

Granted(t, b) ==
    /\ Claimable(t)
    /\ Row(t, "building", attempt[t] + 1, b, TRUE)
    /\ Charged' \in {Charged, Charged \cup {t}}

Progressed(t, s) ==
    /\ Running(t) /\ leased[t]
    /\ Row(t, s, attempt[t], builder[t], TRUE)
    /\ Charged' = Charged

Lapsed(t) ==
    /\ leased[t] /\ attempt[t] < MaxAttempt
    /\ Row(t, status[t], attempt[t], builder[t], FALSE)
    /\ Charged' = Charged

Finished(t, s) ==
    /\ Running(t) /\ leased[t]
    /\ Row(t, s, attempt[t], builder[t], FALSE)
    /\ Charged' = Charged

Withdrawn(t) ==
    /\ status[t] \in {"pending"} \cup Phase
    /\ Row(t, "cancelled", attempt[t] + 1, builder[t], FALSE)
    /\ Charged' = Charged

RowStep(t) ==
    \/ Submitted(t)
    \/ \E b \in Builder : Granted(t, b)
    \/ \E s \in Phase : Progressed(t, s)
    \/ Lapsed(t)
    \/ \E s \in {"success", "failed"} : Finished(t, s)
    \/ Withdrawn(t)

RowsUnchanged == UNCHANGED <<status, attempt, builder, leased>> /\ Charged' = Charged

\* A claim changes the row of the task it grants, and may charge for it.
LEMMA GrantIsRowStep ==
    ASSUME TypeOK, NEW t \in Task, NEW b \in Builder, Claimable(t), Grant(t, b)
    PROVE  RowStep(t)
<1>1. Charged' \in {Charged, Charged \cup {t}}
    <2>1. ledger' = ledger \/ ledger' = ledger \cup {<<t, "started">>}
        BY DEF Grant, ConfirmQuota, billVars
    <2> QED BY <2>1 DEF Charged
<1>2. Row(t, "building", attempt[t] + 1, b, TRUE)
    BY DEF Grant, Row
<1> QED BY <1>1, <1>2 DEF Granted, RowStep

\* The end of a build changes the row of its task and charges nothing.
LEMMA FinishIsRowStep ==
    ASSUME TypeOK, NEW t \in Task, NEW b, NEW a, Owns(b, t, a),
           NEW outcome \in {"success", "failed"},
           NEW entries \in SUBSET {"succeeded", "refund"}, Finish(t, a, outcome, entries)
    PROVE  RowStep(t)
<1>1. Charged' = Charged
    BY DEF Finish, Charged
<1>2. Row(t, outcome, attempt[t], builder[t], FALSE)
    BY DEF Finish, Row, TypeOK
<1> QED BY <1>1, <1>2 DEF Finished, RowStep, Owns

\* Every step of the cluster changes at most one row, in one of those ways.
LEMMA EveryStep ==
    ASSUME TypeOK, [Next]_vars
    PROVE  RowsUnchanged \/ \E t \in Task : RowStep(t)
<1> USE DEF billVars
<1>1. ASSUME NEW t \in Task, CreateBuildTask(t) PROVE RowStep(t)
    BY <1>1 DEF CreateBuildTask, NextId, RowStep, Submitted, Row, Charged, TypeOK
<1>2. ASSUME NEW t \in Task, NEW source \in Task, RetryBuildTask(t, source) PROVE RowStep(t)
    BY <1>2 DEF RetryBuildTask, NextId, RowStep, Submitted, Row, Charged, TypeOK
<1>3. ASSUME NEW t \in Task, CancelBuildTask(t) PROVE RowStep(t)
    BY <1>3 DEF CancelBuildTask, ReleaseQuota, RowStep, Withdrawn, Row, Charged, TypeOK
<1>4. ASSUME NEW n \in Node, ClaimScheduledBuildTask(n) PROVE \E t \in Task : RowStep(t)
    BY <1>4, ScheduledClaimGrants, GrantIsRowStep DEF Builder
<1>5. ASSUME NEW b \in Agent, ClaimLocalAgentBuildTask(b) PROVE \E t \in Task : RowStep(t)
    BY <1>5, AgentClaimGrants, GrantIsRowStep DEF Builder
<1>6. ASSUME NEW b \in Legacy, ClaimBuildTask(b) PROVE \E t \in Task : RowStep(t)
    <2>1. PICK t \in Task : Claimable(t) /\ Row(t, "building", attempt[t] + 1, b, TRUE)
                            /\ Charged' = Charged
        BY <1>6 DEF ClaimBuildTask, FirstOf, Row, Charged
    <2> QED BY <2>1 DEF Granted, RowStep, Builder
<1>7. ASSUME NEW b \in Builder, NEW t \in Task, NEW a \in 1..MaxAttempt, NEW phase \in Phase,
             ReportBuildProgress(b, t, a, phase)
      PROVE  RowStep(t)
    <2>1. Row(t, phase, attempt[t], builder[t], TRUE) /\ Charged' = Charged
        BY <1>7 DEF ReportBuildProgress, Owns, Row, Charged, TypeOK
    <2> QED BY <1>7, <2>1 DEF RowStep, Progressed, ReportBuildProgress, Owns
<1>8. ASSUME NEW b \in Builder, NEW t \in Task, NEW a \in 1..MaxAttempt,
             NEW outcome \in {"success", "failed"}, NEW entries \in SUBSET {"succeeded", "refund"},
             Closes(b, t, a, outcome, entries)
      PROVE  RowStep(t)
    BY <1>8, FinishIsRowStep DEF Closes
<1>10. ASSUME NEW t \in Task, TaskLeasePasses(t) PROVE RowStep(t)
    BY <1>10 DEF TaskLeasePasses, RowStep, Lapsed, Row, Charged, TypeOK
<1>11. ASSUME Environment PROVE RowsUnchanged \/ \E t \in Task : RowStep(t)
    BY <1>10, <1>11 DEF Environment, ReservationExpires, SlotLeasePasses, ChangeSubscription,
        ChangePlan, RowsUnchanged, Charged, taskVars
<1>12. ASSUME UNCHANGED clusterVars PROVE RowsUnchanged
    BY <1>12 DEF clusterVars, taskVars, RowsUnchanged, Charged
<1>13. CASE UNCHANGED vars
    BY <1>12, <1>13 DEF vars
<1> QED
    BY <1>1, <1>2, <1>3, <1>4, <1>5, <1>6, <1>7, <1>8, <1>11, <1>12, <1>13, BuilderRequestForms
    DEF Next, Requests

\* An ended row is final, step by step.
LEMMA FinalStep ==
    ASSUME TypeOK, [Next]_vars, NEW t \in Task, status[t] \in Terminal
    PROVE  status'[t] = status[t] /\ attempt'[t] = attempt[t] /\ builder'[t] = builder[t]
<1>1. status[t] \notin {"none", "pending"} \cup Phase
    BY PhaseAssumption DEF Terminal
<1>2. CASE RowsUnchanged
    BY <1>2 DEF RowsUnchanged
<1>3. ASSUME NEW u \in Task, RowStep(u), u # t
      PROVE  status'[t] = status[t] /\ attempt'[t] = attempt[t] /\ builder'[t] = builder[t]
    BY <1>3 DEF RowStep, Submitted, Granted, Progressed, Lapsed, Finished, Withdrawn, Row, TypeOK
<1>4. ASSUME RowStep(t)
      PROVE  status'[t] = status[t] /\ attempt'[t] = attempt[t] /\ builder'[t] = builder[t]
    BY <1>1, <1>4 DEF RowStep, Submitted, Granted, Progressed, Lapsed, Finished, Withdrawn, Row,
        Claimable, Running, TypeOK
<1> QED BY <1>2, <1>3, <1>4, EveryStep

\* A finished task keeps its status, its attempt and its builder for ever.
THEOREM FinishedStaysFinished == Spec => FinishedIsFinal
<1>1. TypeOK /\ [Next]_vars =>
        \A t \in Task : status[t] \in Terminal =>
            /\ status'[t] = status[t]
            /\ attempt'[t] = attempt[t]
            /\ builder'[t] = builder[t]
    BY FinalStep
<1> QED BY <1>1, TypeCorrect, PTL DEF Spec, FinishedIsFinal

\* What a step may do to an attempt, its builder and its lease.
LEMMA FenceStep ==
    ASSUME TypeOK, [Next]_vars, NEW t \in Task
    PROVE  /\ attempt'[t] \in {attempt[t], attempt[t] + 1}
           /\ attempt'[t] = attempt[t] => builder'[t] = builder[t]
           /\ ~leased[t] /\ leased'[t] => attempt'[t] = attempt[t] + 1
<1>1. attempt[t] \in Nat
    BY DEF TypeOK
<1>2. CASE RowsUnchanged
    BY <1>2 DEF RowsUnchanged
<1>3. ASSUME NEW u \in Task, RowStep(u), u # t
      PROVE  attempt'[t] = attempt[t] /\ builder'[t] = builder[t] /\ leased'[t] = leased[t]
    BY <1>3 DEF RowStep, Submitted, Granted, Progressed, Lapsed, Finished, Withdrawn, Row, TypeOK
<1>4. ASSUME RowStep(t)
      PROVE  \/ attempt'[t] = attempt[t] + 1
             \/ /\ attempt'[t] = attempt[t] /\ builder'[t] = builder[t]
                /\ leased'[t] => leased[t]
    BY <1>4 DEF RowStep, Submitted, Granted, Progressed, Lapsed, Finished, Withdrawn, Row, TypeOK
<1> QED BY <1>1, <1>2, <1>3, <1>4, EveryStep

\* The attempt number grows by one with every grant and cancellation, and only then.
THEOREM AttemptsAreFences == Spec => AttemptsFence
<1>1. TypeOK /\ [Next]_vars =>
        \A t \in Task :
            /\ attempt'[t] \in {attempt[t], attempt[t] + 1}
            /\ attempt'[t] = attempt[t] => builder'[t] = builder[t]
            /\ ~leased[t] /\ leased'[t] => attempt'[t] = attempt[t] + 1
    BY FenceStep
<1> QED BY <1>1, TypeCorrect, PTL DEF Spec, AttemptsFence

\* The bound of the model: a lease of the last attempt does not pass, so no
\* task is granted more often than MaxAttempt.
AttemptsInRange ==
    \A t \in Task :
        /\ status[t] \in {"none", "pending"} => attempt[t] = 0 /\ ~leased[t]
        /\ Running(t) => attempt[t] \in 1..MaxAttempt /\ (attempt[t] < MaxAttempt \/ leased[t])

LEMMA AttemptsInRangeStep == TypeOK /\ AttemptsInRange /\ [Next]_vars => AttemptsInRange'
<1> SUFFICES ASSUME TypeOK, AttemptsInRange, [Next]_vars PROVE AttemptsInRange'
    OBVIOUS
<1>1. CASE RowsUnchanged
    BY <1>1 DEF RowsUnchanged, AttemptsInRange, Running
<1>2. ASSUME NEW u \in Task, RowStep(u) PROVE AttemptsInRange'
    <2> SUFFICES ASSUME NEW t \in Task
                 PROVE  /\ status'[t] \in {"none", "pending"} => attempt'[t] = 0 /\ ~leased'[t]
                        /\ status'[t] \in Phase =>
                             /\ attempt'[t] \in 1..MaxAttempt
                             /\ attempt'[t] < MaxAttempt \/ leased'[t]
        BY DEF AttemptsInRange, Running
    <2>1. /\ status[t] \in {"none", "pending"} => attempt[t] = 0 /\ ~leased[t]
          /\ status[t] \in Phase =>
               attempt[t] \in 1..MaxAttempt /\ (attempt[t] < MaxAttempt \/ leased[t])
          /\ attempt[t] \in Nat
        BY DEF AttemptsInRange, Running, TypeOK
    <2>2. CASE t # u
        <3>1. status'[t] = status[t] /\ attempt'[t] = attempt[t] /\ leased'[t] = leased[t]
            BY <1>2, <2>2 DEF RowStep, Submitted, Granted, Progressed, Lapsed, Finished, Withdrawn,
                Row, TypeOK
        <3> QED BY <2>1, <3>1
    <2>3. CASE t = u
        BY <1>2, <2>1, <2>3, PhaseAssumption, BoundsAssumption
        DEF RowStep, Submitted, Granted, Progressed, Lapsed, Finished, Withdrawn, Row, Claimable,
            Running, TypeOK
    <2> QED BY <2>2, <2>3
<1> QED BY <1>1, <1>2, EveryStep

-----------------------------------------------------------------------------
(***************************************************************************)
(* Refinement.  The mapping needs one fact that TypeOK does not give: only *)
(* a running task holds a lease.                                           *)
(***************************************************************************)

OnlyRunningLeased == \A t \in Task : leased[t] => Running(t)

\* Only a running task holds a lease.
LEMMA LeaseInvariant == Spec => []OnlyRunningLeased
<1>1. Init => OnlyRunningLeased
    BY DEF Init, OnlyRunningLeased
<1>2. TypeOK /\ OnlyRunningLeased /\ [Next]_vars => OnlyRunningLeased'
    <2> SUFFICES ASSUME TypeOK, OnlyRunningLeased, [Next]_vars, NEW t \in Task, leased'[t]
                 PROVE  status'[t] \in Phase
        BY DEF OnlyRunningLeased, Running
    <2>1. CASE RowsUnchanged
        BY <2>1 DEF RowsUnchanged, OnlyRunningLeased, Running
    <2>2. ASSUME NEW u \in Task, RowStep(u) PROVE status'[t] \in Phase
        BY <2>2, PhaseAssumption DEF RowStep, Submitted, Granted, Progressed, Lapsed, Finished,
            Withdrawn, Row, TypeOK, OnlyRunningLeased, Running
    <2> QED BY <2>1, <2>2, EveryStep
<1> QED BY <1>1, <1>2, TypeCorrect, PTL DEF Spec

\* The state function of the refinement mapping, and how a change of one row shows in it.
State == [t \in Task |-> LifecycleState(t)]

\* A row that changes moves its own task in the abstract state, no other.
LEMMA StateOfRow ==
    ASSUME TypeOK, NEW t \in Task, NEW s, NEW a, NEW b, NEW l, Row(t, s, a, b, l)
    PROVE  State' = [State EXCEPT ![t] =
                        IF s \in Phase THEN IF l THEN "held" ELSE "lapsed"
                        ELSE IF s = "pending" THEN "queued" ELSE s]
<1> DEFINE new == IF s \in Phase THEN IF l THEN "held" ELSE "lapsed"
                  ELSE IF s = "pending" THEN "queued" ELSE s
<1>1. LifecycleState(t)' = new
    BY DEF LifecycleState, Running, Row, TypeOK
<1>2. ASSUME NEW u \in Task, u # t PROVE LifecycleState(u)' = LifecycleState(u)
    BY <1>2 DEF LifecycleState, Running, Row, TypeOK
<1>3. State' = [u \in Task |-> LifecycleState(u)']
    BY DEF State
<1> HIDE DEF new
<1>4. State' = [State EXCEPT ![t] = new]
    BY <1>1, <1>2, <1>3 DEF State
<1> QED BY <1>4 DEF new

\* A change of a row is a step of the lifecycle, or none (progress reports).
LEMMA StepImplementsLifecycle ==
    ASSUME TypeOK, OnlyRunningLeased, NEW t \in Task, RowStep(t)
    PROVE  [Lifecycle!LifecycleNext]_(Lifecycle!lifecycleVars)
<1>s. /\ State[t] = LifecycleState(t)
      /\ State = [u \in Task |-> LifecycleState(u)]
      /\ State' = [u \in Task |-> LifecycleState(u)']
      /\ attempt \in [Task -> Nat] /\ builder \in [Task -> Builder \cup {NoBuilder}]
    BY DEF State, TypeOK
<1>1. ASSUME Submitted(t) PROVE Lifecycle!Submit(t)
    <2>1. Row(t, "pending", attempt[t], builder[t], leased[t])
        BY <1>1 DEF Submitted
    <2>2. State' = [State EXCEPT ![t] = "queued"]
        BY <2>1, StateOfRow, PhaseAssumption
    <2>3. State[t] = "none"
        BY <1>1, <1>s, PhaseAssumption DEF Submitted, LifecycleState, Running
    <2>4. UNCHANGED <<attempt, builder>>
        BY <2>1, <1>s DEF Row
    <2> QED BY <1>1, <2>2, <2>3, <2>4 DEF Lifecycle!Submit, Submitted, Charged, State
<1>2. ASSUME NEW b \in Builder, Granted(t, b) PROVE Lifecycle!GrantTo(t, b)
    <2>1. Row(t, "building", attempt[t] + 1, b, TRUE)
        BY <1>2 DEF Granted
    <2>2. State' = [State EXCEPT ![t] = "held"]
        BY <2>1, StateOfRow, PhaseAssumption
    <2>3. State[t] \in {"queued", "lapsed"}
        BY <1>2, <1>s, PhaseAssumption DEF Granted, Claimable, LifecycleState, Running
    <2> QED BY <1>2, <2>1, <2>2, <2>3
        DEF Lifecycle!GrantTo, Lifecycle!Waiting, Granted, Row, Charged, State
<1>3. ASSUME NEW s \in Phase, Progressed(t, s) PROVE UNCHANGED Lifecycle!lifecycleVars
    <2>1. Row(t, s, attempt[t], builder[t], TRUE)
        BY <1>3 DEF Progressed
    <2>2. State' = [State EXCEPT ![t] = "held"]
        BY <2>1, StateOfRow
    <2>3. State[t] = "held"
        BY <1>3, <1>s DEF Progressed, LifecycleState
    <2>4. State' = State
        BY <2>2, <2>3 DEF State
    <2>5. UNCHANGED <<attempt, builder>>
        BY <2>1, <1>s DEF Row
    <2> QED BY <1>3, <2>4, <2>5 DEF Lifecycle!lifecycleVars, Progressed, Charged, State
<1>4. ASSUME Lapsed(t) PROVE Lifecycle!Lapse(t)
    <2>1. Row(t, status[t], attempt[t], builder[t], FALSE) /\ status[t] \in Phase
        BY <1>4 DEF Lapsed, OnlyRunningLeased, Running
    <2>2. State' = [State EXCEPT ![t] = "lapsed"]
        BY <2>1, StateOfRow
    <2>3. State[t] = "held"
        BY <1>4, <1>s DEF Lapsed, LifecycleState, OnlyRunningLeased
    <2>4. UNCHANGED <<attempt, builder>>
        BY <2>1, <1>s DEF Row
    <2> QED BY <1>4, <2>2, <2>3, <2>4 DEF Lifecycle!Lapse, Lapsed, Charged, State
<1>5. ASSUME NEW s \in {"success", "failed"}, Finished(t, s) PROVE Lifecycle!End(t, s)
    <2>1. Row(t, s, attempt[t], builder[t], FALSE)
        BY <1>5 DEF Finished
    <2>2. State' = [State EXCEPT ![t] = s]
        BY <2>1, StateOfRow, PhaseAssumption
    <2>3. State[t] = "held"
        BY <1>5, <1>s DEF Finished, LifecycleState
    <2>4. UNCHANGED <<attempt, builder>>
        BY <2>1, <1>s DEF Row
    <2> QED BY <1>5, <2>2, <2>3, <2>4 DEF Lifecycle!End, Finished, Charged, State
<1>6. ASSUME Withdrawn(t) PROVE Lifecycle!Withdraw(t)
    <2>1. Row(t, "cancelled", attempt[t] + 1, builder[t], FALSE)
        BY <1>6 DEF Withdrawn
    <2>2. State' = [State EXCEPT ![t] = "cancelled"]
        BY <2>1, StateOfRow, PhaseAssumption
    <2>3. State[t] \in {"queued", "lapsed", "held"}
        BY <1>6, <1>s, PhaseAssumption DEF Withdrawn, LifecycleState, Running
    <2>4. UNCHANGED builder /\ attempt' = [attempt EXCEPT ![t] = @ + 1]
        BY <2>1, <1>s DEF Row
    <2> QED BY <1>6, <2>2, <2>3, <2>4
        DEF Lifecycle!Withdraw, Lifecycle!Open, Lifecycle!Waiting, Withdrawn, Charged, State
<1> QED BY <1>1, <1>2, <1>3, <1>4, <1>5, <1>6 DEF RowStep, Lifecycle!LifecycleNext

\* The cluster implements BuildLifecycle: whatever interleaving of claims,
\* reports, lapses, cancellations and billing events happens, each task goes
\* through the promised life.
THEOREM ClusterImplementsLifecycle == Spec => ImplementsLifecycle
<1>1. Init => Lifecycle!LifecycleInit
    BY PhaseAssumption DEF Init, Lifecycle!LifecycleInit, LifecycleState, Running
<1>2. TypeOK /\ OnlyRunningLeased /\ [Next]_vars => [Lifecycle!LifecycleNext]_(Lifecycle!lifecycleVars)
    <2> SUFFICES ASSUME TypeOK, OnlyRunningLeased, [Next]_vars
                 PROVE  [Lifecycle!LifecycleNext]_(Lifecycle!lifecycleVars)
        OBVIOUS
    <2>1. ASSUME RowsUnchanged PROVE UNCHANGED Lifecycle!lifecycleVars
        BY <2>1 DEF RowsUnchanged, Charged, Lifecycle!lifecycleVars, LifecycleState, Running
    <2> QED BY <2>1, EveryStep, StepImplementsLifecycle
<1> QED BY <1>1, <1>2, TypeCorrect, LeaseInvariant, PTL
        DEF Spec, ImplementsLifecycle, Lifecycle!LifecycleSpec

-----------------------------------------------------------------------------
(***************************************************************************)
(* Nodes.  Whatever the scheduler, the billing and the builders do, the    *)
(* rows of t_builder_node only change as BuilderNode says, so what holds   *)
(* of NodeSpec holds in the cluster.                                       *)
(***************************************************************************)

\* The cluster implements BuilderNode: its other handlers leave the nodes alone.
THEOREM ClusterImplementsNodes == Spec => NodeSpec
<1>1. Init => NodeInit
    BY DEF Init
<1>2. [Next]_vars => [NodeNext]_nodeVars
    <2> SUFFICES ASSUME [Next]_vars PROVE NodeNext \/ UNCHANGED nodeVars
        OBVIOUS
    <2>1. ASSUME Requests PROVE UNCHANGED nodeVars
        BY <2>1 DEF Requests, CreateBuildTask, CancelBuildTask, RetryBuildTask, ClaimScheduledBuildTask,
            ClaimLocalAgentBuildTask, ClaimBuildTask
    <2>2. ASSUME BuilderRequests PROVE UNCHANGED nodeVars
        BY <2>2, BuilderRequestForms DEF ReportBuildProgress, Closes, Finish
    <2>3. ASSUME Environment PROVE UNCHANGED nodeVars
        BY <2>3 DEF Environment, TaskLeasePasses, ReservationExpires, SlotLeasePasses,
            ChangeSubscription, ChangePlan
    <2>4. CASE UNCHANGED vars
        BY <2>4 DEF vars
    <2> QED BY <2>1, <2>2, <2>3, <2>4 DEF Next
<1> QED BY <1>1, <1>2, PTL DEF Spec, NodeSpec

\* The rows of the nodes are typed whatever runs beside them.
LEMMA NodeTypeInvariant == NodeSpec => []NodeTypeOK
<1>1. NodeInit => NodeTypeOK
    BY MaxNodeEventsAssumption DEF NodeInit, NodeTypeOK, NodeStatus
<1>2. NodeTypeOK /\ [NodeNext]_nodeVars => NodeTypeOK'
    <2> SUFFICES ASSUME NodeTypeOK, [NodeNext]_nodeVars PROVE NodeTypeOK'
        OBVIOUS
    <2>1. CASE UNCHANGED nodeVars
        BY <2>1 DEF nodeVars, NodeTypeOK
    <2> QED BY <2>1, NodeTypeStep
<1> QED BY <1>1, <1>2, PTL DEF NodeSpec

\* Neither a registration nor a heartbeat ends an isolation: only the operator's
\* recovery does, over a fresh reading with enough disk.
THEOREM IsolationIsKept == Spec => IsolationNeedsRecovery
<1>1. NodeTypeOK /\ [NodeNext]_nodeVars =>
        [\A n \in Node : nodeStatus[n] = "isolated" /\ nodeStatus'[n] # "isolated" =>
            fresh[n] /\ ~lowDisk[n] /\ UNCHANGED <<fresh, lowDisk>>]_nodeVars
    <2> SUFFICES ASSUME NodeTypeOK, NodeNext, NEW n \in Node,
                        nodeStatus[n] = "isolated", nodeStatus'[n] # "isolated"
                 PROVE  fresh[n] /\ ~lowDisk[n] /\ UNCHANGED <<fresh, lowDisk>>
        OBVIOUS
    <2>1. PICK m \in Node :
            \/ \E low \in BOOLEAN : RegisterBuilderNode(m, low) \/ BuilderNodeHeartbeat(m, low)
            \/ \E mode \in BOOLEAN : DrainBuilderNode(m, mode)
            \/ RecoverBuilderNode(m)
            \/ ClaimFromStaleNode(m)
            \/ HeartbeatGoesStale(m)
        BY DEF NodeNext
    <2> USE DEF NodeTypeOK
    <2>2. ASSUME NEW low \in BOOLEAN, RegisterBuilderNode(m, low) PROVE FALSE
        BY <2>2 DEF RegisterBuilderNode
    <2>3. ASSUME NEW low \in BOOLEAN, BuilderNodeHeartbeat(m, low) PROVE FALSE
        BY <2>3 DEF BuilderNodeHeartbeat
    <2>4. ASSUME NEW mode \in BOOLEAN, DrainBuilderNode(m, mode) PROVE FALSE
        BY <2>4 DEF DrainBuilderNode
    <2>5. CASE RecoverBuilderNode(m)
        BY <2>5 DEF RecoverBuilderNode
    <2>6. CASE ClaimFromStaleNode(m)
        BY <2>6 DEF ClaimFromStaleNode
    <2>7. CASE HeartbeatGoesStale(m)
        BY <2>7 DEF HeartbeatGoesStale
    <2> QED BY <2>1, <2>2, <2>3, <2>4, <2>5, <2>6, <2>7
<1> QED BY <1>1, ClusterImplementsNodes, NodeTypeInvariant, PTL DEF NodeSpec, IsolationNeedsRecovery

-----------------------------------------------------------------------------
(***************************************************************************)
(* Concurrency limits.  Only a claim adds a row to slots, one row, after   *)
(* it has counted the rows under the limits it is responsible for; every   *)
(* other step keeps the rows or takes some away.                           *)
(***************************************************************************)

\* What a claim has checked when it inserts the slot of task t for builder b.
\* Only the cloud scheduler looks at the limits of the pool and of the tenant
\* policy, so they are checked by every claim where there are no local agents.
Admitted(t, b) ==
    /\ slots' = slots \cup {[task |-> t, attempt |-> attempt[t] + 1, node |-> b]}
    /\ NodeCount(b) < NodeMax[b]
    /\ AppCount(AppOf[t]) < AppMax[AppOf[t]]
    /\ EntitlementMax[TenantOf[t]] >= 0 => TenantCount(TenantOf[t]) < EntitlementMax[TenantOf[t]]
    /\ Agent = {} => PoolCount < PoolMax
    /\ Agent = {} => TenantCount(TenantOf[t]) < TenantPolicyMax[TenantOf[t]]

\* The tenant limit of the scheduler is within both limits it is made of.
LEMMA TenantLimitIsLower ==
    ASSUME NEW x \in Tenant
    PROVE  /\ TenantLimit(x) <= TenantPolicyMax[x]
           /\ EntitlementMax[x] >= 0 => TenantLimit(x) <= EntitlementMax[x]
           /\ TenantLimit(x) \in Int
BY LimitsAssumption DEF TenantLimit

\* A count of slots is a number while there are finitely many.
LEMMA SlotSetsFinite ==
    ASSUME IsFiniteSet(slots), NEW S \in SUBSET slots
    PROVE  IsFiniteSet(S) /\ Cardinality(S) \in Nat
BY FS_Subset, FS_CardinalityType

\* claimScheduledTask checks every limit.
LEMMA ScheduledClaimAdmits ==
    ASSUME TypeOK, IsFiniteSet(slots), NEW n \in Node, ClaimScheduledBuildTask(n)
    PROVE  \E t \in Task : Admitted(t, n)
<1>1. PICK x \in Servable(n) : \E t \in FirstOf(Candidates(n, x)) : Grant(t, n)
    BY DEF ClaimScheduledBuildTask
<1> PICK t \in FirstOf(Candidates(n, x)) : Grant(t, n)
    BY <1>1
<1>2. t \in Task /\ TenantOf[t] = x /\ AppCount(AppOf[t]) < AppMax[AppOf[t]]
    BY DEF FirstOf, Candidates, Head, Backlog
<1>3. x \in Tenant /\ TenantCount(x) < TenantLimit(x)
    BY <1>1 DEF Servable, QueueHead
<1>4. TenantCount(x) \in Nat
    BY SlotSetsFinite DEF TenantCount
<1>5. /\ TenantCount(x) < TenantPolicyMax[x]
      /\ EntitlementMax[x] >= 0 => TenantCount(x) < EntitlementMax[x]
    BY <1>3, <1>4, TenantLimitIsLower, LimitsAssumption
<1>6. NodeCount(n) < NodeMax[n] /\ PoolCount < PoolMax
    BY DEF ClaimScheduledBuildTask
<1>7. slots' = slots \cup {[task |-> t, attempt |-> attempt[t] + 1, node |-> n]}
    BY DEF Grant
<1> QED BY <1>2, <1>5, <1>6, <1>7 DEF Admitted

\* claimLocalAgentBuildTask checks all but the pool and the tenant policy.
LEMMA AgentClaimAdmits ==
    ASSUME TypeOK, NEW b \in Agent, ClaimLocalAgentBuildTask(b)
    PROVE  \E t \in Task : Admitted(t, b)
<1>1. PICK t \in FirstOf({u \in AgentHead(b) : AppCount(AppOf[u]) < AppMax[AppOf[u]]}) : Grant(t, b)
    BY DEF ClaimLocalAgentBuildTask
<1>2. /\ t \in Task /\ TenantOf[t] = AgentTenant[b]
      /\ AppCount(AppOf[t]) < AppMax[AppOf[t]]
    BY <1>1 DEF FirstOf, AgentHead, Head, Backlog
<1>3. /\ NodeCount(b) < NodeMax[b]
      /\ EntitlementMax[AgentTenant[b]] >= 0 =>
            TenantCount(AgentTenant[b]) < EntitlementMax[AgentTenant[b]]
    BY DEF ClaimLocalAgentBuildTask
<1>4. slots' = slots \cup {[task |-> t, attempt |-> attempt[t] + 1, node |-> b]}
    BY <1>1 DEF Grant
<1> QED BY <1>2, <1>3, <1>4 DEF Admitted

\* Every step keeps the slots, takes some away, or is an admitted claim.
LEMMA SlotStep ==
    ASSUME TypeOK, IsFiniteSet(slots), [Next]_vars
    PROVE  slots' \subseteq slots \/ \E t \in Task, b \in Builder : Admitted(t, b)
<1>1. ASSUME NEW n \in Node, ClaimScheduledBuildTask(n)
      PROVE  \E t \in Task, b \in Builder : Admitted(t, b)
    BY <1>1, ScheduledClaimAdmits DEF Builder
<1>2. ASSUME NEW b \in Agent, ClaimLocalAgentBuildTask(b)
      PROVE  \E t \in Task, c \in Builder : Admitted(t, c)
    BY <1>2, AgentClaimAdmits DEF Builder
<1>3. ASSUME NEW b \in Legacy, ClaimBuildTask(b) PROVE slots' = slots
    BY <1>3 DEF ClaimBuildTask
<1>4. ASSUME NEW t \in Task, CreateBuildTask(t) \/ CancelBuildTask(t) PROVE slots' \subseteq slots
    BY <1>4 DEF CreateBuildTask, CancelBuildTask
<1>5. ASSUME NEW t \in Task, NEW source \in Task, RetryBuildTask(t, source) PROVE slots' = slots
    BY <1>5 DEF RetryBuildTask
<1>6. CASE BuilderRequests
    BY <1>6, BuilderRequestForms DEF ReportBuildProgress, Closes, Finish
<1>7. CASE Environment
    BY <1>7 DEF Environment, TaskLeasePasses, ReservationExpires, SlotLeasePasses,
        ChangeSubscription, ChangePlan
<1>8. CASE UNCHANGED clusterVars \/ UNCHANGED vars
    BY <1>8 DEF clusterVars, vars
<1> QED BY <1>1, <1>2, <1>3, <1>4, <1>5, <1>6, <1>7, <1>8 DEF Next, Requests

-----------------------------------------------------------------------------
\* A set that gains at most one element grows by at most one.
LEMMA OneMore ==
    ASSUME NEW S, IsFiniteSet(S), NEW x, NEW T, T \subseteq S \cup {x}
    PROVE  IsFiniteSet(T) /\ Cardinality(T) \in Nat /\ Cardinality(T) <= Cardinality(S) + 1
<1>1. /\ IsFiniteSet(S \cup {x})
      /\ Cardinality(S \cup {x}) = IF x \in S THEN Cardinality(S) ELSE Cardinality(S) + 1
    BY FS_AddElement
<1>2. IsFiniteSet(T) /\ Cardinality(T) <= Cardinality(S \cup {x})
    BY <1>1, FS_Subset
<1>3. Cardinality(S) \in Nat /\ Cardinality(T) \in Nat /\ Cardinality(S \cup {x}) \in Nat
    BY <1>1, <1>2, FS_CardinalityType
<1> QED BY <1>1, <1>2, <1>3

\* The part S of the slots stays within a limit: either it gained nothing, or
\* it gained a row of a claim that had counted it.
LEMMA StaysWithin ==
    ASSUME NEW S, NEW T, IsFiniteSet(S), NEW limit \in Int, Cardinality(S) <= limit,
           \/ T \subseteq S
           \/ Cardinality(S) < limit /\ \E x : T \subseteq S \cup {x}
    PROVE  Cardinality(T) <= limit
<1>1. Cardinality(S) \in Nat
    BY FS_CardinalityType
<1>2. CASE T \subseteq S
    BY <1>1, <1>2, FS_Subset, FS_CardinalityType
<1>3. CASE Cardinality(S) < limit /\ \E x : T \subseteq S \cup {x}
    <2>1. PICK x : T \subseteq S \cup {x}
        BY <1>3
    <2>2. Cardinality(T) \in Nat /\ Cardinality(T) <= Cardinality(S) + 1
        BY <2>1, OneMore
    <2> QED BY <1>1, <1>3, <2>2
<1> QED BY <1>2, <1>3

\* Rows of t_build_slot_lease that count are never infinitely many.
SlotsFinite == IsFiniteSet(slots)

LEMMA SlotsStayFinite == Spec => []SlotsFinite
<1>1. Init => SlotsFinite
    BY FS_EmptySet DEF Init, SlotsFinite
<1>2. TypeOK /\ SlotsFinite /\ [Next]_vars => SlotsFinite'
    <2> USE DEF SlotsFinite
    <2> SUFFICES ASSUME TypeOK, IsFiniteSet(slots), [Next]_vars PROVE IsFiniteSet(slots')
        OBVIOUS
    <2>1. CASE slots' \subseteq slots
        BY <2>1, FS_Subset
    <2>2. ASSUME NEW t \in Task, NEW b \in Builder, Admitted(t, b) PROVE IsFiniteSet(slots')
        BY <2>2, FS_AddElement DEF Admitted
    <2> QED BY <2>1, <2>2, SlotStep
<1> QED BY <1>1, <1>2, TypeCorrect, PTL DEF Spec

\* The rows of one kind stay within a limit: every claim that adds such a row
\* has counted them and found fewer.
LEMMA KindStaysWithin ==
    ASSUME TypeOK, SlotsFinite, [Next]_vars,
           NEW K, NEW limit \in Int, Cardinality(slots \cap K) <= limit,
           \A t \in Task, b \in Builder :
                Admitted(t, b) /\ [task |-> t, attempt |-> attempt[t] + 1, node |-> b] \in K =>
                    Cardinality(slots \cap K) < limit
    PROVE  Cardinality(slots' \cap K) <= limit
<1>1. IsFiniteSet(slots \cap K)
    BY SlotSetsFinite DEF SlotsFinite
<1>2. CASE slots' \subseteq slots
    <2>1. slots' \cap K \subseteq slots \cap K
        BY <1>2
    <2> QED BY <1>1, <2>1, StaysWithin
<1>3. ASSUME NEW t \in Task, NEW b \in Builder, Admitted(t, b)
      PROVE  Cardinality(slots' \cap K) <= limit
    <2> DEFINE new == [task |-> t, attempt |-> attempt[t] + 1, node |-> b]
    <2>1. slots' = slots \cup {new}
        BY <1>3 DEF Admitted
    <2>2. new \in K => Cardinality(slots \cap K) < limit
        BY <1>3
    <2> HIDE DEF new
    <2>3. CASE new \in K
        <3>1. slots' \cap K \subseteq (slots \cap K) \cup {new}
            BY <2>1
        <3> QED BY <1>1, <2>2, <2>3, <3>1, StaysWithin
    <2>4. CASE new \notin K
        <3>1. slots' \cap K \subseteq slots \cap K
            BY <2>1, <2>4
        <3> QED BY <1>1, <3>1, StaysWithin
    <2> QED BY <2>3, <2>4
<1> QED BY <1>2, <1>3, SlotStep DEF SlotsFinite

\* The rows of a builder, an app and a tenant.
RowsOfBuilder(b) == {s \in Slot : s.node = b}
RowsOfApp(p) == {s \in Slot : AppOf[s.task] = p}
RowsOfTenant(x) == {s \in Slot : TenantOf[s.task] = x}

\* What the limits count are those rows.
LEMMA CountsAreKinds ==
    ASSUME NEW S \in SUBSET Slot
    PROVE  /\ \A b : {s \in S : s.node = b} = S \cap RowsOfBuilder(b)
           /\ \A p : {s \in S : AppOf[s.task] = p} = S \cap RowsOfApp(p)
           /\ \A x : {s \in S : TenantOf[s.task] = x} = S \cap RowsOfTenant(x)
           /\ S = S \cap Slot
BY DEF RowsOfBuilder, RowsOfApp, RowsOfTenant

\* No builder, cloud node or local agent, ever holds more live slots than its
\* max_concurrency, whatever lapses, recoveries and late reports happen.
THEOREM NodeLimitHolds == Spec => []NodeWithinLimit
<1>1. Init => NodeWithinLimit
    BY FS_EmptySet, LimitsAssumption DEF Init, NodeWithinLimit
<1>2. TypeOK /\ TypeOK' /\ SlotsFinite /\ NodeWithinLimit /\ [Next]_vars => NodeWithinLimit'
    <2> SUFFICES ASSUME TypeOK, TypeOK', SlotsFinite, NodeWithinLimit, [Next]_vars, NEW b \in Builder
                 PROVE  Cardinality(slots' \cap RowsOfBuilder(b)) <= NodeMax[b]
        BY CountsAreKinds DEF NodeWithinLimit, TypeOK
    <2>0. {s \in slots : s.node = b} = slots \cap RowsOfBuilder(b)
        BY CountsAreKinds DEF TypeOK
    <2>1. Cardinality(slots \cap RowsOfBuilder(b)) <= NodeMax[b] /\ NodeMax[b] \in Int
        BY <2>0, LimitsAssumption DEF NodeWithinLimit
    <2>2. ASSUME NEW t \in Task, NEW c \in Builder, Admitted(t, c),
                 [task |-> t, attempt |-> attempt[t] + 1, node |-> c] \in RowsOfBuilder(b)
          PROVE  Cardinality(slots \cap RowsOfBuilder(b)) < NodeMax[b]
        BY <2>0, <2>2 DEF Admitted, NodeCount, RowsOfBuilder, TypeOK
    <2> QED BY <2>1, <2>2, KindStaysWithin
<1> QED BY <1>1, <1>2, TypeCorrect, SlotsStayFinite, PTL DEF Spec

\* The limit of an app binds cloud nodes and local agents together.
THEOREM AppLimitHolds == Spec => []AppWithinLimit
<1>1. Init => AppWithinLimit
    BY FS_EmptySet, LimitsAssumption DEF Init, AppWithinLimit
<1>2. TypeOK /\ TypeOK' /\ SlotsFinite /\ AppWithinLimit /\ [Next]_vars => AppWithinLimit'
    <2> SUFFICES ASSUME TypeOK, TypeOK', SlotsFinite, AppWithinLimit, [Next]_vars, NEW p \in App
                 PROVE  Cardinality(slots' \cap RowsOfApp(p)) <= AppMax[p]
        BY CountsAreKinds DEF AppWithinLimit, TypeOK
    <2>0. {s \in slots : AppOf[s.task] = p} = slots \cap RowsOfApp(p)
        BY CountsAreKinds DEF TypeOK
    <2>1. Cardinality(slots \cap RowsOfApp(p)) <= AppMax[p] /\ AppMax[p] \in Int
        BY <2>0, LimitsAssumption DEF AppWithinLimit
    <2>2. ASSUME NEW t \in Task, NEW c \in Builder, Admitted(t, c),
                 [task |-> t, attempt |-> attempt[t] + 1, node |-> c] \in RowsOfApp(p)
          PROVE  Cardinality(slots \cap RowsOfApp(p)) < AppMax[p]
        BY <2>0, <2>2 DEF Admitted, AppCount, RowsOfApp, TypeOK
    <2> QED BY <2>1, <2>2, KindStaysWithin
<1> QED BY <1>1, <1>2, TypeCorrect, SlotsStayFinite, PTL DEF Spec

\* So does the concurrency a tenant paid for.
THEOREM EntitlementLimitHolds == Spec => []EntitlementWithinLimit
<1>1. Init => EntitlementWithinLimit
    BY FS_EmptySet, LimitsAssumption DEF Init, EntitlementWithinLimit, SlotsOfTenant
<1>2. TypeOK /\ TypeOK' /\ SlotsFinite /\ EntitlementWithinLimit /\ [Next]_vars => EntitlementWithinLimit'
    <2> SUFFICES ASSUME TypeOK, TypeOK', SlotsFinite, EntitlementWithinLimit, [Next]_vars, NEW x \in Tenant, EntitlementMax[x] >= 0
                 PROVE  Cardinality(slots' \cap RowsOfTenant(x)) <= EntitlementMax[x]
        BY CountsAreKinds DEF EntitlementWithinLimit, TypeOK, SlotsOfTenant
    <2>0. {s \in slots : TenantOf[s.task] = x} = slots \cap RowsOfTenant(x)
        BY CountsAreKinds DEF TypeOK
    <2>1. Cardinality(slots \cap RowsOfTenant(x)) <= EntitlementMax[x] /\ EntitlementMax[x] \in Int
        BY <2>0, LimitsAssumption DEF EntitlementWithinLimit, SlotsOfTenant
    <2>2. ASSUME NEW t \in Task, NEW c \in Builder, Admitted(t, c),
                 [task |-> t, attempt |-> attempt[t] + 1, node |-> c] \in RowsOfTenant(x)
          PROVE  Cardinality(slots \cap RowsOfTenant(x)) < EntitlementMax[x]
        BY <2>0, <2>2 DEF Admitted, TenantCount, RowsOfTenant, TypeOK
    <2> QED BY <2>1, <2>2, KindStaysWithin
<1> QED BY <1>1, <1>2, TypeCorrect, SlotsStayFinite, PTL DEF Spec

-----------------------------------------------------------------------------
(***************************************************************************)
(* The limits of the pool and of the tenant policy hold where no local     *)
(* agent claims: the claim of an agent counts neither.                     *)
(***************************************************************************)

PoolLimitOfCloud == Agent = {} => PoolWithinLimit
PolicyLimitOfCloud == Agent = {} => TenantWithinPolicy

\* Without local agents the builders of a pool never exceed its global limit.
THEOREM PoolLimitHolds == Spec => [](Agent = {} => PoolWithinLimit)
<1>1. Init => PoolLimitOfCloud
    BY FS_EmptySet, LimitsAssumption DEF Init, PoolLimitOfCloud, PoolWithinLimit
<1>2. TypeOK /\ TypeOK' /\ SlotsFinite /\ PoolLimitOfCloud /\ [Next]_vars => PoolLimitOfCloud'
    <2> SUFFICES ASSUME TypeOK, TypeOK', SlotsFinite, PoolLimitOfCloud, [Next]_vars, Agent = {}
                 PROVE  Cardinality(slots' \cap Slot) <= PoolMax
        BY CountsAreKinds DEF PoolLimitOfCloud, PoolWithinLimit, TypeOK
    <2>0. slots \cap Slot = slots
        BY CountsAreKinds DEF TypeOK
    <2>1. PoolMax \in Int /\ Cardinality(slots \cap Slot) <= PoolMax
        <3>1. Cardinality(slots) <= PoolMax
            BY LimitsAssumption DEF PoolLimitOfCloud, PoolWithinLimit
        <3>2. Cardinality(slots \cap Slot) <= PoolMax
            BY <2>0, <3>1, Zenon
        <3> QED BY <3>2, LimitsAssumption
    <2>2. \A t \in Task, b \in Builder : Admitted(t, b) => Cardinality(slots \cap Slot) < PoolMax
        BY <2>0 DEF Admitted, PoolCount
    <2> QED BY <2>1, <2>2, KindStaysWithin
<1>3. PoolLimitOfCloud => (Agent = {} => PoolWithinLimit)
    BY DEF PoolLimitOfCloud
<1> QED BY <1>1, <1>2, <1>3, TypeCorrect, SlotsStayFinite, PTL DEF Spec

\* Nor does a tenant exceed the limit of its policy.
THEOREM PolicyLimitHolds == Spec => [](Agent = {} => TenantWithinPolicy)
<1>1. Init => PolicyLimitOfCloud
    BY FS_EmptySet, LimitsAssumption DEF Init, PolicyLimitOfCloud, TenantWithinPolicy, SlotsOfTenant
<1>2. TypeOK /\ TypeOK' /\ SlotsFinite /\ PolicyLimitOfCloud /\ [Next]_vars => PolicyLimitOfCloud'
    <2> SUFFICES ASSUME TypeOK, TypeOK', SlotsFinite, PolicyLimitOfCloud, [Next]_vars, Agent = {},
                        NEW x \in Tenant
                 PROVE  Cardinality(slots' \cap RowsOfTenant(x)) <= TenantPolicyMax[x]
        BY CountsAreKinds DEF PolicyLimitOfCloud, TenantWithinPolicy, SlotsOfTenant, TypeOK
    <2>0. {s \in slots : TenantOf[s.task] = x} = slots \cap RowsOfTenant(x)
        BY CountsAreKinds DEF TypeOK
    <2>1. /\ TenantPolicyMax[x] \in Int
          /\ Cardinality(slots \cap RowsOfTenant(x)) <= TenantPolicyMax[x]
        BY <2>0, LimitsAssumption
        DEF PolicyLimitOfCloud, TenantWithinPolicy, SlotsOfTenant
    <2>2. ASSUME NEW t \in Task, NEW c \in Builder, Admitted(t, c),
                 [task |-> t, attempt |-> attempt[t] + 1, node |-> c] \in RowsOfTenant(x)
          PROVE  Cardinality(slots \cap RowsOfTenant(x)) < TenantPolicyMax[x]
        BY <2>0, <2>2 DEF Admitted, TenantCount, RowsOfTenant, TypeOK
    <2> QED BY <2>1, <2>2, KindStaysWithin
<1>3. PolicyLimitOfCloud => (Agent = {} => TenantWithinPolicy)
    BY DEF PolicyLimitOfCloud
<1> QED BY <1>1, <1>2, <1>3, TypeCorrect, SlotsStayFinite, PTL DEF Spec

\* Every limit of the cluster holds while cloud nodes alone claim.
THEOREM LimitsHold == Spec => [](Agent = {} => LimitsRespected)
<1>1. /\ NodeWithinLimit /\ AppWithinLimit
      /\ Agent = {} => PoolWithinLimit
      /\ Agent = {} => TenantWithinPolicy
      => (Agent = {} => LimitsRespected)
    BY DEF LimitsRespected
<1> QED BY <1>1, NodeLimitHolds, AppLimitHolds, PoolLimitHolds, PolicyLimitHolds, PTL

-----------------------------------------------------------------------------
(***************************************************************************)
(* What a step does to the reservation and the ledger rows of a task, and  *)
(* to the columns that decide on them.  The billing invariants follow from *)
(* this classification.                                                    *)
(***************************************************************************)

\* The task, its reservation and its ledger rows are written, plan and
\* subscription are not.  What reserves or charges needs the subscription.
Bill(t, s, b, r, entries) ==
    /\ status' = [status EXCEPT ![t] = s]
    /\ builder' = [builder EXCEPT ![t] = b]
    /\ resv' = [resv EXCEPT ![t] = r]
    /\ ledger' = ledger \cup ({t} \X entries)
    /\ plan' = plan /\ subscribed' = subscribed
    /\ (r = "reserved" /\ resv[t] # "reserved") \/ "started" \in entries => subscribed[TenantOf[t]]

Ordered(t) ==
    /\ status[t] = "none"
    /\ Bill(t, "pending", builder[t], "reserved", {})
    /\ retryOf' = retryOf /\ attempt' = attempt

Retried(t, source) ==
    /\ status[t] = "none"
    /\ Bill(t, "pending", builder[t], IF plan.chargeRetry THEN "reserved" ELSE resv[t], {})
    /\ retryOf' = [retryOf EXCEPT ![t] = source] /\ attempt' = attempt

ClaimedMetered(t, b) ==
    /\ Claimable(t)
    /\ \/ Uncharged(t) /\ Bill(t, "building", b, resv[t], {})
       \/ /\ ~Uncharged(t) /\ resv[t] \in {"reserved", "confirmed"}
          /\ Bill(t, "building", b, "confirmed", {"started"})
    /\ retryOf' = retryOf /\ attempt' = [attempt EXCEPT ![t] = @ + 1]

ClaimedUnmetered(t, b) ==
    /\ Claimable(t) /\ b \in Legacy
    /\ Bill(t, "building", b, resv[t], {})
    /\ retryOf' = retryOf /\ attempt' = [attempt EXCEPT ![t] = @ + 1]

Progresses(t, s) ==
    /\ Running(t)
    /\ Bill(t, s, builder[t], resv[t], {})
    /\ retryOf' = retryOf /\ attempt' = attempt

Ends(t, s, entries) ==
    /\ Running(t)
    /\ "succeeded" \in entries => s = "success"
    /\ "refund" \in entries => ~Uncharged(t)
    /\ Bill(t, s, builder[t], resv[t], entries)
    /\ retryOf' = retryOf /\ attempt' = attempt

Released(r) == IF r = "reserved" THEN "released" ELSE r

Cancels(t, r) ==
    /\ status[t] \in {"pending"} \cup Phase
    /\ attempt[t] = 0 => resv[t] # "confirmed" /\ r = Released(resv[t])
    /\ attempt[t] # 0 => r = resv[t]
    /\ Bill(t, "cancelled", builder[t], r, {})
    /\ retryOf' = retryOf /\ attempt' = [attempt EXCEPT ![t] = @ + 1]

Expires(t) ==
    /\ resv[t] = "reserved"
    /\ Bill(t, status[t], builder[t], "expired", {})
    /\ retryOf' = retryOf /\ attempt' = attempt

BillStep(t) ==
    \/ Ordered(t)
    \/ \E source \in Task : Retried(t, source)
    \/ \E b \in Builder : ClaimedMetered(t, b) \/ ClaimedUnmetered(t, b)
    \/ \E s \in Phase : Progresses(t, s)
    \/ \E s \in {"success", "failed"}, entries \in SUBSET {"succeeded", "refund"} : Ends(t, s, entries)
    \/ \E r \in Reservation : Cancels(t, r)
    \/ Expires(t)

BillsUnchanged == UNCHANGED <<status, builder, attempt, retryOf, resv, ledger>>

\* A metered claim confirms the reservation of its task or finds it uncharged.
LEMMA GrantIsBillStep ==
    ASSUME TypeOK, NEW t \in Task, NEW b \in Builder, Claimable(t), Grant(t, b), plan' = plan,
           subscribed[TenantOf[t]], subscribed' = subscribed, retryOf' = retryOf
    PROVE  BillStep(t)
<1>1. /\ status' = [status EXCEPT ![t] = "building"]
      /\ builder' = [builder EXCEPT ![t] = b]
      /\ attempt' = [attempt EXCEPT ![t] = @ + 1]
      /\ ConfirmQuota(t)
    BY DEF Grant
<1>2. CASE Uncharged(t)
    <2>1. resv' = [resv EXCEPT ![t] = resv[t]] /\ ledger' = ledger \cup ({t} \X {})
        BY <1>1, <1>2 DEF ConfirmQuota, billVars, TypeOK
    <2>2. ClaimedMetered(t, b)
        BY <1>1, <1>2, <2>1 DEF ClaimedMetered, Bill
    <2> QED BY <2>2 DEF BillStep
<1>3. CASE ~Uncharged(t)
    <2>1. /\ resv[t] \in {"reserved", "confirmed"}
          /\ resv' = [resv EXCEPT ![t] = "confirmed"]
          /\ ledger' = ledger \cup ({t} \X {"started"})
        BY <1>1, <1>3 DEF ConfirmQuota
    <2>2. ClaimedMetered(t, b)
        BY <1>1, <1>3, <2>1 DEF ClaimedMetered, Bill
    <2> QED BY <2>2 DEF BillStep
<1> QED BY <1>2, <1>3

\* The end of a build writes its entries and leaves the reservation alone.
LEMMA FinishIsBillStep ==
    ASSUME TypeOK, NEW t \in Task, NEW a, Running(t), NEW outcome \in {"success", "failed"},
           NEW entries \in SUBSET {"succeeded", "refund"},
           "succeeded" \in entries => outcome = "success",
           "refund" \in entries => ~Uncharged(t),
           Finish(t, a, outcome, entries)
    PROVE  BillStep(t)
<1>1. Bill(t, outcome, builder[t], resv[t], entries) /\ retryOf' = retryOf /\ attempt' = attempt
    BY DEF Finish, Bill, envVars, TypeOK
<1>2. Ends(t, outcome, entries)
    BY <1>1 DEF Ends
<1> QED BY <1>2 DEF BillStep

\* Every step changes the bill of at most one task, in one of these ways.
LEMMA EveryBillStep ==
    ASSUME TypeOK, [Next]_vars
    PROVE  BillsUnchanged \/ \E t \in Task : BillStep(t)
<1>0. \A t \in Task : /\ builder = [builder EXCEPT ![t] = builder[t]]
                      /\ resv = [resv EXCEPT ![t] = resv[t]]
                      /\ status = [status EXCEPT ![t] = status[t]]
                      /\ ledger = ledger \cup ({t} \X {})
    BY DEF TypeOK
<1>1. ASSUME NEW t \in Task, CreateBuildTask(t) PROVE BillStep(t)
    <2>1. Ordered(t)
        BY <1>0, <1>1 DEF CreateBuildTask, NextId, Ordered, Bill, envVars
    <2> QED BY <2>1 DEF BillStep
<1>2. ASSUME NEW t \in Task, NEW source \in Task, RetryBuildTask(t, source) PROVE BillStep(t)
    <2>1. Retried(t, source)
        BY <1>0, <1>2 DEF RetryBuildTask, NextId, Retried, Bill, envVars
    <2> QED BY <2>1 DEF BillStep
<1>3. ASSUME NEW t \in Task, CancelBuildTask(t) PROVE BillStep(t)
    <2>1. \E r \in Reservation :
            /\ resv' = [resv EXCEPT ![t] = r]
            /\ attempt[t] = 0 => resv[t] # "confirmed" /\ r = Released(resv[t])
            /\ attempt[t] # 0 => r = resv[t]
        <3>1. CASE attempt[t] = 0 /\ resv[t] = "reserved"
            BY <1>3, <3>1 DEF CancelBuildTask, ReleaseQuota, Reservation, Released
        <3>2. CASE attempt[t] = 0 /\ resv[t] # "reserved"
            BY <1>0, <1>3, <3>2 DEF CancelBuildTask, ReleaseQuota, Reservation, Released, TypeOK
        <3>3. CASE attempt[t] # 0
            BY <1>0, <1>3, <3>3 DEF CancelBuildTask, TypeOK
        <3> QED BY <3>1, <3>2, <3>3
    <2>2. PICK r \in Reservation :
            /\ resv' = [resv EXCEPT ![t] = r]
            /\ attempt[t] = 0 => resv[t] # "confirmed" /\ r = Released(resv[t])
            /\ attempt[t] # 0 => r = resv[t]
        BY <2>1
    <2>3. Bill(t, "cancelled", builder[t], r, {})
        BY <1>0, <1>3, <2>2 DEF CancelBuildTask, Bill, Released, envVars
    <2>4. Cancels(t, r)
        BY <1>3, <2>2, <2>3 DEF CancelBuildTask, Cancels
    <2> QED BY <2>4 DEF BillStep
<1>4. ASSUME NEW n \in Node, ClaimScheduledBuildTask(n) PROVE \E t \in Task : BillStep(t)
    <2>1. plan' = plan /\ subscribed' = subscribed /\ retryOf' = retryOf
        BY <1>4 DEF ClaimScheduledBuildTask, envVars
    <2> QED BY <1>4, <2>1, ScheduledClaimGrants, GrantIsBillStep DEF Builder
<1>5. ASSUME NEW b \in Agent, ClaimLocalAgentBuildTask(b) PROVE \E t \in Task : BillStep(t)
    <2>1. plan' = plan /\ subscribed' = subscribed /\ retryOf' = retryOf
        BY <1>5 DEF ClaimLocalAgentBuildTask, envVars
    <2> QED BY <1>5, <2>1, AgentClaimGrants, GrantIsBillStep DEF Builder
<1>6. ASSUME NEW b \in Legacy, ClaimBuildTask(b) PROVE \E t \in Task : BillStep(t)
    <2>1. PICK t \in Task : /\ Claimable(t)
                            /\ status' = [status EXCEPT ![t] = "building"]
                            /\ attempt' = [attempt EXCEPT ![t] = @ + 1]
                            /\ builder' = [builder EXCEPT ![t] = b]
        BY <1>6 DEF ClaimBuildTask, FirstOf
    <2>2. ClaimedUnmetered(t, b)
        BY <1>0, <1>6, <2>1 DEF ClaimBuildTask, ClaimedUnmetered, Bill, billVars, envVars
    <2> QED BY <2>2 DEF BillStep, Builder
<1>7. ASSUME NEW b \in Builder, NEW t \in Task, NEW a \in 1..MaxAttempt, NEW phase \in Phase,
             ReportBuildProgress(b, t, a, phase)
      PROVE  BillStep(t)
    <2>1. Progresses(t, phase)
        BY <1>0, <1>7 DEF ReportBuildProgress, Owns, Progresses, Bill, billVars, envVars
    <2> QED BY <2>1 DEF BillStep
<1>8. ASSUME NEW b \in Builder, NEW t \in Task, NEW a \in 1..MaxAttempt,
             NEW outcome \in {"success", "failed"}, NEW entries \in SUBSET {"succeeded", "refund"},
             Closes(b, t, a, outcome, entries)
      PROVE  BillStep(t)
    BY <1>8, FinishIsBillStep DEF Closes, Owns
<1>10. ASSUME NEW t \in Task, ReservationExpires(t) PROVE BillStep(t)
    <2>1. Expires(t)
        BY <1>0, <1>10 DEF ReservationExpires, Expires, Bill, taskVars
    <2> QED BY <2>1 DEF BillStep
<1>11. ASSUME NEW t \in Task, TaskLeasePasses(t) PROVE BillsUnchanged
    BY <1>11 DEF TaskLeasePasses, BillsUnchanged, billVars
<1>12. CASE Environment
    BY <1>10, <1>11, <1>12 DEF Environment, SlotLeasePasses, ChangeSubscription, ChangePlan,
        BillsUnchanged, billVars, taskVars
<1>13. CASE UNCHANGED clusterVars \/ UNCHANGED vars
    BY <1>13 DEF clusterVars, vars, taskVars, billVars, BillsUnchanged
<1> QED
    BY <1>1, <1>2, <1>3, <1>4, <1>5, <1>6, <1>7, <1>8, <1>12, <1>13, BuilderRequestForms
    DEF Next, Requests

-----------------------------------------------------------------------------
(***************************************************************************)
(* ChargedWithReservation is not inductive: a build succeeds because its   *)
(* claim was charged, so the invariant has to speak of running tasks too,  *)
(* and of tasks that have no row yet.                                      *)
(***************************************************************************)

ChargeFits(t) ==
    /\ <<t, "started">> \in ledger <=> resv[t] = "confirmed"
    /\ status[t] = "none" => resv[t] = "none" /\ retryOf[t] = NoTask
    /\ Running(t) /\ Metered(t) => resv[t] = "confirmed" \/ retryOf[t] # NoTask
    /\ <<t, "succeeded">> \in ledger =>
         /\ status[t] = "success"
         /\ Metered(t) => resv[t] = "confirmed" \/ retryOf[t] # NoTask

ChargesFit == \A t \in Task : ChargeFits(t)

\* A task whose bill is not touched keeps what was true of it.
LEMMA OtherBillUntouched ==
    ASSUME TypeOK, NEW t \in Task, NEW u \in Task, u # t,
           BillsUnchanged \/ BillStep(t)
    PROVE  /\ status'[u] = status[u] /\ builder'[u] = builder[u] /\ attempt'[u] = attempt[u]
           /\ resv'[u] = resv[u] /\ retryOf'[u] = retryOf[u]
           /\ \A e \in Entry : <<u, e>> \in ledger' <=> <<u, e>> \in ledger
BY DEF BillsUnchanged, BillStep, Bill, Ordered, Retried, ClaimedMetered, ClaimedUnmetered, Progresses,
    Ends, Cancels, Expires, TypeOK

\* ChargesFit is inductive.
LEMMA ChargesStayFitting == Spec => []ChargesFit
<1>1. Init => ChargesFit
    BY PhaseAssumption DEF Init, ChargesFit, ChargeFits, Running
<1>2. TypeOK /\ ChargesFit /\ [Next]_vars => ChargesFit'
    <2> SUFFICES ASSUME TypeOK, ChargesFit, [Next]_vars, NEW u \in Task PROVE ChargeFits(u)'
        BY DEF ChargesFit
    <2>0. ChargeFits(u)
        BY DEF ChargesFit
    <2>1. CASE BillsUnchanged
        BY <2>0, <2>1 DEF BillsUnchanged, ChargeFits, Running, Metered
    <2>2. ASSUME NEW t \in Task, BillStep(t), t # u PROVE ChargeFits(u)'
        <3>1. /\ status'[u] = status[u] /\ builder'[u] = builder[u]
              /\ resv'[u] = resv[u] /\ retryOf'[u] = retryOf[u]
              /\ <<u, "started">> \in ledger' <=> <<u, "started">> \in ledger
              /\ <<u, "succeeded">> \in ledger' <=> <<u, "succeeded">> \in ledger
            BY <2>2, OtherBillUntouched DEF Entry
        <3> QED BY <2>0, <3>1 DEF ChargeFits, Running, Metered
    <2>3. ASSUME BillStep(u) PROVE ChargeFits(u)'
        <3> USE <2>0, PhaseAssumption DEF ChargeFits, Running, Metered, Bill, TypeOK
        <3>1. CASE Ordered(u)
            BY <3>1 DEF Ordered
        <3>2. ASSUME NEW source \in Task, Retried(u, source) PROVE ChargeFits(u)'
            BY <3>2, TasksAssumption DEF Retried
        <3>3. ASSUME NEW b \in Builder, ClaimedMetered(u, b) PROVE ChargeFits(u)'
            BY <3>3 DEF ClaimedMetered, Claimable, Uncharged
        <3>4. ASSUME NEW b \in Builder, ClaimedUnmetered(u, b) PROVE ChargeFits(u)'
            BY <3>4 DEF ClaimedUnmetered, Claimable
        <3>5. ASSUME NEW s \in Phase, Progresses(u, s) PROVE ChargeFits(u)'
            BY <3>5 DEF Progresses
        <3>6. ASSUME NEW s \in {"success", "failed"}, NEW entries \in SUBSET {"succeeded", "refund"},
                     Ends(u, s, entries)
              PROVE  ChargeFits(u)'
            BY <3>6 DEF Ends
        <3>7. ASSUME NEW r \in Reservation, Cancels(u, r) PROVE ChargeFits(u)'
            BY <3>7 DEF Cancels, Released
        <3>8. CASE Expires(u)
            BY <3>8 DEF Expires
        <3> QED BY <2>3, <3>1, <3>2, <3>3, <3>4, <3>5, <3>6, <3>7, <3>8 DEF BillStep
    <2> QED BY <2>1, <2>2, <2>3, EveryBillStep
<1> QED BY <1>1, <1>2, TypeCorrect, PTL DEF Spec

\* However often a task is claimed, recovered, retried or cancelled, by whatever
\* builders and under whatever plans, it is charged with its reservation.
THEOREM ChargesFollowReservations == Spec => []ChargedWithReservation
<1>1. ChargesFit => ChargedWithReservation
    BY DEF ChargesFit, ChargeFits, ChargedWithReservation
<1> QED BY <1>1, ChargesStayFitting, PTL

-----------------------------------------------------------------------------
(***************************************************************************)
(* What is left of a reservation, and what is refunded, is decided when a  *)
(* build ends, by the plan of that moment; whether it was charged, by the  *)
(* plan of its claim.  So both need a plan that keeps the price of retries *)
(* (charge_retry_build).  Subscriptions, the other flags of the plan,      *)
(* expiring reservations and V1 builders do as they like.                  *)
(***************************************************************************)

RetriesKeepPrice == [][plan'.chargeRetry = plan.chargeRetry]_vars

BillFits(t) ==
    /\ status[t] = "none" => resv[t] = "none" /\ retryOf[t] = NoTask
    /\ status[t] \in {"none", "pending"} => attempt[t] = 0
    /\ Uncharged(t) => resv[t] \notin {"reserved", "confirmed"}
    /\ Running(t) /\ Metered(t) => resv[t] = "confirmed" \/ Uncharged(t)
    /\ status[t] \in Terminal /\ Metered(t) => resv[t] # "reserved"
    /\ <<t, "refund">> \in ledger =>
         status[t] \in Terminal /\ (Metered(t) => resv[t] = "confirmed")

BillsFit == \A t \in Task : BillFits(t)

\* BillsFit is inductive while retries keep their price.
LEMMA BillsStayFitting == Spec /\ RetriesKeepPrice => []BillsFit
<1>1. Init => BillsFit
    BY PhaseAssumption DEF Init, BillsFit, BillFits, Running, Uncharged, Terminal
<1>2. TypeOK /\ BillsFit /\ [Next]_vars /\ [plan'.chargeRetry = plan.chargeRetry]_vars => BillsFit'
    <2> SUFFICES ASSUME TypeOK, BillsFit, [Next]_vars, [plan'.chargeRetry = plan.chargeRetry]_vars,
                        NEW u \in Task
                 PROVE  BillFits(u)'
        BY DEF BillsFit
    <2>0. BillFits(u) /\ plan'.chargeRetry = plan.chargeRetry
        BY DEF BillsFit, vars, clusterVars, envVars
    <2>1. CASE BillsUnchanged
        BY <2>0, <2>1 DEF BillsUnchanged, BillFits, Running, Metered, Uncharged
    <2>2. ASSUME NEW t \in Task, BillStep(t), t # u PROVE BillFits(u)'
        BY <2>0, <2>2, OtherBillUntouched DEF BillFits, Running, Metered, Uncharged, Entry
    <2>3. ASSUME BillStep(u) PROVE BillFits(u)'
        <3> USE <2>0, PhaseAssumption DEF BillFits, Running, Metered, Uncharged, Terminal, Bill, TypeOK
        <3>1. CASE Ordered(u)
            BY <3>1 DEF Ordered
        <3>2. ASSUME NEW source \in Task, Retried(u, source) PROVE BillFits(u)'
            BY <3>2 DEF Retried
        <3>3. ASSUME NEW b \in Builder, ClaimedMetered(u, b) PROVE BillFits(u)'
            BY <3>3 DEF ClaimedMetered, Claimable
        <3>4. ASSUME NEW b \in Builder, ClaimedUnmetered(u, b) PROVE BillFits(u)'
            BY <3>4 DEF ClaimedUnmetered, Claimable
        <3>5. ASSUME NEW s \in Phase, Progresses(u, s) PROVE BillFits(u)'
            BY <3>5 DEF Progresses
        <3>6. ASSUME NEW s \in {"success", "failed"}, NEW entries \in SUBSET {"succeeded", "refund"},
                     Ends(u, s, entries)
              PROVE  BillFits(u)'
            BY <3>6 DEF Ends
        <3>7. ASSUME NEW r \in Reservation, Cancels(u, r) PROVE BillFits(u)'
            BY <3>7 DEF Cancels, Released
        <3>8. CASE Expires(u)
            BY <3>8 DEF Expires
        <3> QED BY <2>3, <3>1, <3>2, <3>3, <3>4, <3>5, <3>6, <3>7, <3>8 DEF BillStep
    <2> QED BY <2>1, <2>2, <2>3, EveryBillStep
<1> QED BY <1>1, <1>2, TypeCorrect, PTL DEF Spec, RetriesKeepPrice

\* While retries keep their price, no task ends with its reservation open.
THEOREM ReservationsAreSettled == Spec /\ RetriesKeepPrice => []NoReservationLeaks
<1>1. BillsFit => NoReservationLeaks
    BY DEF BillsFit, BillFits, NoReservationLeaks
<1> QED BY <1>1, BillsStayFitting, PTL

\* Nor is a build refunded that was never charged.
THEOREM RefundsAreOfCharges == Spec /\ RetriesKeepPrice => []RefundsWereCharged
<1>1. BillsFit /\ ChargesFit => RefundsWereCharged
    BY DEF BillsFit, BillFits, ChargesFit, ChargeFits, RefundsWereCharged
<1> QED BY <1>1, BillsStayFitting, ChargesStayFitting, PTL

-----------------------------------------------------------------------------
(***************************************************************************)
(* The two models of build.count.  QuotaReservation says what reserving,   *)
(* confirming, releasing and refunding count and when each is allowed;     *)
(* BuildCluster, when they are called.  Here they meet: whatever builders, *)
(* users and plans do, each tenant's reservations and ledger rows change   *)
(* as QuotaReservation says, and so does whether it may consume.  The      *)
(* cluster leaves the limit, the clock and the billing periods out, so the *)
(* limit is none, the time and the period are one, and a subscription is   *)
(* active or not.                                                          *)
(***************************************************************************)

TasksOf(x) == {t \in Task : TenantOf[t] = x}

Quota(x) ==
    INSTANCE QuotaReservation WITH
        Key <- TasksOf(x), Stale <- {}, Refundable <- TasksOf(x), Limit <- -1,
        Cycle <- 1, MonthLength <- 1, LastTick <- 1, LastPeriod <- 1,
        now <- 1,
        standing <- IF subscribed[x] THEN "active" ELSE "inactive", source <- "grant",
        period <- 1, start <- [p \in 1..1 |-> 1], end <- [p \in 1..1 |-> 2],
        resv <- [t \in TasksOf(x) |-> resv[t]],
        madeIn <- [t \in TasksOf(x) |-> IF resv[t] = "none" THEN 0 ELSE 1],
        charged <- [t \in TasksOf(x) |-> IF <<t, "started">> \in ledger THEN 1 ELSE 0],
        chargedIn <- [t \in TasksOf(x) |-> IF <<t, "started">> \in ledger THEN 1 ELSE 0],
        refunded <- [t \in TasksOf(x) |-> IF <<t, "refund">> \in ledger THEN 1 ELSE 0],
        view <- [t \in {} |-> {}]

\* A reservation is released with its task, and only an ended build is refunded.
LedgerFits(t) ==
    /\ resv[t] = "released" => status[t] \in Terminal
    /\ <<t, "refund">> \in ledger => status[t] \in Terminal

LedgersFit == \A t \in Task : LedgerFits(t)

\* LedgersFit is inductive.
LEMMA LedgersStayFitting == Spec => []LedgersFit
<1>1. Init => LedgersFit
    BY DEF Init, LedgersFit, LedgerFits
<1>2. TypeOK /\ LedgersFit /\ [Next]_vars => LedgersFit'
    <2> SUFFICES ASSUME TypeOK, LedgersFit, [Next]_vars, NEW u \in Task PROVE LedgerFits(u)'
        BY DEF LedgersFit
    <2>0. LedgerFits(u)
        BY DEF LedgersFit
    <2>1. CASE BillsUnchanged
        BY <2>0, <2>1 DEF BillsUnchanged, LedgerFits
    <2>2. ASSUME NEW t \in Task, BillStep(t), t # u PROVE LedgerFits(u)'
        BY <2>0, <2>2, OtherBillUntouched DEF LedgerFits, Entry
    <2>3. ASSUME BillStep(u) PROVE LedgerFits(u)'
        BY <2>0, <2>3, PhaseAssumption DEF LedgerFits, BillStep, Ordered, Retried, ClaimedMetered,
            ClaimedUnmetered, Progresses, Ends, Cancels, Released, Expires, Bill, Claimable, Running,
            Terminal, TypeOK
    <2> QED BY <2>1, <2>2, <2>3, EveryBillStep
<1> QED BY <1>1, <1>2, TypeCorrect, PTL DEF Spec

\* The reservations and rows of a tenant change as QuotaReservation says.
LEMMA BillStepImplementsQuota ==
    ASSUME TypeOK, ChargesFit, LedgersFit, NEW x \in Tenant, NEW t \in Task, BillStep(t)
    PROVE  [Quota(x)!QuotaNext]_(Quota(x)!quotaVars)
<1>0. /\ ChargeFits(t) /\ LedgerFits(t)
      /\ resv[t] \in Reservation
    BY DEF ChargesFit, LedgersFit, TypeOK
<1>1. \A u \in Task : u # t =>
        /\ resv'[u] = resv[u]
        /\ <<u, "started">> \in ledger' <=> <<u, "started">> \in ledger
        /\ <<u, "refund">> \in ledger' <=> <<u, "refund">> \in ledger
    BY OtherBillUntouched DEF Entry
<1>2. ASSUME \/ TenantOf[t] # x
             \/ /\ resv'[t] = resv[t]
                /\ <<t, "started">> \in ledger' <=> <<t, "started">> \in ledger
                /\ <<t, "refund">> \in ledger' <=> <<t, "refund">> \in ledger
      PROVE  UNCHANGED Quota(x)!quotaVars
    <2>0. subscribed' = subscribed
        BY DEF BillStep, Ordered, Retried, ClaimedMetered, ClaimedUnmetered, Progresses, Ends,
            Cancels, Expires, Bill
    <2>1. ASSUME NEW u \in TasksOf(x)
          PROVE  /\ resv'[u] = resv[u]
                 /\ <<u, "started">> \in ledger' <=> <<u, "started">> \in ledger
                 /\ <<u, "refund">> \in ledger' <=> <<u, "refund">> \in ledger
        BY <1>1, <1>2 DEF TasksOf
    <2>2. [u \in TasksOf(x) |-> resv[u]]' = [u \in TasksOf(x) |-> resv[u]]
        BY <2>1 DEF TasksOf
    <2>3. [u \in TasksOf(x) |-> IF resv[u] = "none" THEN 0 ELSE 1]'
            = [u \in TasksOf(x) |-> IF resv[u] = "none" THEN 0 ELSE 1]
        BY <2>1 DEF TasksOf
    <2>4. [u \in TasksOf(x) |-> IF <<u, "started">> \in ledger THEN 1 ELSE 0]'
            = [u \in TasksOf(x) |-> IF <<u, "started">> \in ledger THEN 1 ELSE 0]
        BY <2>1 DEF TasksOf
    <2>5. [u \in TasksOf(x) |-> IF <<u, "refund">> \in ledger THEN 1 ELSE 0]'
            = [u \in TasksOf(x) |-> IF <<u, "refund">> \in ledger THEN 1 ELSE 0]
        BY <2>1 DEF TasksOf
    <2> QED BY <2>0, <2>2, <2>3, <2>4, <2>5
        DEF Quota!quotaVars, Quota!subscriptionVars, Quota!accountVars
<1>s. /\ UNCHANGED Quota(x)!subscriptionVars
      /\ TenantOf[t] = x /\ resv'[t] # resv[t] /\ resv'[t] \in {"reserved", "confirmed"}
            => Quota(x)!Consuming
    <2>1. subscribed' = subscribed
        BY DEF BillStep, Ordered, Retried, ClaimedMetered, ClaimedUnmetered, Progresses, Ends,
            Cancels, Expires, Bill
    <2>2. TenantOf[t] = x /\ resv'[t] # resv[t] /\ resv'[t] \in {"reserved", "confirmed"}
            => subscribed[x]
        BY DEF BillStep, Ordered, Retried, ClaimedMetered, ClaimedUnmetered, Progresses, Ends,
            Cancels, Released, Expires, Bill, TypeOK
    <2> QED BY <2>1, <2>2 DEF Quota!subscriptionVars, Quota!Consuming
<1>3. ASSUME TenantOf[t] = x, resv[t] = "none", resv'[t] = "reserved",
             <<t, "started">> \in ledger' <=> <<t, "started">> \in ledger,
             <<t, "refund">> \in ledger' <=> <<t, "refund">> \in ledger
      PROVE  Quota(x)!ReserveQuota(t)
    <2>1. t \in TasksOf(x) /\ Quota(x)!Admits(Quota(x)!Committed)
        BY <1>3, <1>s DEF Quota!Admits, Quota!Fits, TasksOf
    <2>2. Quota(x)!Insert(t)
        BY <1>1, <1>3, <2>1 DEF Quota!Insert, TasksOf
    <2>3. [u \in TasksOf(x) |-> resv[u]][t] = "none"
        BY <1>3, <2>1
    <2> QED BY <1>s, <2>1, <2>2, <2>3 DEF Quota!ReserveQuota
<1>4. ASSUME TenantOf[t] = x, resv[t] = "reserved", resv'[t] = "confirmed",
             <<t, "started">> \in ledger',
             <<t, "refund">> \in ledger' <=> <<t, "refund">> \in ledger
      PROVE  Quota(x)!ConfirmQuota(t)
    BY <1>1, <1>4, <1>s DEF Quota!ConfirmQuota, TasksOf
<1>5. ASSUME TenantOf[t] = x, resv[t] = "reserved", resv'[t] \in {"released", "expired"},
             <<t, "started">> \in ledger' <=> <<t, "started">> \in ledger,
             <<t, "refund">> \in ledger' <=> <<t, "refund">> \in ledger
      PROVE  Quota(x)!ReleaseQuota(t)
    BY <1>1, <1>5, <1>s DEF Quota!ReleaseQuota, TasksOf
<1>6. ASSUME TenantOf[t] = x, resv[t] # "released", resv'[t] = resv[t],
             <<t, "started">> \in ledger' <=> <<t, "started">> \in ledger,
             <<t, "refund">> \in ledger', <<t, "refund">> \notin ledger
      PROVE  Quota(x)!RefundUsage(t)
    BY <1>1, <1>6, <1>s DEF Quota!RefundUsage, TasksOf
<1>7. CASE TenantOf[t] # x
    BY <1>2, <1>7
<1>8. CASE TenantOf[t] = x
    <2>0. t \in TasksOf(x)
        BY <1>8 DEF TasksOf
    <2>1. SUFFICES \/ Quota(x)!ReserveQuota(t) \/ Quota(x)!ConfirmQuota(t)
                   \/ Quota(x)!ReleaseQuota(t) \/ Quota(x)!RefundUsage(t)
                   \/ UNCHANGED Quota(x)!quotaVars
        BY <2>0 DEF Quota!QuotaNext
    <2> USE <1>0, <1>8 DEF Bill, TypeOK
    <2>2. CASE Ordered(t)
        BY <2>2, <1>3 DEF Ordered, ChargeFits
    <2>3. ASSUME NEW source \in Task, Retried(t, source)
          PROVE  Quota(x)!ReserveQuota(t) \/ UNCHANGED Quota(x)!quotaVars
        BY <2>3, <1>2, <1>3 DEF Retried, ChargeFits
    <2>4. ASSUME NEW b \in Builder, ClaimedMetered(t, b)
          PROVE  Quota(x)!ConfirmQuota(t) \/ UNCHANGED Quota(x)!quotaVars
        BY <2>4, <1>2, <1>4 DEF ClaimedMetered, ChargeFits
    <2>5. ASSUME NEW b \in Builder, ClaimedUnmetered(t, b) PROVE UNCHANGED Quota(x)!quotaVars
        BY <2>5, <1>2 DEF ClaimedUnmetered
    <2>6. ASSUME NEW s \in Phase, Progresses(t, s) PROVE UNCHANGED Quota(x)!quotaVars
        BY <2>6, <1>2 DEF Progresses
    <2>7. ASSUME NEW s \in {"success", "failed"}, NEW entries \in SUBSET {"succeeded", "refund"},
                 Ends(t, s, entries)
          PROVE  Quota(x)!RefundUsage(t) \/ UNCHANGED Quota(x)!quotaVars
        <3>1. /\ resv'[t] = resv[t] /\ resv[t] # "released" /\ <<t, "refund">> \notin ledger
              /\ <<t, "started">> \in ledger' <=> <<t, "started">> \in ledger
            BY <2>7, PhaseAssumption DEF Ends, Running, LedgerFits, Terminal
        <3>2. CASE "refund" \in entries
            BY <2>7, <3>1, <3>2, <1>6 DEF Ends
        <3>3. CASE "refund" \notin entries
            BY <2>7, <3>1, <3>3, <1>2 DEF Ends
        <3> QED BY <3>2, <3>3
    <2>8. ASSUME NEW r \in Reservation, Cancels(t, r)
          PROVE  Quota(x)!ReleaseQuota(t) \/ UNCHANGED Quota(x)!quotaVars
        BY <2>8, <1>2, <1>5 DEF Cancels, Released
    <2>9. CASE Expires(t)
        BY <2>9, <1>5 DEF Expires
    <2> QED BY <2>2, <2>3, <2>4, <2>5, <2>6, <2>7, <2>8, <2>9 DEF BillStep
<1> QED BY <1>7, <1>8

\* Every tenant's build.count is kept as QuotaReservation says.
THEOREM ClusterImplementsQuota == Spec => \A x \in Tenant : Quota(x)!QuotaSpec
<1> SUFFICES ASSUME NEW x \in Tenant PROVE Spec => Quota(x)!QuotaSpec
    OBVIOUS
<1>1. ASSUME Init PROVE Quota(x)!QuotaInit
    <2>1. /\ [p \in 1..1 |-> 1] = [p \in 1..1 |-> IF p = 1 THEN 1 ELSE 0]
          /\ [p \in 1..1 |-> 2] = [p \in 1..1 |-> IF p = 1 THEN 1 + 1 ELSE 0]
        OBVIOUS
    <2>2. \A t \in TasksOf(x) : /\ resv[t] = "none"
                               /\ <<t, "started">> \notin ledger /\ <<t, "refund">> \notin ledger
        BY <1>1 DEF Init, TasksOf
    <2>3. subscribed[x] = TRUE
        BY <1>1 DEF Init
    <2> QED BY <2>1, <2>2, <2>3 DEF Quota!QuotaInit, Quota!Period, Quota!Source
<1>2. TypeOK /\ TypeOK' /\ ChargesFit /\ LedgersFit /\ [Next]_vars
        => [Quota(x)!QuotaNext]_(Quota(x)!quotaVars)
    <2> SUFFICES ASSUME TypeOK, TypeOK', ChargesFit, LedgersFit, [Next]_vars
                 PROVE  [Quota(x)!QuotaNext]_(Quota(x)!quotaVars)
        OBVIOUS
    <2>1. CASE BillsUnchanged
        <3>1. UNCHANGED Quota(x)!accountVars
            BY <2>1 DEF BillsUnchanged, Quota!accountVars
        <3>2. CASE subscribed'[x] = subscribed[x]
            BY <3>1, <3>2 DEF Quota!quotaVars, Quota!subscriptionVars
        <3>3. CASE subscribed'[x] # subscribed[x]
            <4>1. Quota(x)!CancelNow \/ Quota(x)!ChangeNow
                BY <3>3 DEF TypeOK, Quota!CancelNow, Quota!ChangeNow, Quota!Stands
            <4> QED BY <3>1, <4>1 DEF Quota!QuotaNext, Quota!SubscriptionChanges
        <3> QED BY <3>2, <3>3
    <2> QED BY <2>1, EveryBillStep, BillStepImplementsQuota
<1> QED BY <1>1, <1>2, TypeCorrect, ChargesStayFitting, LedgersStayFitting, PTL
        DEF Spec, Quota!QuotaSpec
=============================================================================
