----------------------------- MODULE LocalAgents -----------------------------
(***************************************************************************)
(* The identity of Local Agents: registration, mutually authenticated      *)
(* requests, certificate rotation, draining and revocation                 *)
(* (local_agent_service.go, enterprise_worker.go) and the agent process    *)
(* with its state directory (local-agent/main.go).                         *)
(*                                                                         *)
(* The handler of a request runs two transactions.  The first one,         *)
(* authenticateLocalAgent, consumes the request and copies the agent's     *)
(* row; the second one acts on that copy, after the agent may have been    *)
(* drained, revoked or rotated, or the process may have given up on the    *)
(* answer and gone on.  The network may deliver a request late, twice or   *)
(* never.  The process sends one request at a time, with rising            *)
(* timestamps: the t-th request of an agent has timestamp t, its           *)
(* registration 0.  The nonce is unique to a request and refuses nothing   *)
(* the timestamp lets through; the window of five minutes around the       *)
(* clock only refuses more.  What a build is (task, attempt, quota) is     *)
(* the business of BuildCluster: here a build is the claim that won it.    *)
(***************************************************************************)
EXTENDS Naturals, Sequences, FiniteSets

CONSTANTS
    Agent,
    Protocol,       \* protocol versions of the agents' binaries
    MaxConcurrent,  \* max_concurrency of an agent
    MaxRequests,    \* bound on the requests of one agent
    MaxEdits,       \* bound on drain calls
    MaxFaults       \* bound on crashes and leases lost while renewed

ASSUME BoundsAssumption ==
    {MaxConcurrent, MaxRequests, MaxEdits, MaxFaults} \subseteq Nat
ASSUME ProtocolAssumption == Protocol \subseteq Nat

Time == 1 .. MaxRequests

VARIABLES
    token,          \* t_local_agent_registration.status
    registering,    \* registration handlers that have read a pending token
    status, drain, protocol, lastRequest, serial,   \* t_local_agent
    certificate,    \* t_local_agent_certificate, the index is the serial
    slots,          \* claims with a live slot of node local-<id>
    requests,       \* what the process sent, the index is the timestamp
    handlers,       \* requests between their two transactions
    saved,          \* serial in state.json, 0 for none
    client,         \* serial the running process presents, 0 when stopped
    builds,         \* claims whose build runs in the process
    awaited,        \* request whose answer the process awaits, 0 for none
    accepted,       \* how often a request was accepted (history)
    cutoff,         \* requests sent before the drain began (history)
    edits, faults

tables == <<token, status, drain, protocol, lastRequest, serial, certificate, slots>>
process == <<saved, client, builds, awaited>>
vars == <<tables, registering, requests, handlers, process, accepted, cutoff, edits, faults>>

Status == {"none", "pending", "online", "offline", "upgrade_required", "revoked"}
Drains == {"accepting", "draining", "drained"}
Op == {"heartbeat", "claim", "rotate", "end"}
Request == [op : Op, serial : Nat, of : Nat]
Handler == [agent : Agent, time : Time, mayClaim : BOOLEAN]
Certificate == [agent : Agent, status : {"active", "rotated", "revoked", "expired"}]

CertificatesOf(a) == {s \in DOMAIN certificate : certificate[s].agent = a}
ActiveCertificates(a) == {s \in CertificatesOf(a) : certificate[s].status = "active"}
RequestAt(h) == requests[h.agent][h.time]

\* Rows and the process agree on what exists: only a registered agent has
\* certificates, requests or slots, and every build belongs to a claim.
AgentsTypeOK ==
    /\ token \in [Agent -> {"none", "pending", "used", "revoked", "expired"}]
    /\ registering \in [Agent -> Nat]
    /\ status \in [Agent -> Status] /\ drain \in [Agent -> Drains]
    /\ protocol \in [Agent -> Nat] /\ lastRequest \in [Agent -> 0 .. MaxRequests]
    /\ certificate \in Seq(Certificate)
    /\ serial \in [Agent -> 0 .. Len(certificate)]
    /\ requests \in [Agent -> Seq(Request)]
    /\ handlers \in SUBSET Handler
    /\ saved \in [Agent -> 0 .. Len(certificate)] /\ client \in [Agent -> 0 .. Len(certificate)]
    /\ slots \in [Agent -> SUBSET Time] /\ builds \in [Agent -> SUBSET Time]
    /\ awaited \in [Agent -> 0 .. MaxRequests] /\ cutoff \in [Agent -> 0 .. MaxRequests]
    /\ accepted \in [Agent -> [Time -> Nat]]
    /\ edits \in Nat /\ faults \in Nat
    /\ \A a \in Agent :
        /\ status[a] = "none" <=> token[a] = "none"
        /\ token[a] # "used" => CertificatesOf(a) = {} /\ status[a] \in {"none", "pending", "revoked"}
        /\ serial[a] = 0 <=> CertificatesOf(a) = {}
        /\ {saved[a], client[a], serial[a]} \ {0} \subseteq CertificatesOf(a)
        /\ Len(requests[a]) =< MaxRequests
        /\ {t \in Time : accepted[a][t] > 0} \cup slots[a] \cup builds[a] \cup ({awaited[a]} \ {0})
              \subseteq DOMAIN requests[a]
        /\ \A t \in slots[a] \cup builds[a] : requests[a][t].op = "claim"
        /\ client[a] = 0 => builds[a] = {} /\ awaited[a] = 0
    /\ \A h \in handlers : accepted[h.agent][h.time] > 0

Init ==
    /\ token = [a \in Agent |-> "none"] /\ registering = [a \in Agent |-> 0]
    /\ status = [a \in Agent |-> "none"] /\ drain = [a \in Agent |-> "accepting"]
    /\ protocol = [a \in Agent |-> 0] /\ lastRequest = [a \in Agent |-> 0]
    /\ serial = [a \in Agent |-> 0] /\ certificate = <<>>
    /\ slots = [a \in Agent |-> {}]
    /\ requests = [a \in Agent |-> <<>>] /\ handlers = {}
    /\ saved = [a \in Agent |-> 0] /\ client = [a \in Agent |-> 0]
    /\ builds = [a \in Agent |-> {}] /\ awaited = [a \in Agent |-> 0]
    /\ accepted = [a \in Agent |-> [t \in Time |-> 0]]
    /\ cutoff = [a \in Agent |-> MaxRequests]
    /\ edits = 0 /\ faults = 0

-----------------------------------------------------------------------------
(* Compatibility of agents and control plane (agentprotocol).              *)
Supported(p) == p \in 2 .. 3
CanClaimTaskBundle(p) == Supported(p) /\ p >= 3
StatusForProtocol(p) == IF Supported(p) THEN "online" ELSE "upgrade_required"

(* Registration *)

\* createLocalAgentRegistration: a code is registered once and for all.
CreateLocalAgentRegistration(a) ==
    /\ status[a] = "none"
    /\ status' = [status EXCEPT ![a] = "pending"]
    /\ token' = [token EXCEPT ![a] = "pending"]
    /\ UNCHANGED <<drain, protocol, lastRequest, serial, certificate, slots, registering,
                   requests, handlers, process, accepted, cutoff, edits, faults>>

\* registerLocalAgent reads the token outside of its transaction and signs.
\* A retry of the register command may run beside the first one.
RegisterReads(a) ==
    /\ token[a] = "pending" /\ registering[a] < 2
    /\ registering' = [registering EXCEPT ![a] = @ + 1]
    /\ UNCHANGED <<tables, requests, handlers, process, accepted, cutoff, edits, faults>>

\* Mutant: a token that has issued a certificate stays usable.
IssueKeepsToken(a, p, answered) ==
    /\ certificate' = Append(certificate, [agent |-> a, status |-> "active"])
    /\ serial' = [serial EXCEPT ![a] = Len(certificate')]
    /\ status' = [status EXCEPT ![a] = StatusForProtocol(p)]
    /\ protocol' = [protocol EXCEPT ![a] = p]
    /\ saved' = IF answered THEN [saved EXCEPT ![a] = Len(certificate')] ELSE saved
    /\ UNCHANGED token

\* The rows of a registration; the key pair reaches the state directory only
\* with the answer, and the token is used up in either case.
IssueFirst(a, p, answered) ==
    /\ certificate' = Append(certificate, [agent |-> a, status |-> "active"])
    /\ serial' = [serial EXCEPT ![a] = Len(certificate')]
    /\ status' = [status EXCEPT ![a] = StatusForProtocol(p)]
    /\ protocol' = [protocol EXCEPT ![a] = p]
    /\ token' = [token EXCEPT ![a] = "used"]
    /\ saved' = IF answered THEN [saved EXCEPT ![a] = Len(certificate')] ELSE saved

\* Mutant: the transaction trusts the token it read before it began.
RegisterUnlocked(a, p, answered) ==
    /\ registering[a] > 0 /\ status[a] # "revoked"
    /\ registering' = [registering EXCEPT ![a] = @ - 1]
    /\ IssueFirst(a, p, answered)
    /\ UNCHANGED <<drain, lastRequest, slots, requests, handlers, client, builds, awaited,
                   accepted, cutoff, edits, faults>>

\* Its transaction, which locks the registration and reads it again.
RegisterLocalAgent(a, p, answered) ==
    /\ registering[a] > 0
    /\ registering' = [registering EXCEPT ![a] = @ - 1]
    /\ IF token[a] = "pending" /\ status[a] # "revoked"
         THEN IssueFirst(a, p, answered)
         ELSE UNCHANGED <<certificate, serial, status, protocol, token, saved>>
    /\ UNCHANGED <<drain, lastRequest, slots, requests, handlers, client, builds, awaited,
                   accepted, cutoff, edits, faults>>

TokenExpires(a) ==
    /\ token[a] = "pending"
    /\ token' = [token EXCEPT ![a] = "expired"]
    /\ UNCHANGED <<status, drain, protocol, lastRequest, serial, certificate, slots, registering,
                   requests, handlers, process, accepted, cutoff, edits, faults>>

-----------------------------------------------------------------------------
(* The agent process *)

Start(a) ==
    /\ client[a] = 0 /\ saved[a] # 0
    /\ client' = [client EXCEPT ![a] = saved[a]]
    /\ UNCHANGED <<tables, registering, requests, handlers, saved, builds, awaited,
                   accepted, cutoff, edits, faults>>

Crash(a) ==
    /\ client[a] # 0 /\ faults < MaxFaults
    /\ client' = [client EXCEPT ![a] = 0]
    /\ builds' = [builds EXCEPT ![a] = {}]
    /\ awaited' = [awaited EXCEPT ![a] = 0]
    /\ faults' = faults + 1
    /\ UNCHANGED <<tables, registering, requests, handlers, saved, accepted, cutoff, edits>>

\* postAuthenticatedJSON, one request at a time
Post(a, op, of) ==
    /\ client[a] # 0 /\ awaited[a] = 0 /\ Len(requests[a]) < MaxRequests
    /\ requests' = [requests EXCEPT ![a] = Append(@, [op |-> op, serial |-> client[a], of |-> of])]
    /\ awaited' = [awaited EXCEPT ![a] = Len(requests'[a])]

\* Mutant: the certificate is rotated although builds run.
SendWhileBuilding(a, op) ==
    /\ op = "claim" => Cardinality(builds[a]) < MaxConcurrent
    /\ Post(a, op, 0)
    /\ UNCHANGED <<tables, registering, handlers, saved, client, builds, accepted, cutoff, edits, faults>>

\* The loop of the run command: sendHeartbeat, rotateCertificateIfDue while no
\* build runs, and a claim while a slot is free.
Send(a, op) ==
    /\ op = "claim" => Cardinality(builds[a]) < MaxConcurrent
    /\ op = "rotate" => builds[a] = {}
    /\ Post(a, op, 0)
    /\ UNCHANGED <<tables, registering, handlers, saved, client, builds, accepted, cutoff, edits, faults>>

\* executeTask returns, having reported its result, or failed to.
EndBuild(a, t) ==
    /\ t \in builds[a]
    /\ builds' = [builds EXCEPT ![a] = @ \ {t}]
    /\ \/ Post(a, "end", t)
       \/ awaited[a] = 0 /\ UNCHANGED <<requests, awaited>>
    /\ UNCHANGED <<tables, registering, handlers, saved, client, accepted, cutoff, edits, faults>>

\* The process gives up on the answer; the request may still be on its way.
GiveUp(a) ==
    /\ awaited[a] # 0
    /\ awaited' = [awaited EXCEPT ![a] = 0]
    /\ UNCHANGED <<tables, registering, requests, handlers, saved, client, builds,
                   accepted, cutoff, edits, faults>>

-----------------------------------------------------------------------------
(* The handlers of the control plane *)

MayClaim(a) == status[a] = "online" /\ drain[a] = "accepting" /\ CanClaimTaskBundle(protocol[a])

Accept(a, t) ==
    /\ lastRequest' = [lastRequest EXCEPT ![a] = t]
    /\ handlers' = handlers \cup {[agent |-> a, time |-> t, mayClaim |-> MayClaim(a)]}
    /\ accepted' = [accepted EXCEPT ![a][t] = @ + 1]
    /\ UNCHANGED <<token, status, drain, protocol, serial, certificate, slots, registering,
                   requests, process, cutoff, edits, faults>>

\* Mutant: a request as new as the last one is taken for new.
AuthenticateRepeated(a, t) ==
    /\ t \in DOMAIN requests[a] /\ status[a] # "revoked"
    /\ certificate[requests[a][t].serial].status = "active"
    /\ t >= lastRequest[a]
    /\ Accept(a, t)

\* authenticateLocalAgent: agent and certificate are locked.  A certificate past
\* its not_after is refused before and after the worker marks it.
AuthenticateLocalAgent(a, t) ==
    /\ t \in DOMAIN requests[a] /\ status[a] # "revoked"
    /\ certificate[requests[a][t].serial].status = "active"
    /\ t > lastRequest[a]
    /\ Accept(a, t)

\* The handler of request h ends; its answer reaches a process that still waits.
InTime(h) == awaited[h.agent] = h.time

Answer(h) ==
    /\ handlers' = handlers \ {h}
    /\ awaited' = IF InTime(h) THEN [awaited EXCEPT ![h.agent] = 0] ELSE awaited

\* Mutant: the heartbeat of a revoked agent brings it back.
HeartbeatRevives(h, p) ==
    LET a == h.agent
    IN  /\ RequestAt(h).op = "heartbeat"
        /\ status' = [status EXCEPT ![a] = StatusForProtocol(p)]
        /\ protocol' = [protocol EXCEPT ![a] = p]
        /\ Answer(h)
        /\ UNCHANGED <<token, drain, lastRequest, serial, certificate, slots, registering, requests,
                       saved, client, builds, accepted, cutoff, edits, faults>>

HeartbeatLocalAgent(h, p) ==
    LET a == h.agent
    IN  /\ RequestAt(h).op = "heartbeat"
        /\ IF status[a] = "revoked"
             THEN UNCHANGED <<status, protocol>>
             ELSE /\ status' = [status EXCEPT ![a] = StatusForProtocol(p)]
                  /\ protocol' = [protocol EXCEPT ![a] = p]
        /\ Answer(h)
        /\ UNCHANGED <<token, drain, lastRequest, serial, certificate, slots, registering, requests,
                       saved, client, builds, accepted, cutoff, edits, faults>>

WithStatus(S, new) ==
    [s \in DOMAIN certificate |->
        IF s \in S THEN [certificate[s] EXCEPT !.status = new] ELSE certificate[s]]

\* rotateLocalAgentCertificate: whatever the agent's status is by now.  The
\* process writes the new key, then switches state.json in one rename.
RotateLocalAgentCertificate(h) ==
    LET a == h.agent
    IN  /\ RequestAt(h).op = "rotate"
        /\ certificate' = Append(WithStatus(ActiveCertificates(a), "rotated"),
                                 [agent |-> a, status |-> "active"])
        /\ serial' = [serial EXCEPT ![a] = Len(certificate')]
        /\ IF InTime(h)
             THEN /\ saved' = [saved EXCEPT ![a] = Len(certificate')]
                  /\ client' = [client EXCEPT ![a] = Len(certificate')]
             ELSE UNCHANGED <<saved, client>>
        /\ Answer(h)
        /\ UNCHANGED <<token, status, drain, protocol, lastRequest, slots, registering, requests,
                       builds, accepted, cutoff, edits, faults>>

\* claimLocalAgentBuildTask grants a task or none.
Grant(h, granted) ==
    LET a == h.agent
    IN  /\ RequestAt(h).op = "claim"
        /\ slots' = IF granted THEN [slots EXCEPT ![a] = @ \cup {h.time}] ELSE slots
        /\ builds' = IF granted /\ InTime(h) THEN [builds EXCEPT ![a] = @ \cup {h.time}] ELSE builds
        /\ Answer(h)
        /\ UNCHANGED <<token, status, drain, protocol, lastRequest, serial, certificate, registering,
                       requests, saved, client, accepted, cutoff, edits, faults>>

\* Mutant: a draining agent still claims.
ClaimWhileDraining(h, granted) ==
    /\ granted => /\ status[h.agent] = "online"
                  /\ Cardinality(slots[h.agent]) < MaxConcurrent
    /\ Grant(h, granted)

\* It judges the agent by the row that the first transaction copied.
ClaimLocalAgentBuildTask(h, granted) ==
    /\ granted => h.mayClaim /\ Cardinality(slots[h.agent]) < MaxConcurrent
    /\ Grant(h, granted)

\* completeLocalAgentBuildTask and failLocalAgentBuildTask release the slot.
EndLocalAgentBuildTask(h) ==
    LET a == h.agent
    IN  /\ RequestAt(h).op = "end"
        /\ slots' = [slots EXCEPT ![a] = @ \ {RequestAt(h).of}]
        /\ Answer(h)
        /\ UNCHANGED <<token, status, drain, protocol, lastRequest, serial, certificate, registering,
                       requests, saved, client, builds, accepted, cutoff, edits, faults>>

\* A handler ends between its transactions.
AbortHandler(h) ==
    /\ handlers' = handlers \ {h}
    /\ UNCHANGED <<tables, registering, requests, process, accepted, cutoff, edits, faults>>

-----------------------------------------------------------------------------
(* Administrators, the enterprise worker and time *)

SetDrain(a, d) ==
    /\ drain' = [drain EXCEPT ![a] = d]
    /\ cutoff' = [cutoff EXCEPT ![a] = IF d = "accepting" THEN MaxRequests
                                       ELSE IF drain[a] = "accepting" THEN Len(requests[a])
                                       ELSE @]

DrainLocalAgent(a, d) ==
    /\ status[a] \notin {"none", "revoked"} /\ d # drain[a] /\ edits < MaxEdits
    /\ SetDrain(a, d)
    /\ edits' = edits + 1
    /\ UNCHANGED <<token, status, protocol, lastRequest, serial, certificate, slots, registering,
                   requests, handlers, process, accepted, faults>>

RevokeLocalAgent(a) ==
    /\ status[a] \notin {"none", "revoked"}
    /\ status' = [status EXCEPT ![a] = "revoked"]
    /\ SetDrain(a, "drained")
    /\ certificate' = WithStatus(ActiveCertificates(a), "revoked")
    /\ token' = [token EXCEPT ![a] = IF @ \in {"pending", "expired"} THEN "revoked" ELSE @]
    /\ UNCHANGED <<protocol, lastRequest, serial, slots, registering, requests, handlers,
                   process, accepted, edits, faults>>

\* The three statements of EnterpriseWorker.RunOnce.  The last heartbeat may
\* be too old at any time.
ExpireCertificate(s) ==
    /\ certificate[s].status = "active" /\ faults < MaxFaults
    /\ certificate' = WithStatus({s}, "expired")
    /\ faults' = faults + 1
    /\ UNCHANGED <<token, status, drain, protocol, lastRequest, serial, slots, registering,
                   requests, handlers, process, accepted, cutoff, edits>>

MarkOffline(a) ==
    /\ status[a] = "online"
    /\ status' = [status EXCEPT ![a] = "offline"]
    /\ UNCHANGED <<token, drain, protocol, lastRequest, serial, certificate, slots, registering,
                   requests, handlers, process, accepted, cutoff, edits, faults>>

\* Mutant: the drain of an agent that went offline is forgotten.
CompleteDrainOnline(a) ==
    /\ drain[a] = "draining" /\ slots[a] = {} /\ status[a] = "online"
    /\ drain' = [drain EXCEPT ![a] = "drained"]
    /\ UNCHANGED <<token, status, protocol, lastRequest, serial, certificate, slots, registering,
                   requests, handlers, process, accepted, cutoff, edits, faults>>

CompleteDrain(a) ==
    /\ drain[a] = "draining" /\ slots[a] = {}
    /\ drain' = [drain EXCEPT ![a] = "drained"]
    /\ UNCHANGED <<token, status, protocol, lastRequest, serial, certificate, slots, registering,
                   requests, handlers, process, accepted, cutoff, edits, faults>>

\* The lease of a slot ends: nobody renews it, or the renewals do not arrive.
Renewed(a, t) ==
    /\ t \in builds[a] /\ status[a] # "revoked"
    /\ certificate[client[a]].status = "active"

LeaseLapses(a, t) ==
    /\ t \in slots[a]
    /\ IF Renewed(a, t) THEN faults < MaxFaults /\ faults' = faults + 1 ELSE UNCHANGED faults
    /\ slots' = [slots EXCEPT ![a] = @ \ {t}]
    /\ UNCHANGED <<token, status, drain, protocol, lastRequest, serial, certificate, registering,
                   requests, handlers, process, accepted, cutoff, edits>>

-----------------------------------------------------------------------------
Handle(h) ==
    \/ \E p \in Protocol : HeartbeatLocalAgent(h, p)
    \/ RotateLocalAgentCertificate(h)
    \/ \E granted \in BOOLEAN : ClaimLocalAgentBuildTask(h, granted)
    \/ EndLocalAgentBuildTask(h)
    \/ AbortHandler(h)

Next ==
    \/ \E a \in Agent :
        \/ CreateLocalAgentRegistration(a) \/ RegisterReads(a) \/ TokenExpires(a)
        \/ \E p \in Protocol, answered \in BOOLEAN : RegisterLocalAgent(a, p, answered)
        \/ Start(a) \/ Crash(a) \/ GiveUp(a)
        \/ \E op \in Op \ {"end"} : Send(a, op)
        \/ \E t \in Time : EndBuild(a, t) \/ AuthenticateLocalAgent(a, t) \/ LeaseLapses(a, t)
        \/ \E d \in Drains : DrainLocalAgent(a, d)
        \/ RevokeLocalAgent(a) \/ MarkOffline(a) \/ CompleteDrain(a)
    \/ \E h \in handlers : Handle(h)
    \/ \E s \in DOMAIN certificate : ExpireCertificate(s)

Spec == Init /\ [][Next]_vars

\* Builds end and requests time out, leases run out, and the worker of the core
\* service comes round every fifteen seconds.
Fairness ==
    \A a \in Agent :
        /\ WF_vars(GiveUp(a)) /\ WF_vars(CompleteDrain(a))
        /\ \A t \in Time : WF_vars(EndBuild(a, t)) /\ WF_vars(LeaseLapses(a, t))

FairSpec == Spec /\ Fairness

-----------------------------------------------------------------------------
\* A one-time token and any number of overlapping rotations leave an agent one
\* active certificate at most, the one its row names.
OneActiveCertificate ==
    \A a \in Agent : ActiveCertificates(a) \subseteq {serial[a]}

\* However often and in whatever order requests arrive, each is acted on once.
AcceptedOnce == \A a \in Agent, t \in Time : accepted[a][t] =< 1

\* No task is granted to a request sent after the drain (or the revocation) that
\* is in force, though the grant is decided on an old copy of the agent's row.
DrainIsRespected == \A a \in Agent : \A t \in slots[a] : t =< cutoff[a]

\* A process that builds is not locked out of its later reports, unless it had
\* asked for a rotation before it claimed the build, with this certificate or an
\* earlier one: nothing else makes a running build's certificate a rotated one.
BuildsCanReport ==
    \A a \in Agent : \A t \in builds[a] :
        certificate[requests[a][t].serial].status = "rotated" =>
            \E r \in 1 .. t - 1 : requests[a][r].op = "rotate"

\* A revoked agent stays revoked, and none of its requests is accepted again,
\* whatever calls were under way when it was revoked.
RevokedIsFinal ==
    [][\A a \in Agent : status[a] = "revoked" =>
          status'[a] = "revoked" /\ accepted'[a] = accepted[a]]_vars

\* Draining comes to an end, also for an agent that was lost meanwhile.
DrainsFinish == \A a \in Agent : drain[a] = "draining" ~> drain[a] # "draining"
=============================================================================
