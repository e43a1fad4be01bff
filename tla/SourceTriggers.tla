--------------------------- MODULE SourceTriggers ---------------------------
(***************************************************************************)
(* Builds that a push to a source repository starts: the events of one     *)
(* build trigger (t_source_webhook_event), the versions they import        *)
(* (t_app_version, t_source_artifact), the build tasks they create, and    *)
(* the workers of sourceworker/worker.go that take the events one by one.  *)
(*                                                                         *)
(* A worker claims an event under a lease of ten minutes, which it never   *)
(* renews, and then makes a series of calls: import, one CreateBuildTask   *)
(* per channel, complete, or fail.  None of them says which attempt it     *)
(* belongs to; they only look whether the event is being processed.  So a  *)
(* worker that outlives its lease goes on beside its successor.            *)
(*                                                                         *)
(* The model of the event reads through a Redis cache that the statements  *)
(* which change the event never clear.  Back-off is only a delay.  The     *)
(* stored object behind a version is the subject of StorageObjects.        *)
(***************************************************************************)
EXTENDS Naturals

CONSTANTS
    Event,          \* provider_event_id
    Artifact,       \* external_artifact_id, which has one source ref
    Channel, Worker,
    InitialChannels,    \* channel_ids the trigger was created with
    NoWork, NoArtifact,
    MaxAttempts,    \* sourceWebhookMaxAttempts
    MaxCode,        \* sourceVersionCodeMax
    UserCode,       \* the codes users choose
    MaxFaults,      \* bound on failing calls, crashes and stalls
    MaxEdits        \* bound on the changes of the trigger's channels

Code == 1..MaxCode
Status == {"none", "pending", "processing", "completed", "dead"}
Settled == {"completed", "dead"}
WorkStep == {"import", "insert", "create", "fail", "retry", "give up"}
Work == [event : Event, channels : SUBSET Channel, todo : SUBSET Channel,
         step : WorkStep, retryable : BOOLEAN]

ASSUME ChannelAssumption == InitialChannels \in (SUBSET Channel) \ {{}}
ASSUME AttemptsAssumption == MaxAttempts \in Nat \ {0}
ASSUME CodeAssumption == MaxCode \in Nat /\ UserCode \subseteq Code
ASSUME NoWorkAssumption == NoWork \notin Work
ASSUME BoundsAssumption == MaxFaults \in Nat /\ MaxEdits \in Nat
ASSUME NoArtifactAssumption == {NoArtifact, "none", "user"} \cap Artifact = {}

VARIABLES
    event,      \* status of the event, "none" before its delivery
    cached,     \* the status FindOne would take from Redis, "none" on a miss
    attempt,    \* attempts; what is above MaxAttempts is not told apart
    leased,     \* lease_until is in the future
    code,       \* version_code
    artifact,   \* external_artifact_id
    version,    \* version codes of the app that exist, with what they were made from
    imported,   \* version of a t_source_artifact row, 0 without one
    builds,     \* number of t_build_task rows of an event and a channel
    channels,   \* channel_ids of the trigger
    work,       \* what a worker is at
    faults, edits

eventVars == <<event, cached, attempt, leased, code, artifact>>
vars == <<eventVars, version, imported, builds, channels, work, faults, edits>>

SourceTypeOK ==
    /\ event \in [Event -> Status]
    /\ cached \in [Event -> Status]
    /\ attempt \in [Event -> 0..MaxAttempts]
    /\ leased \in SUBSET Event
    /\ code \in [Event -> Code \cup {0}]
    /\ artifact \in [Event -> Artifact \cup {NoArtifact}]
    /\ version \in [Code -> {"none", "user"} \cup Artifact]
    /\ imported \in [Artifact -> Code \cup {0}]
    /\ builds \in [Event \X Channel -> Nat]
    /\ channels \in (SUBSET Channel) \ {{}}
    /\ work \in [Worker -> Work \cup {NoWork}]
    /\ faults \in 0..MaxFaults /\ edits \in 0..MaxEdits
    /\ \A e \in Event :
        /\ event[e] = "none" <=> code[e] = 0
        /\ event[e] = "none" <=> artifact[e] = NoArtifact
        /\ event[e] = "none" => attempt[e] = 0 /\ cached[e] = "none"
        /\ e \in leased => event[e] = "processing"
        /\ event[e] = "processing" => attempt[e] > 0
    /\ \A w \in Worker : work[w] # NoWork => event[work[w].event] # "none"

Init ==
    /\ event = [e \in Event |-> "none"]
    /\ cached = [e \in Event |-> "none"]
    /\ attempt = [e \in Event |-> 0]
    /\ leased = {}
    /\ code = [e \in Event |-> 0]
    /\ artifact = [e \in Event |-> NoArtifact]
    /\ version = [c \in Code |-> "none"]
    /\ imported = [a \in Artifact |-> 0]
    /\ builds = [x \in Event \X Channel |-> 0]
    /\ channels = InitialChannels
    /\ work = [w \in Worker |-> NoWork]
    /\ faults = 0 /\ edits = 0

Fault == faults < MaxFaults /\ faults' = faults + 1

-----------------------------------------------------------------------------
(* Users and the provider *)

\* One more than the versions there are
NextCode(next) ==
    /\ \A c \in Code : version[c] # "none" => c < next
    /\ next > 1 => version[next - 1] # "none"

\* Under the lock of the application, but the code is not taken.  A delivery
\* that comes again finds its row.
EnqueueSourceWebhookEvent(e) ==
    /\ event[e] = "none"
    /\ event' = [event EXCEPT ![e] = "pending"]
    /\ \E next \in Code : NextCode(next) /\ code' = [code EXCEPT ![e] = next]
    /\ \E a \in Artifact : artifact' = [artifact EXCEPT ![e] = a]
    /\ UNCHANGED <<cached, attempt, leased, version, imported, builds, channels, work, faults, edits>>

\* createVersion, with a code of the user's choice
CreateVersion(c) ==
    /\ version[c] = "none"
    /\ version' = [version EXCEPT ![c] = "user"]
    /\ UNCHANGED <<eventVars, imported, builds, channels, work, faults, edits>>

UpdateSourceBuildTrigger ==
    /\ edits < MaxEdits /\ edits' = edits + 1
    /\ channels' \in (SUBSET Channel) \ {{}, channels}
    /\ UNCHANGED <<eventVars, version, imported, builds, work, faults>>

-----------------------------------------------------------------------------
(* The worker *)

\* Mutant: whoever died with an event keeps it.
DuePending(e) == event[e] = "pending"

Due(e) == event[e] = "pending" \/ (event[e] = "processing" /\ e \notin leased)

\* FOR UPDATE SKIP LOCKED.  attempt is not compared with the maximum.
ClaimSourceWebhookEvent(w, e) ==
    /\ work[w] = NoWork
    /\ Due(e)
    /\ event' = [event EXCEPT ![e] = "processing"]
    /\ attempt' = [attempt EXCEPT ![e] = IF @ < MaxAttempts THEN @ + 1 ELSE @]
    /\ leased' = leased \cup {e}
    /\ work' = [work EXCEPT ![w] = [event |-> e, channels |-> channels, todo |-> channels,
                                    step |-> "import", retryable |-> FALSE]]
    /\ UNCHANGED <<cached, code, artifact, version, imported, builds, channels, faults, edits>>

Is(w, step) == work[w] # NoWork /\ work[w].step = step
Goto(w, step) == work' = [work EXCEPT ![w].step = step]
GiveBack(w, retryable) == work' = [work EXCEPT ![w].step = "fail", ![w].retryable = retryable]
End(w) == work' = [work EXCEPT ![w] = NoWork]

\* ImportArtifact up to the transaction.  The artifact may be on record, with
\* the version of this event or with another one; its code may be taken; or
\* the provider, the store or a service fails.
ImportArtifact(w) ==
    LET e == work[w].event
        known == imported[artifact[e]]
    IN  /\ Is(w, "import")
        /\ \/ /\ UNCHANGED faults
              /\ CASE known = code[e] -> Goto(w, "create")
                   [] known = 0 /\ version[code[e]] = "none" -> Goto(w, "insert")
                   [] OTHER -> GiveBack(w, FALSE)
           \/ Fault /\ \E retryable \in BOOLEAN : GiveBack(w, retryable)
        /\ UNCHANGED <<eventVars, version, imported, builds, channels, edits>>

\* Mutant: the row of the artifact is not unique.
ImportTwice(w) ==
    LET e == work[w].event
    IN  /\ Is(w, "insert")
        /\ IF version[code[e]] = "none"
           THEN /\ version' = [version EXCEPT ![code[e]] = artifact[e]]
                /\ imported' = [imported EXCEPT ![artifact[e]] = code[e]]
                /\ \/ Goto(w, "create") /\ UNCHANGED faults
                   \/ GiveBack(w, TRUE) /\ Fault
           ELSE GiveBack(w, TRUE) /\ UNCHANGED <<version, imported, faults>>
        /\ UNCHANGED <<eventVars, builds, channels, edits>>

\* The transaction of importSourceArtifact.  A unique key that another import
\* has taken meanwhile is an internal error, and so is a lost reply.
ImportSourceArtifact(w) ==
    LET e == work[w].event
    IN  /\ Is(w, "insert")
        /\ IF version[code[e]] = "none" /\ imported[artifact[e]] = 0
           THEN /\ version' = [version EXCEPT ![code[e]] = artifact[e]]
                /\ imported' = [imported EXCEPT ![artifact[e]] = code[e]]
                /\ \/ Goto(w, "create") /\ UNCHANGED faults
                   \/ GiveBack(w, TRUE) /\ Fault
           ELSE GiveBack(w, TRUE) /\ UNCHANGED <<version, imported, faults>>
        /\ UNCHANGED <<eventVars, builds, channels, edits>>

\* the channels in the order of the trigger's list
NextChannel(w) == CHOOSE n \in work[w].todo : TRUE

\* CreateBuildTask under FOR UPDATE of the event.  A quota that is used up and
\* a call that fails, before or after its commit, may be retried.
CreateBuildTask(w) ==
    LET e == work[w].event
        n == NextChannel(w)
    IN  /\ Is(w, "create") /\ work[w].todo # {}
        /\ \/ /\ event[e] = "processing"
              /\ builds' = [builds EXCEPT ![<<e, n>>] = IF @ = 0 THEN 1 ELSE @]
              /\ \/ work' = [work EXCEPT ![w].todo = @ \ {n}] /\ UNCHANGED faults
                 \/ GiveBack(w, TRUE) /\ Fault
           \/ /\ event[e] = "processing" /\ Fault
              /\ \E retryable \in BOOLEAN : GiveBack(w, retryable)
              /\ UNCHANGED builds
           \/ /\ event[e] # "processing"
              /\ GiveBack(w, FALSE)
              /\ UNCHANGED <<builds, faults>>
        /\ UNCHANGED <<eventVars, version, imported, channels, edits>>

Created(w) == Is(w, "create") /\ work[w].todo = {}

Seen(e) == IF cached[e] # "none" THEN cached[e] ELSE event[e]

\* Mutant: the channels of the trigger are not compared.
CompleteUnchecked(w) ==
    LET e == work[w].event
    IN  /\ Created(w)
        /\ cached' = [cached EXCEPT ![e] = Seen(e)]
        /\ IF Seen(e) = "processing" /\ event[e] = "processing"
           THEN event' = [event EXCEPT ![e] = "completed"] /\ leased' = leased \ {e}
           ELSE UNCHANGED <<event, leased>>
        /\ End(w)
        /\ UNCHANGED <<attempt, code, artifact, version, imported, builds, channels, faults, edits>>

\* completeSourceWebhookEvent.  Channels that change between its reads and its
\* UPDATE are channels that change after it.  The worker only logs a refusal
\* and leaves the event to the lapse of its lease.
CompleteSourceWebhookEvent(w) ==
    LET e == work[w].event
    IN  /\ Created(w)
        /\ cached' = [cached EXCEPT ![e] = Seen(e)]
        /\ IF Seen(e) = "processing" /\ work[w].channels = channels /\ event[e] = "processing"
           THEN event' = [event EXCEPT ![e] = "completed"] /\ leased' = leased \ {e}
           ELSE UNCHANGED <<event, leased>>
        /\ End(w)
        /\ UNCHANGED <<attempt, code, artifact, version, imported, builds, channels, faults, edits>>

\* failSourceWebhookEvent reads the attempt ...
FailReads(w) ==
    LET e == work[w].event
    IN  /\ Is(w, "fail")
        /\ IF event[e] # "processing" THEN End(w)
           ELSE IF work[w].retryable /\ attempt[e] < MaxAttempts THEN Goto(w, "retry")
           ELSE Goto(w, "give up")
        /\ UNCHANGED <<eventVars, version, imported, builds, channels, faults, edits>>

\* Mutant: the lease of an event that was given back stays.
FailKeepsLease(w) ==
    LET e == work[w].event
    IN  /\ Is(w, "retry") \/ Is(w, "give up")
        /\ IF event[e] = "processing"
           THEN event' = [event EXCEPT ![e] = IF Is(w, "retry") THEN "pending" ELSE "dead"]
           ELSE UNCHANGED event
        /\ End(w)
        /\ UNCHANGED <<cached, attempt, leased, code, artifact, version, imported, builds, channels, faults, edits>>

\* ... and writes the outcome.
FailSourceWebhookEvent(w) ==
    LET e == work[w].event
    IN  /\ Is(w, "retry") \/ Is(w, "give up")
        /\ IF event[e] = "processing"
           THEN /\ event' = [event EXCEPT ![e] = IF Is(w, "retry") THEN "pending" ELSE "dead"]
                /\ leased' = leased \ {e}
           ELSE UNCHANGED <<event, leased>>
        /\ End(w)
        /\ UNCHANGED <<cached, attempt, code, artifact, version, imported, builds, channels, faults, edits>>

\* The process dies, or the reply to its claim or the call of its result is lost.
LoseWork(w) ==
    /\ work[w] # NoWork /\ Fault
    /\ End(w)
    /\ UNCHANGED <<eventVars, version, imported, builds, channels, edits>>

\* Nobody renews a lease; a worker that still needs it has stalled.
LeaseLapses(e) ==
    /\ e \in leased
    /\ leased' = leased \ {e}
    /\ IF \E w \in Worker : work[w] # NoWork /\ work[w].event = e THEN Fault ELSE UNCHANGED faults
    /\ UNCHANGED <<event, cached, attempt, code, artifact, version, imported, builds, channels, work, edits>>

CacheExpires(e) ==
    /\ cached[e] # "none"
    /\ cached' = [cached EXCEPT ![e] = "none"]
    /\ UNCHANGED <<event, attempt, leased, code, artifact, version, imported, builds, channels, work, faults, edits>>

-----------------------------------------------------------------------------
Process(w) ==
    \/ ImportArtifact(w) \/ ImportSourceArtifact(w)
    \/ CreateBuildTask(w)
    \/ CompleteSourceWebhookEvent(w) \/ FailReads(w) \/ FailSourceWebhookEvent(w)

Next ==
    \/ \E e \in Event : EnqueueSourceWebhookEvent(e) \/ LeaseLapses(e) \/ CacheExpires(e)
    \/ \E c \in UserCode : CreateVersion(c)
    \/ UpdateSourceBuildTrigger
    \/ \E w \in Worker : Process(w) \/ LoseWork(w) \/ \E e \in Event : ClaimSourceWebhookEvent(w, e)

Spec == Init /\ [][Next]_vars

\* Workers poll on a ticker and claim what is due longest; their calls return;
\* leases and cache entries have an end.
Fairness ==
    /\ \A w \in Worker : WF_vars(Process(w))
    /\ \A e \in Event : SF_vars(\E w \in Worker : ClaimSourceWebhookEvent(w, e))
    /\ \A e \in Event : WF_vars(LeaseLapses(e)) /\ WF_vars(CacheExpires(e))

FairSpec == Spec /\ Fairness

-----------------------------------------------------------------------------
\* "Artifact provenance makes the import idempotent" and "retries of the worker
\* do not create a channel's build twice" (docs/source-integrations.md, line
\* 42): whatever is retried, lost or done by two workers at once, an artifact
\* has one version, the one on its record, and a channel has one build.
NothingTwice ==
    /\ \A a \in Artifact :
         {c \in Code : version[c] = a} = IF imported[a] = 0 THEN {} ELSE {imported[a]}
    /\ \A x \in Event \X Channel : builds[x] <= 1

\* An event is completed when its artifact is a version under its own code and
\* every channel the trigger has at that time has its build; and nothing
\* happens to a settled event, nor to its builds, although workers that lost
\* it may still be at any step.
SettledRight ==
    [][\A e \in Event :
         /\ event[e] \in Settled =>
              event'[e] = event[e] /\ \A n \in Channel : builds'[<<e, n>>] = builds[<<e, n>>]
         /\ event[e] # "completed" /\ event'[e] = "completed" =>
              /\ imported[artifact[e]] = code[e]
              /\ \A n \in channels : builds[<<e, n>>] > 0]_vars

\* No event stays for ever between the deliveries and the builds: workers die,
\* stall, are refused because the channels changed or because Redis remembers
\* an event that was waiting for its retry, and in the end it is settled.
EveryEventSettles == \A e \in Event : event[e] # "none" ~> event[e] \in Settled
=============================================================================
