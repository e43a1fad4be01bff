------------------------ MODULE SourceTriggersProofs ------------------------
(***************************************************************************)
(* Theorems about SourceTriggers: for any number of events, artifacts,     *)
(* channels and workers, and any limits.                                   *)
(***************************************************************************)
EXTENDS SourceTriggers, TLAPS

\* What a worker is at is about an event that exists, with its code and artifact.
LEMMA WorkAt ==
    ASSUME SourceTypeOK, NEW w \in Worker, work[w] # NoWork
    PROVE  /\ work[w] \in Work /\ work[w].event \in Event
           /\ work[w].channels \in SUBSET Channel /\ work[w].todo \in SUBSET Channel
           /\ work[w].step \in WorkStep
           /\ event[work[w].event] # "none"
           /\ code[work[w].event] \in Code /\ artifact[work[w].event] \in Artifact
<1>1. work[w] \in Work /\ event[work[w].event] # "none"
    BY DEF SourceTypeOK
<1>2. work[w].event \in Event
    BY <1>1 DEF Work
<1> QED BY <1>1, <1>2 DEF SourceTypeOK, Work

\* The worker w goes to a step; nothing else about its work changes, and the
\* other workers do not move.
Moves(w, step, todo) ==
    /\ work' \in [Worker -> Work \cup {NoWork}] /\ work'[w] # NoWork
    /\ work'[w].event = work[w].event /\ work'[w].channels = work[w].channels
    /\ work'[w].step = step /\ work'[w].todo = todo
    /\ \A v \in Worker : v # w => work'[v] = work[v]

\* One channel less to do.
Took(w, n) == work' = [work EXCEPT ![w].todo = @ \ {n}]

Stops(w) ==
    /\ work' \in [Worker -> Work \cup {NoWork}] /\ work'[w] = NoWork
    /\ \A v \in Worker : v # w => work'[v] = work[v]

LEMMA WorkMoves ==
    ASSUME SourceTypeOK, NEW w \in Worker, work[w] # NoWork
    PROVE  /\ \A step \in WorkStep : Goto(w, step) => Moves(w, step, work[w].todo)
           /\ \A retryable \in BOOLEAN : GiveBack(w, retryable) => Moves(w, "fail", work[w].todo)
           /\ \A n : Took(w, n) => Moves(w, work[w].step, work[w].todo \ {n})
<1>1. work[w] \in Work /\ work[w].todo \in SUBSET Channel
    BY WorkAt
<1>2. ASSUME NEW step \in WorkStep, Goto(w, step) PROVE Moves(w, step, work[w].todo)
    <2> DEFINE new == [work[w] EXCEPT !.step = step]
    <2>1. work' = [work EXCEPT ![w] = new]
        BY <1>2 DEF Goto
    <2>2. /\ new \in Work /\ new.step = step /\ new.event = work[w].event
          /\ new.channels = work[w].channels /\ new.todo = work[w].todo
        BY <1>1 DEF Work
    <2> HIDE DEF new
    <2> QED BY <2>1, <2>2, NoWorkAssumption DEF Moves, SourceTypeOK
<1>3. ASSUME NEW retryable \in BOOLEAN, GiveBack(w, retryable) PROVE Moves(w, "fail", work[w].todo)
    <2> DEFINE mid == [work[w] EXCEPT !.step = "fail"]
               new == [mid EXCEPT !.retryable = retryable]
    <2>1. work' = [work EXCEPT ![w] = new]
        BY <1>3 DEF GiveBack, SourceTypeOK
    <2>2. mid \in Work /\ mid.event = work[w].event /\ mid.step = "fail"
          /\ mid.channels = work[w].channels /\ mid.todo = work[w].todo
        BY <1>1 DEF Work, WorkStep
    <2> HIDE DEF mid
    <2>3. /\ new \in Work /\ new.step = "fail" /\ new.event = work[w].event
          /\ new.channels = work[w].channels /\ new.todo = work[w].todo
        BY <2>2 DEF Work
    <2> HIDE DEF new
    <2> QED BY <2>1, <2>3, NoWorkAssumption DEF Moves, SourceTypeOK
<1>4. ASSUME NEW n, Took(w, n)
      PROVE  Moves(w, work[w].step, work[w].todo \ {n})
    <2> DEFINE new == [work[w] EXCEPT !.todo = @ \ {n}]
    <2>1. work' = [work EXCEPT ![w] = new]
        BY <1>4 DEF Took, SourceTypeOK
    <2>2. /\ new \in Work /\ new.step = work[w].step /\ new.event = work[w].event
          /\ new.channels = work[w].channels /\ new.todo = work[w].todo \ {n}
        BY <1>1 DEF Work
    <2> HIDE DEF new
    <2> QED BY <2>1, <2>2, NoWorkAssumption DEF Moves, SourceTypeOK
<1> QED BY <1>2, <1>3, <1>4

LEMMA WorkStops ==
    ASSUME SourceTypeOK, NEW w \in Worker, End(w) PROVE Stops(w)
BY DEF SourceTypeOK, End, Stops

LEMMA FaultTyped ==
    ASSUME SourceTypeOK, Fault \/ UNCHANGED faults PROVE faults' \in 0 .. MaxFaults
BY BoundsAssumption DEF SourceTypeOK, Fault

\* The rows of the events, without the work on them.
RowsTyped ==
    /\ event \in [Event -> Status]
    /\ cached \in [Event -> Status]
    /\ attempt \in [Event -> 0..MaxAttempts]
    /\ leased \in SUBSET Event
    /\ code \in [Event -> Code \cup {0}]
    /\ artifact \in [Event -> Artifact \cup {NoArtifact}]
    /\ \A e \in Event :
        /\ event[e] = "none" <=> code[e] = 0
        /\ event[e] = "none" <=> artifact[e] = NoArtifact
        /\ event[e] = "none" => attempt[e] = 0 /\ cached[e] = "none"
        /\ e \in leased => event[e] = "processing"
        /\ event[e] = "processing" => attempt[e] > 0

\* The rest of the state, typed.
RestTyped ==
    /\ version \in [Code -> {"none", "user"} \cup Artifact]
    /\ imported \in [Artifact -> Code \cup {0}]
    /\ builds \in [Event \X Channel -> Nat]
    /\ channels \in (SUBSET Channel) \ {{}}
    /\ faults \in 0..MaxFaults /\ edits \in 0..MaxEdits

LEMMA TypeFromParts ==
    ASSUME SourceTypeOK, RowsTyped', RestTyped',
           work' \in [Worker -> Work \cup {NoWork}],
           \A w \in Worker : work'[w] # NoWork =>
              \/ work[w] # NoWork /\ work'[w].event = work[w].event
              \/ event'[work'[w].event] # "none",
           \A e \in Event : event[e] # "none" => event'[e] # "none"
    PROVE  SourceTypeOK'
<1>1. \A w \in Worker : work[w] # NoWork => work[w].event \in Event /\ event[work[w].event] # "none"
    BY WorkAt
<1> QED BY <1>1 DEF SourceTypeOK, RowsTyped, RestTyped

\* SourceTypeOK is inductive by itself.
LEMMA NextKeepsTypes ==
    ASSUME SourceTypeOK, [Next]_vars PROVE SourceTypeOK'
<1> USE DEF Status
<1>r. RowsTyped /\ RestTyped
    BY DEF SourceTypeOK, RowsTyped, RestTyped
<1>a. ASSUME UNCHANGED eventVars PROVE RowsTyped' /\ UNCHANGED event
    BY <1>r, <1>a DEF eventVars, RowsTyped
<1>b. ASSUME NEW w \in Worker, work[w] # NoWork, RowsTyped', RestTyped', Stops(w) \/ \E step, todo : Moves(w, step, todo),
             \A e \in Event : event[e] # "none" => event'[e] # "none"
      PROVE  SourceTypeOK'
    BY <1>b, TypeFromParts DEF Stops, Moves
<1>1. ASSUME NEW e \in Event, EnqueueSourceWebhookEvent(e) PROVE SourceTypeOK'
    <2>1. PICK next \in Code, a \in Artifact :
             code' = [code EXCEPT ![e] = next] /\ artifact' = [artifact EXCEPT ![e] = a]
        BY <1>1 DEF EnqueueSourceWebhookEvent
    <2>2. next # 0 /\ a # NoArtifact
        BY NoArtifactAssumption, CodeAssumption DEF Code
    <2>3. RowsTyped'
        BY <1>1, <1>r, <2>1, <2>2 DEF EnqueueSourceWebhookEvent, RowsTyped
    <2>4. RestTyped'
        BY <1>1, <1>r DEF EnqueueSourceWebhookEvent, RestTyped
    <2>5. work' = work /\ \A x \in Event : event[x] # "none" => event'[x] # "none"
        BY <1>1 DEF EnqueueSourceWebhookEvent, SourceTypeOK
    <2> QED BY <2>3, <2>4, <2>5, TypeFromParts DEF SourceTypeOK
<1>2. ASSUME NEW e \in Event, LeaseLapses(e) PROVE SourceTypeOK'
    <2>1. faults' \in 0 .. MaxFaults
        BY <1>2, FaultTyped DEF LeaseLapses
    <2> QED BY <1>2, <2>1 DEF LeaseLapses, SourceTypeOK
<1>3. ASSUME NEW e \in Event, CacheExpires(e) PROVE SourceTypeOK'
    BY <1>3 DEF CacheExpires, SourceTypeOK
<1>4. ASSUME NEW c \in UserCode, CreateVersion(c) PROVE SourceTypeOK'
    BY <1>4, CodeAssumption DEF CreateVersion, SourceTypeOK, eventVars
<1>5. CASE UpdateSourceBuildTrigger
    <2>1. edits' \in 0 .. MaxEdits
        BY <1>5, BoundsAssumption DEF UpdateSourceBuildTrigger, SourceTypeOK
    <2> QED BY <1>5, <2>1 DEF UpdateSourceBuildTrigger, SourceTypeOK, eventVars
<1>6. ASSUME NEW w \in Worker, NEW e \in Event, ClaimSourceWebhookEvent(w, e) PROVE SourceTypeOK'
    <2> DEFINE new == [event |-> e, channels |-> channels, todo |-> channels,
                       step |-> "import", retryable |-> FALSE]
    <2>1. new \in Work /\ new.event = e
        BY DEF Work, WorkStep, SourceTypeOK
    <2>2. work' = [work EXCEPT ![w] = new]
        BY <1>6 DEF ClaimSourceWebhookEvent
    <2> HIDE DEF new
    <2>3. work' \in [Worker -> Work \cup {NoWork}] /\ work'[w].event = e
          /\ \A v \in Worker : v # w => work'[v] = work[v]
        BY <2>1, <2>2 DEF SourceTypeOK
    <2>4. RestTyped'
        BY <1>6, <1>r DEF ClaimSourceWebhookEvent, RestTyped
    <2>5. attempt' \in [Event -> 0..MaxAttempts] /\ attempt'[e] > 0
          /\ \A x \in Event : x # e => attempt'[x] = attempt[x]
        BY <1>6, AttemptsAssumption DEF ClaimSourceWebhookEvent, SourceTypeOK
    <2>6. /\ event' = [event EXCEPT ![e] = "processing"] /\ leased' = leased \cup {e} /\ event[e] # "none"
          /\ UNCHANGED <<cached, code, artifact>>
        BY <1>6 DEF ClaimSourceWebhookEvent, Due
    <2>7. RowsTyped'
        BY <1>r, <2>5, <2>6 DEF RowsTyped
    <2>8. \A x \in Event : event[x] # "none" => event'[x] # "none"
        BY <2>6 DEF SourceTypeOK
    <2>9. event'[e] # "none"
        BY <2>6 DEF SourceTypeOK
    <2>10. \A v \in Worker : work'[v] # NoWork =>
              \/ work[v] # NoWork /\ work'[v].event = work[v].event
              \/ event'[work'[v].event] # "none"
        BY <2>3, <2>9
    <2> QED BY <2>3, <2>4, <2>7, <2>8, <2>10, TypeFromParts
<1>7. ASSUME NEW w \in Worker, ImportArtifact(w) PROVE SourceTypeOK'
    <2>1. work[w] # NoWork /\ \E step, todo : Moves(w, step, todo)
        BY <1>7, WorkMoves DEF ImportArtifact, Is, WorkStep
    <2>2. RestTyped'
        BY <1>7, <1>r, FaultTyped DEF ImportArtifact, RestTyped
    <2>3. RowsTyped' /\ UNCHANGED event
        BY <1>7, <1>a DEF ImportArtifact
    <2> QED BY <1>b, <2>1, <2>2, <2>3
<1>8. ASSUME NEW w \in Worker, ImportSourceArtifact(w) PROVE SourceTypeOK'
    <2>1. work[w] # NoWork /\ \E step, todo : Moves(w, step, todo)
        BY <1>8, WorkMoves DEF ImportSourceArtifact, Is, WorkStep
    <2>2. code[work[w].event] \in Code /\ artifact[work[w].event] \in Artifact
        BY <2>1, WorkAt
    <2>3. faults' \in 0 .. MaxFaults
        BY <1>8, FaultTyped DEF ImportSourceArtifact
    <2>4. RestTyped'
        BY <1>8, <1>r, <2>2, <2>3 DEF ImportSourceArtifact, RestTyped
    <2>5. RowsTyped' /\ UNCHANGED event
        BY <1>8, <1>a DEF ImportSourceArtifact
    <2> QED BY <1>b, <2>1, <2>4, <2>5
<1>9. ASSUME NEW w \in Worker, CreateBuildTask(w) PROVE SourceTypeOK'
    <2>0. /\ work[w] # NoWork
          /\ \/ \E n : Took(w, n)
             \/ \E retryable \in BOOLEAN : GiveBack(w, retryable)
        BY <1>9 DEF CreateBuildTask, Took, Is
    <2>1. work[w] # NoWork /\ \E step, todo : Moves(w, step, todo)
        BY <2>0, WorkMoves
    <2>2. faults' \in 0 .. MaxFaults
        BY <1>9, FaultTyped DEF CreateBuildTask
    <2>3. builds' \in [Event \X Channel -> Nat]
        <3>1. PICK x : UNCHANGED builds \/ builds' = [builds EXCEPT ![x] = IF @ = 0 THEN 1 ELSE @]
            BY <1>9 DEF CreateBuildTask
        <3> QED BY <3>1 DEF SourceTypeOK
    <2>4. RestTyped'
        BY <1>9, <1>r, <2>2, <2>3 DEF CreateBuildTask, RestTyped
    <2>5. RowsTyped' /\ UNCHANGED event
        BY <1>9, <1>a DEF CreateBuildTask
    <2> QED BY <1>b, <2>1, <2>4, <2>5
<1>10. ASSUME NEW w \in Worker, CompleteSourceWebhookEvent(w) PROVE SourceTypeOK'
    <2>1. work[w] # NoWork /\ Stops(w) /\ work[w].event \in Event /\ event[work[w].event] # "none"
        BY <1>10, WorkStops, WorkAt DEF CompleteSourceWebhookEvent, Created, Is
    <2>2. RestTyped'
        BY <1>10, <1>r DEF CompleteSourceWebhookEvent, RestTyped
    <2>3. cached' = [cached EXCEPT ![work[w].event] = Seen(work[w].event)]
          /\ Seen(work[w].event) \in Status
        BY <1>10, <2>1 DEF CompleteSourceWebhookEvent, Seen, SourceTypeOK
    <2>4. \/ /\ event[work[w].event] = "processing"
             /\ event' = [event EXCEPT ![work[w].event] = "completed"] /\ leased' = leased \ {work[w].event}
          \/ UNCHANGED <<event, leased>>
        BY <1>10 DEF CompleteSourceWebhookEvent
    <2>5. UNCHANGED <<attempt, code, artifact>>
        BY <1>10 DEF CompleteSourceWebhookEvent
    <2>6. RowsTyped'
        BY <1>r, <2>1, <2>3, <2>4, <2>5 DEF RowsTyped
    <2>7. \A e \in Event : event[e] # "none" => event'[e] # "none"
        BY <2>4 DEF SourceTypeOK
    <2> QED BY <1>b, <2>1, <2>2, <2>6, <2>7
<1>11. ASSUME NEW w \in Worker, FailReads(w) PROVE SourceTypeOK'
    <2>1. work[w] # NoWork /\ (Stops(w) \/ \E step, todo : Moves(w, step, todo))
        BY <1>11, WorkMoves, WorkStops DEF FailReads, Is, WorkStep
    <2>2. RestTyped'
        BY <1>11, <1>r DEF FailReads, RestTyped
    <2>3. RowsTyped' /\ UNCHANGED event
        BY <1>11, <1>a DEF FailReads
    <2> QED BY <1>b, <2>1, <2>2, <2>3
<1>12. ASSUME NEW w \in Worker, FailSourceWebhookEvent(w) PROVE SourceTypeOK'
    <2>1. work[w] # NoWork /\ Stops(w) /\ work[w].event \in Event
        BY <1>12, WorkStops, WorkAt DEF FailSourceWebhookEvent, Is
    <2>2. RestTyped'
        BY <1>12, <1>r DEF FailSourceWebhookEvent, RestTyped
    <2>3. \/ /\ event[work[w].event] = "processing" /\ leased' = leased \ {work[w].event}
             /\ \E new \in {"pending", "dead"} : event' = [event EXCEPT ![work[w].event] = new]
          \/ UNCHANGED <<event, leased>>
        BY <1>12 DEF FailSourceWebhookEvent
    <2>4. UNCHANGED <<cached, attempt, code, artifact>>
        BY <1>12 DEF FailSourceWebhookEvent
    <2>5. RowsTyped'
        BY <1>r, <2>1, <2>3, <2>4 DEF RowsTyped
    <2>6. \A e \in Event : event[e] # "none" => event'[e] # "none"
        BY <2>3 DEF SourceTypeOK
    <2> QED BY <1>b, <2>1, <2>2, <2>5, <2>6
<1>13. ASSUME NEW w \in Worker, LoseWork(w) PROVE SourceTypeOK'
    <2>1. work[w] # NoWork /\ Stops(w)
        BY <1>13, WorkStops DEF LoseWork
    <2>2. RestTyped'
        BY <1>13, <1>r, FaultTyped DEF LoseWork, RestTyped
    <2>3. RowsTyped' /\ UNCHANGED event
        BY <1>13, <1>a DEF LoseWork
    <2> QED BY <1>b, <2>1, <2>2, <2>3
<1>14. CASE UNCHANGED vars
    BY <1>14 DEF vars, eventVars, SourceTypeOK
<1> QED BY <1>1, <1>2, <1>3, <1>4, <1>5, <1>6, <1>7, <1>8, <1>9, <1>10, <1>11, <1>12, <1>13, <1>14
        DEF Next, Process

\* SourceTypeOK holds in every reachable state.
THEOREM SourceTypeCorrect == Spec => []SourceTypeOK
<1>1. Init => SourceTypeOK
    BY ChannelAssumption, AttemptsAssumption, BoundsAssumption, CodeAssumption
    DEF Init, SourceTypeOK, Status, Code
<1> QED BY <1>1, NextKeepsTypes, PTL DEF Spec

-----------------------------------------------------------------------------
(* An artifact has one version and a channel one build.                    *)

\* The transaction of the import is the only writer of versions and records,
\* and writes both or neither.
OneVersion == \A a \in Artifact :
    {c \in Code : version[c] = a} = IF imported[a] = 0 THEN {} ELSE {imported[a]}
OneBuild == \A x \in Event \X Channel : builds[x] <= 1

LEMMA ImportKeepsOneVersion ==
    ASSUME SourceTypeOK, OneVersion, NEW w \in Worker, ImportSourceArtifact(w)
    PROVE  OneVersion'
<1>1. work[w] # NoWork
    BY DEF ImportSourceArtifact, Is
<1>2. PICK e \in Event : e = work[w].event
    BY <1>1, WorkAt
<1>3. code[e] \in Code /\ artifact[e] \in Artifact /\ code[e] # 0
    BY <1>1, <1>2, WorkAt, CodeAssumption DEF Code
<1>4. CASE version[code[e]] = "none" /\ imported[artifact[e]] = 0
    <2>1. /\ version' = [version EXCEPT ![code[e]] = artifact[e]]
          /\ imported' = [imported EXCEPT ![artifact[e]] = code[e]]
        BY <1>2, <1>4 DEF ImportSourceArtifact
    <2>2. ASSUME NEW a \in Artifact
          PROVE  {c \in Code : version'[c] = a} = IF imported'[a] = 0 THEN {} ELSE {imported'[a]}
        <3>1. {c \in Code : version[c] = a} = IF imported[a] = 0 THEN {} ELSE {imported[a]}
            BY DEF OneVersion
        <3>2. \A c \in Code : version'[c] = IF c = code[e] THEN artifact[e] ELSE version[c]
            BY <2>1 DEF SourceTypeOK
        <3>3. imported'[a] = IF a = artifact[e] THEN code[e] ELSE imported[a]
            BY <2>1 DEF SourceTypeOK
        <3>4. CASE a = artifact[e]
            <4>1. {c \in Code : version[c] = a} = {}
                BY <1>4, <3>1, <3>4
            <4> QED BY <1>3, <3>2, <3>3, <3>4, <4>1
        <3>5. CASE a # artifact[e]
            <4>1. a # "none"
                BY NoArtifactAssumption
            <4>2. {c \in Code : version'[c] = a} = {c \in Code : version[c] = a}
                BY <1>4, <3>2, <3>5, <4>1
            <4> QED BY <3>1, <3>3, <3>5, <4>2
        <3> QED BY <3>4, <3>5
    <2> QED BY <2>2 DEF OneVersion
<1>5. CASE ~(version[code[e]] = "none" /\ imported[artifact[e]] = 0)
    BY <1>2, <1>5 DEF ImportSourceArtifact, OneVersion
<1> QED BY <1>4, <1>5

LEMMA UserKeepsOneVersion ==
    ASSUME SourceTypeOK, OneVersion, NEW c \in UserCode, CreateVersion(c)
    PROVE  OneVersion'
<1>1. c \in Code /\ version[c] = "none" /\ imported' = imported
    BY CodeAssumption DEF CreateVersion
<1>2. \A d \in Code : version'[d] = IF d = c THEN "user" ELSE version[d]
    BY <1>1 DEF CreateVersion, SourceTypeOK
<1>3. \A a \in Artifact : {d \in Code : version'[d] = a} = {d \in Code : version[d] = a}
    BY <1>1, <1>2, NoArtifactAssumption
<1> QED BY <1>1, <1>3 DEF OneVersion

LEMMA CreateKeepsOneBuild ==
    ASSUME SourceTypeOK, OneBuild, NEW w \in Worker, CreateBuildTask(w)
    PROVE  OneBuild'
<1>1. work[w] # NoWork
    BY DEF CreateBuildTask, Is
<1>2. PICK e \in Event : e = work[w].event
    BY <1>1, WorkAt
<1>3. UNCHANGED builds \/ \E n : builds' = [builds EXCEPT ![<<e, n>>] = IF @ = 0 THEN 1 ELSE @]
    BY <1>2 DEF CreateBuildTask
<1>4. ASSUME NEW x \in Event \X Channel PROVE builds'[x] = builds[x] \/ builds'[x] = 1
    BY <1>3 DEF SourceTypeOK
<1> QED BY <1>4 DEF OneBuild

\* Whatever is retried, lost or done by two workers at once, an artifact has one
\* version, the one on its record, and a channel has one build.
THEOREM ImportsAndBuildsOnce == Spec => []NothingTwice
<1>1. Init => OneVersion /\ OneBuild
    <2>1. ASSUME Init, NEW a \in Artifact PROVE {c \in Code : version[c] = a} = {} /\ imported[a] = 0
        BY <2>1, NoArtifactAssumption DEF Init
    <2> QED BY <2>1 DEF Init, OneVersion, OneBuild
<1>2. ASSUME SourceTypeOK, OneVersion, OneBuild, [Next]_vars PROVE OneVersion' /\ OneBuild'
    <2>1. OneVersion'
        <3>1. CASE \E w \in Worker : ImportSourceArtifact(w)
            BY <1>2, <3>1, ImportKeepsOneVersion
        <3>2. CASE \E c \in UserCode : CreateVersion(c)
            BY <1>2, <3>2, UserKeepsOneVersion
        <3>3. CASE UNCHANGED <<version, imported>>
            BY <1>2, <3>3 DEF OneVersion
        <3> QED BY <1>2, <3>1, <3>2, <3>3
            DEF Next, Process, vars, EnqueueSourceWebhookEvent, LeaseLapses, CacheExpires,
                UpdateSourceBuildTrigger, LoseWork, ClaimSourceWebhookEvent, ImportArtifact,
                CreateBuildTask, CompleteSourceWebhookEvent, FailReads, FailSourceWebhookEvent
    <2>2. OneBuild'
        <3>1. CASE \E w \in Worker : CreateBuildTask(w)
            BY <1>2, <3>1, CreateKeepsOneBuild
        <3>2. CASE UNCHANGED builds
            BY <1>2, <3>2 DEF OneBuild
        <3> QED BY <1>2, <3>1, <3>2
            DEF Next, Process, vars, EnqueueSourceWebhookEvent, LeaseLapses, CacheExpires, CreateVersion,
                UpdateSourceBuildTrigger, LoseWork, ClaimSourceWebhookEvent, ImportArtifact,
                ImportSourceArtifact, CompleteSourceWebhookEvent, FailReads, FailSourceWebhookEvent
    <2> QED BY <2>1, <2>2
<1>3. OneVersion /\ OneBuild => NothingTwice
    BY DEF OneVersion, OneBuild, NothingTwice
<1> QED BY <1>1, <1>2, <1>3, SourceTypeCorrect, PTL DEF Spec

-----------------------------------------------------------------------------
(* What a completed event stands for.                                      *)

\* What a worker knows of its event: nothing is built before the import, and
\* while builds are created the artifact is imported under the event's code and
\* the channels that are done have their builds.
Follows(w) ==
    work[w] # NoWork =>
        /\ work[w].step \in {"import", "insert"} => work[w].todo = work[w].channels
        /\ work[w].step = "create" =>
              /\ imported[artifact[work[w].event]] = code[work[w].event]
              /\ \A n \in work[w].channels \ work[w].todo : builds[<<work[w].event, n>>] > 0

\* What a worker has seen done is not undone.
Stable ==
    /\ \A e \in Event : event[e] # "none" => code'[e] = code[e] /\ artifact'[e] = artifact[e]
    /\ \A a \in Artifact : imported[a] # 0 => imported'[a] = imported[a]
    /\ \A x \in Event \X Channel : builds[x] > 0 => builds'[x] > 0

LEMMA NextIsStable ==
    ASSUME SourceTypeOK, [Next]_vars PROVE Stable
<1>1. \A e \in Event : event[e] # "none" => code'[e] = code[e] /\ artifact'[e] = artifact[e]
    <2>1. CASE \E e \in Event : EnqueueSourceWebhookEvent(e)
        <3>1. PICK e \in Event, c \in Code, a \in Artifact :
                 /\ event[e] = "none"
                 /\ code' = [code EXCEPT ![e] = c]
                 /\ artifact' = [artifact EXCEPT ![e] = a]
            BY <2>1 DEF EnqueueSourceWebhookEvent
        <3> QED BY <3>1 DEF SourceTypeOK
    <2>2. CASE UNCHANGED <<code, artifact>>
        BY <2>2
    <2> QED BY <2>1, <2>2
        DEF Next, Process, vars, eventVars, LeaseLapses, CacheExpires, CreateVersion,
            UpdateSourceBuildTrigger, LoseWork, ClaimSourceWebhookEvent, ImportArtifact,
            ImportSourceArtifact, CreateBuildTask, CompleteSourceWebhookEvent, FailReads,
            FailSourceWebhookEvent
<1>2. \A a \in Artifact : imported[a] # 0 => imported'[a] = imported[a]
    <2>1. CASE \E w \in Worker : ImportSourceArtifact(w)
        <3>1. PICK a, c : \/ imported[a] = 0 /\ imported' = [imported EXCEPT ![a] = c]
                          \/ UNCHANGED imported
            BY <2>1 DEF ImportSourceArtifact
        <3> QED BY <3>1 DEF SourceTypeOK
    <2>2. CASE UNCHANGED imported
        BY <2>2
    <2> QED BY <2>1, <2>2
        DEF Next, Process, vars, EnqueueSourceWebhookEvent, LeaseLapses, CacheExpires, CreateVersion,
            UpdateSourceBuildTrigger, LoseWork, ClaimSourceWebhookEvent, ImportArtifact,
            CreateBuildTask, CompleteSourceWebhookEvent, FailReads, FailSourceWebhookEvent
<1>3. \A x \in Event \X Channel : builds[x] > 0 => builds'[x] > 0
    <2>1. CASE \E w \in Worker : CreateBuildTask(w)
        <3>1. PICK x : \/ UNCHANGED builds
                       \/ builds' = [builds EXCEPT ![x] = IF @ = 0 THEN 1 ELSE @]
            BY <2>1 DEF CreateBuildTask
        <3> QED BY <3>1 DEF SourceTypeOK
    <2>2. CASE UNCHANGED builds
        BY <2>2
    <2> QED BY <2>1, <2>2
        DEF Next, Process, vars, EnqueueSourceWebhookEvent, LeaseLapses, CacheExpires, CreateVersion,
            UpdateSourceBuildTrigger, LoseWork, ClaimSourceWebhookEvent, ImportArtifact,
            ImportSourceArtifact, CompleteSourceWebhookEvent, FailReads, FailSourceWebhookEvent
<1> QED BY <1>1, <1>2, <1>3 DEF Stable

LEMMA OthersFollow ==
    ASSUME SourceTypeOK, Stable, NEW w \in Worker, Follows(w), work'[w] = work[w]
    PROVE  Follows(w)'
<1>1. CASE work[w] = NoWork
    BY <1>1 DEF Follows
<1>2. CASE work[w] # NoWork
    <2>1. PICK e \in Event : e = work[w].event
        BY <1>2, WorkAt
    <2>2. /\ code[e] \in Code /\ artifact[e] \in Artifact /\ event[e] # "none"
          /\ work[w].channels \in SUBSET Channel
        BY <1>2, <2>1, WorkAt
    <2>3. code[e] # 0
        BY <2>2, CodeAssumption DEF Code
    <2>4. code'[e] = code[e] /\ artifact'[e] = artifact[e]
        BY <2>2 DEF Stable
    <2>5. CASE work[w].step = "create"
        <3>1. imported[artifact[e]] = code[e]
              /\ \A n \in work[w].channels \ work[w].todo : builds[<<e, n>>] > 0
            BY <1>2, <2>1, <2>5 DEF Follows
        <3>2. imported'[artifact'[e]] = code'[e]
            BY <2>2, <2>3, <2>4, <3>1 DEF Stable
        <3>3. \A n \in work[w].channels \ work[w].todo : builds'[<<e, n>>] > 0
            BY <2>2, <3>1 DEF Stable
        <3> QED BY <2>1, <2>5, <3>2, <3>3 DEF Follows
    <2>6. CASE work[w].step # "create"
        BY <1>2, <2>6 DEF Follows
    <2> QED BY <2>5, <2>6
<1> QED BY <1>1, <1>2

\* What the worker of a step knows after it.
LEMMA MovesFollow ==
    ASSUME SourceTypeOK, Stable, NEW w \in Worker, Follows(w), Process(w)
    PROVE  Follows(w)' /\ \A v \in Worker : v # w => work'[v] = work[v]
<1>a. ASSUME Stops(w) PROVE Follows(w)' /\ \A v \in Worker : v # w => work'[v] = work[v]
    BY <1>a DEF Stops, Follows
<1>b. ASSUME NEW step \in {"fail", "retry", "give up"}, NEW todo, Moves(w, step, todo)
      PROVE  Follows(w)' /\ \A v \in Worker : v # w => work'[v] = work[v]
    BY <1>b DEF Moves, Follows
<1>c. ASSUME work[w] # NoWork, NEW retryable \in BOOLEAN, GiveBack(w, retryable)
      PROVE  Follows(w)' /\ \A v \in Worker : v # w => work'[v] = work[v]
    <2>1. Moves(w, "fail", work[w].todo)
        BY <1>c, WorkMoves
    <2>2. PICK todo : todo = work[w].todo
        OBVIOUS
    <2>3. Moves(w, "fail", todo)
        BY <2>1, <2>2 DEF Moves
    <2> QED BY <1>b, <2>3
<1>1. CASE ImportArtifact(w)
    <2>1. work[w] # NoWork /\ work[w].step = "import"
        BY <1>1 DEF ImportArtifact, Is
    <2>2. work[w].todo = work[w].channels
        BY <2>1 DEF Follows
    <2>3. CASE \E retryable \in BOOLEAN : GiveBack(w, retryable)
        BY <1>c, <2>1, <2>3
    <2>4. CASE Goto(w, "insert")
        <3>1. Moves(w, "insert", work[w].todo)
            BY <2>1, <2>4, WorkMoves DEF WorkStep
        <3> QED BY <2>2, <3>1 DEF Moves, Follows
    <2>5. CASE Goto(w, "create") /\ imported[artifact[work[w].event]] = code[work[w].event]
        <3>1. Moves(w, "create", work[w].todo)
            BY <2>1, <2>5, WorkMoves DEF WorkStep
        <3>2. UNCHANGED <<imported, artifact, code>>
            BY <1>1 DEF ImportArtifact, eventVars
        <3> QED BY <2>2, <2>5, <3>1, <3>2 DEF Moves, Follows
    <2> QED BY <1>1, <2>3, <2>4, <2>5 DEF ImportArtifact
<1>2. CASE ImportSourceArtifact(w)
    <2>1. work[w] # NoWork /\ work[w].step = "insert"
        BY <1>2 DEF ImportSourceArtifact, Is
    <2>2. work[w].todo = work[w].channels
        BY <2>1 DEF Follows
    <2>3. CASE \E retryable \in BOOLEAN : GiveBack(w, retryable)
        BY <1>c, <2>1, <2>3
    <2>4. CASE Goto(w, "create") /\ imported' = [imported EXCEPT ![artifact[work[w].event]] = code[work[w].event]]
        <3>1. Moves(w, "create", work[w].todo)
            BY <2>1, <2>4, WorkMoves DEF WorkStep
        <3>2. UNCHANGED <<artifact, code>>
            BY <1>2 DEF ImportSourceArtifact, eventVars
        <3>3. imported'[artifact[work[w].event]] = code[work[w].event]
            BY <2>1, <2>4, WorkAt DEF SourceTypeOK
        <3> QED BY <2>2, <3>1, <3>2, <3>3 DEF Moves, Follows
    <2> QED BY <1>2, <2>3, <2>4 DEF ImportSourceArtifact
<1>3. CASE CreateBuildTask(w)
    <2>1. work[w] # NoWork /\ work[w].step = "create"
        BY <1>3 DEF CreateBuildTask, Is
    <2>2. PICK e \in Event : e = work[w].event
        BY <2>1, WorkAt
    <2>3. /\ imported[artifact[e]] = code[e] /\ UNCHANGED <<imported, artifact, code>>
          /\ \A n \in work[w].channels \ work[w].todo : builds[<<e, n>>] > 0
          /\ work[w].channels \in SUBSET Channel
        BY <1>3, <2>1, <2>2, WorkAt DEF CreateBuildTask, Follows, eventVars
    <2>4. CASE \E retryable \in BOOLEAN : GiveBack(w, retryable)
        BY <1>c, <2>1, <2>4
    <2>5. ASSUME NEW n, Took(w, n), builds' = [builds EXCEPT ![<<e, n>>] = IF @ = 0 THEN 1 ELSE @]
          PROVE  Follows(w)' /\ \A v \in Worker : v # w => work'[v] = work[v]
        <3>1. Moves(w, work[w].step, work[w].todo \ {n})
            BY <2>1, <2>5, WorkMoves
        <3>2. \A m \in work[w].channels \ (work[w].todo \ {n}) : builds'[<<e, m>>] > 0
            BY <2>3, <2>5 DEF SourceTypeOK
        <3> QED BY <2>1, <2>2, <2>3, <3>1, <3>2 DEF Moves, Follows
    <2> QED BY <1>3, <2>2, <2>4, <2>5 DEF CreateBuildTask, Took
<1>4. CASE CompleteSourceWebhookEvent(w)
    BY <1>4, <1>a, WorkStops DEF CompleteSourceWebhookEvent
<1>5. CASE FailReads(w)
    <2>1. work[w] # NoWork
        BY <1>5 DEF FailReads, Is
    <2>2. PICK todo : todo = work[w].todo
        OBVIOUS
    <2>3. Stops(w) \/ Moves(w, "retry", todo) \/ Moves(w, "give up", todo)
        BY <1>5, <2>1, <2>2, WorkMoves, WorkStops DEF FailReads, WorkStep, Moves
    <2> QED BY <1>a, <1>b, <2>3
<1>6. CASE FailSourceWebhookEvent(w)
    BY <1>6, <1>a, WorkStops DEF FailSourceWebhookEvent
<1> QED BY <1>1, <1>2, <1>3, <1>4, <1>5, <1>6 DEF Process

WorkFollows == \A w \in Worker : Follows(w)

LEMMA NextKeepsFollowing ==
    ASSUME SourceTypeOK, WorkFollows, [Next]_vars PROVE WorkFollows'
<1>0. Stable
    BY NextIsStable
<1>1. CASE \E w \in Worker : Process(w)
    BY <1>0, <1>1, MovesFollow, OthersFollow DEF WorkFollows
<1>2. ASSUME NEW w \in Worker, NEW e \in Event, ClaimSourceWebhookEvent(w, e) PROVE WorkFollows'
    <2> DEFINE new == [event |-> e, channels |-> channels, todo |-> channels,
                       step |-> "import", retryable |-> FALSE]
    <2>1. new.step = "import" /\ new.todo = new.channels
        OBVIOUS
    <2>2. work' = [work EXCEPT ![w] = new]
        BY <1>2 DEF ClaimSourceWebhookEvent
    <2> HIDE DEF new
    <2>3. work'[w] = new /\ \A v \in Worker : v # w => work'[v] = work[v]
        BY <2>2 DEF SourceTypeOK
    <2>4. Follows(w)'
        BY <2>1, <2>3 DEF Follows
    <2> QED BY <1>0, <2>3, <2>4, OthersFollow DEF WorkFollows
<1>3. CASE \E w \in Worker : LoseWork(w)
    <2>1. PICK w \in Worker : Stops(w)
        BY <1>3, WorkStops DEF LoseWork
    <2>2. Follows(w)'
        BY <2>1 DEF Follows, Stops
    <2> QED BY <1>0, <2>1, <2>2, OthersFollow DEF WorkFollows, Stops
<1>4. CASE UNCHANGED work
    BY <1>0, <1>4, OthersFollow DEF WorkFollows
<1> QED BY <1>1, <1>2, <1>3, <1>4
    DEF Next, vars, EnqueueSourceWebhookEvent, LeaseLapses, CacheExpires, CreateVersion,
        UpdateSourceBuildTrigger

\* Only an event that is waiting or being processed changes its status, and
\* only to "completed" when its worker has created everything.
LEMMA StepSettles ==
    ASSUME SourceTypeOK, WorkFollows, [Next]_vars, NEW e \in Event
    PROVE  /\ event[e] \in Settled =>
                 event'[e] = event[e] /\ \A n \in Channel : builds'[<<e, n>>] = builds[<<e, n>>]
           /\ event[e] # "completed" /\ event'[e] = "completed" =>
                 /\ imported[artifact[e]] = code[e]
                 /\ \A n \in channels : builds[<<e, n>>] > 0
<1> USE DEF Settled
<1>1. CASE \E x \in Event : EnqueueSourceWebhookEvent(x)
    BY <1>1 DEF EnqueueSourceWebhookEvent, SourceTypeOK
<1>2. CASE \E w \in Worker, x \in Event : ClaimSourceWebhookEvent(w, x)
    BY <1>2 DEF ClaimSourceWebhookEvent, Due, SourceTypeOK
<1>3. ASSUME NEW w \in Worker, CreateBuildTask(w)
      PROVE  event' = event /\ (event[e] \in Settled => \A n \in Channel : builds'[<<e, n>>] = builds[<<e, n>>])
    <2>1. event' = event
        BY <1>3 DEF CreateBuildTask, eventVars
    <2>2. work[w] # NoWork
        BY <1>3 DEF CreateBuildTask, Is
    <2>3. PICK d \in Event : d = work[w].event
        BY <2>2, WorkAt
    <2>4. \/ UNCHANGED builds
          \/ /\ event[d] = "processing"
             /\ \E n : builds' = [builds EXCEPT ![<<d, n>>] = IF @ = 0 THEN 1 ELSE @]
        BY <1>3, <2>3 DEF CreateBuildTask
    <2>5. ASSUME event[e] \in Settled, NEW n \in Channel PROVE builds'[<<e, n>>] = builds[<<e, n>>]
        <3>1. CASE UNCHANGED builds
            BY <3>1
        <3>2. ASSUME NEW m, event[d] = "processing",
                     builds' = [builds EXCEPT ![<<d, m>>] = IF @ = 0 THEN 1 ELSE @]
              PROVE  builds'[<<e, n>>] = builds[<<e, n>>]
            <4>1. <<d, m>> # <<e, n>> /\ <<e, n>> \in Event \X Channel
                BY <2>5, <3>2
            <4> QED BY <3>2, <4>1 DEF SourceTypeOK
        <3> QED BY <2>4, <3>1, <3>2
    <2> QED BY <2>1, <2>5
<1>4. ASSUME NEW w \in Worker, CompleteSourceWebhookEvent(w)
      PROVE  /\ UNCHANGED builds /\ (event[e] \in Settled => event'[e] = event[e])
             /\ event[e] # "completed" /\ event'[e] = "completed" =>
                 /\ imported[artifact[e]] = code[e]
                 /\ \A n \in channels : builds[<<e, n>>] > 0
    <2>1. work[w] # NoWork /\ work[w].step = "create" /\ work[w].todo = {}
        BY <1>4 DEF CompleteSourceWebhookEvent, Created, Is
    <2>2. PICK d \in Event : d = work[w].event
        BY <2>1, WorkAt
    <2>3. CASE UNCHANGED event
        BY <1>4, <2>3 DEF CompleteSourceWebhookEvent
    <2>4. CASE /\ work[w].channels = channels /\ event[d] = "processing"
               /\ event' = [event EXCEPT ![d] = "completed"]
        <3>1. imported[artifact[d]] = code[d] /\ \A n \in channels : builds[<<d, n>>] > 0
            BY <2>1, <2>2, <2>4 DEF WorkFollows, Follows
        <3> QED BY <1>4, <2>4, <3>1 DEF CompleteSourceWebhookEvent, SourceTypeOK
    <2> QED BY <1>4, <2>2, <2>3, <2>4 DEF CompleteSourceWebhookEvent
<1>5. ASSUME NEW w \in Worker, FailSourceWebhookEvent(w)
      PROVE  /\ UNCHANGED builds /\ (event[e] \in Settled => event'[e] = event[e])
             /\ ~(event[e] # "completed" /\ event'[e] = "completed")
    <2>1. work[w] # NoWork
        BY <1>5 DEF FailSourceWebhookEvent, Is
    <2>2. PICK d \in Event : d = work[w].event
        BY <2>1, WorkAt
    <2>3. UNCHANGED builds
          /\ \/ UNCHANGED event
             \/ /\ event[d] = "processing"
                /\ \E new \in {"pending", "dead"} : event' = [event EXCEPT ![d] = new]
        BY <1>5, <2>2 DEF FailSourceWebhookEvent
    <2> QED BY <2>3 DEF SourceTypeOK
<1>6. CASE UNCHANGED <<event, builds>>
    BY <1>6
<1> QED BY <1>1, <1>2, <1>3, <1>4, <1>5, <1>6
    DEF Next, Process, vars, eventVars, LeaseLapses, CacheExpires, CreateVersion,
        UpdateSourceBuildTrigger, LoseWork, ImportArtifact, ImportSourceArtifact, FailReads

\* A completed event has its version and its builds, and nothing happens to a
\* settled event.
THEOREM EventsSettleRight == Spec => SettledRight
<1>1. Init => WorkFollows
    BY DEF Init, WorkFollows, Follows
<1>2. SourceTypeOK /\ WorkFollows /\ [Next]_vars => WorkFollows'
    BY NextKeepsFollowing
<1>3. SourceTypeOK /\ WorkFollows /\ [Next]_vars =>
        [\A e \in Event :
         /\ event[e] \in Settled =>
              event'[e] = event[e] /\ \A n \in Channel : builds'[<<e, n>>] = builds[<<e, n>>]
         /\ event[e] # "completed" /\ event'[e] = "completed" =>
              /\ imported[artifact[e]] = code[e]
              /\ \A n \in channels : builds[<<e, n>>] > 0]_vars
    BY StepSettles
<1> QED BY <1>1, <1>2, <1>3, SourceTypeCorrect, PTL DEF Spec, SettledRight
=============================================================================
