-------------------------- MODULE BuildCacheProofs --------------------------
(***************************************************************************)
(* Theorems about BuildCache: for any number of tasks, builders, objects   *)
(* and cleanup loops.                                                      *)
(***************************************************************************)
EXTENDS BuildCache, StorageObjectsProofs

\* What a builder is at, and what a cleanup loop is at.
LEMMA WorkAt ==
    ASSUME CacheTypeOK, NEW w \in Worker, work[w] # NoWork
    PROVE  /\ work[w] \in BuilderWork /\ work[w].task \in Task /\ work[w].attempt \in Nat
           /\ work[w].step \in Step /\ work[w].object \in Object \cup {NoWork}
BY DEF CacheTypeOK, BuilderWork

\* The work of w ends, or goes to a step with an object; the others do not move.
Moves(w, step, o) ==
    /\ work'[w] \in BuilderWork /\ work'[w] # NoWork
    /\ work'[w].step = step /\ work'[w].object = o /\ work'[w].task = work[w].task
    /\ work' \in [Worker -> BuilderWork \cup {NoWork}]
    /\ \A v \in Worker : v # w => work'[v] = work[v]

LEMMA StepMoves ==
    ASSUME CacheTypeOK, NEW w \in Worker, work[w] # NoWork, NEW step \in Step
    PROVE  /\ Goto(w, step) => Moves(w, step, work[w].object)
           /\ \A o \in Object \cup {NoWork} :
                work' = [work EXCEPT ![w].step = step, ![w].object = o] => Moves(w, step, o)
<1>1. work[w] \in BuilderWork
    BY WorkAt
<1>2. ASSUME Goto(w, step) PROVE Moves(w, step, work[w].object)
    <2>1. work' = [work EXCEPT ![w] = [work[w] EXCEPT !.step = step]]
        BY <1>2 DEF Goto
    <2>2. /\ [work[w] EXCEPT !.step = step] \in BuilderWork
          /\ [work[w] EXCEPT !.step = step].step = step
          /\ [work[w] EXCEPT !.step = step].object = work[w].object
          /\ [work[w] EXCEPT !.step = step].task = work[w].task
        BY <1>1 DEF BuilderWork
    <2> QED BY <2>1, <2>2, WorkersAssumption DEF Moves, CacheTypeOK
<1>3. ASSUME NEW o \in Object \cup {NoWork},
             work' = [work EXCEPT ![w].step = step, ![w].object = o]
      PROVE  Moves(w, step, o)
    <2> DEFINE new == [[work[w] EXCEPT !.step = step] EXCEPT !.object = o]
    <2>1. work' = [work EXCEPT ![w] = new]
        BY <1>3 DEF CacheTypeOK
    <2>2. [work[w] EXCEPT !.step = step] \in BuilderWork
        BY <1>1 DEF BuilderWork
    <2>3. /\ new \in BuilderWork /\ new.step = step
          /\ new.object = o /\ new.task = work[w].task
        BY <1>1, <2>2 DEF BuilderWork
    <2> HIDE DEF new
    <2> QED BY <2>1, <2>2, <2>3, WorkersAssumption DEF Moves, CacheTypeOK
<1> QED BY <1>2, <1>3

-----------------------------------------------------------------------------
\* The strengthening: what a builder is about to publish has no row and is
\* nobody else's, what a cleanup loop is at is not bound, and a hit belongs to
\* a task that was claimed.
Unshared ==
    /\ \A w \in Worker : Is(w, "publish") =>
         /\ work[w].object \in Object /\ row[work[w].object] = "none"
         /\ work[w].object \in present
         /\ \A v \in Worker : v # w /\ Is(v, "publish") => work[v].object # work[w].object
    /\ \A s \in Sweeper : sweep[s] # NoWork => row[sweep[s].object] \in {"failed", "deleted"}
    /\ \A t \in Task : build[t] = "pending" => t \notin hit
    /\ entry = "active" => artifact \in Object
    /\ \A t \in hit : hitObject[t] \in Object

CacheInv == CacheTypeOK /\ Unshared /\ ActiveEntryHasObject /\ HitObjectKept

\* StorageTypeOK after a step of the cache that leaves the storage alone.
LEMMA StorageUntouched ==
    ASSUME StorageTypeOK, UNCHANGED storeVars, Fault \/ UNCHANGED faults
    PROVE  StorageTypeOK'
<1>1. faults' \in 0 .. MaxFaults
    BY FaultKeepsType
<1> QED BY <1>1 DEF StorageTypeOK, storeVars, rowVars

\* The objects a step leaves alone, as far as hits and entries are concerned.
LEMMA HitsKept ==
    ASSUME CacheInv, hit' \subseteq hit, hitObject' = hitObject,
           \A t \in hit' : build'[t] \in {"building", "lapsed", "success"} =>
                build[t] \in {"building", "lapsed", "success"},
           \A o \in Object : row[o] = "bound" /\ o \in present => row'[o] = "bound" /\ o \in present'
    PROVE  HitObjectKept'
BY DEF CacheInv, HitObjectKept, Unshared

LEMMA CacheStep ==
    ASSUME CacheInv, [CacheNext]_allVars PROVE CacheInv'
<1> USE DEF CacheInv, Step
<1>a. /\ \A s \in Sweeper : sweep[s] # NoWork => sweep[s].object \in Object
      /\ \A w \in Worker : work[w] # NoWork => work[w].task \in Task
    BY SweepAt, WorkAt DEF CacheTypeOK
<1>1. ASSUME NEW w \in Worker, NEW t \in Task, ClaimTask(w, t) PROVE CacheInv'
    <2>1. [task |-> t, attempt |-> attempt[t] + 1, step |-> "resolve", object |-> NoWork] \in BuilderWork
        BY DEF BuilderWork, CacheTypeOK
    <2>2. /\ work' \in [Worker -> BuilderWork \cup {NoWork}] /\ work'[w].step = "resolve"
          /\ \A v \in Worker : v # w => work'[v] = work[v]
        BY <1>1, <2>1 DEF ClaimTask, CacheTypeOK
    <2>3. StorageTypeOK'
        BY <1>1, StorageUntouched DEF ClaimTask, CacheTypeOK
    <2>4. CacheTypeOK'
        BY <1>1, <2>2, <2>3 DEF ClaimTask, CacheTypeOK, entryVars, hitVars
    <2>5. Unshared'
        BY <1>1, <2>2 DEF ClaimTask, CacheTypeOK, Unshared, Is, storeVars, rowVars, entryVars, hitVars
    <2>6. HitObjectKept'
        BY <1>1 DEF ClaimTask, CacheTypeOK, Unshared, HitObjectKept, storeVars, rowVars, hitVars
    <2> QED BY <1>1, <2>4, <2>5, <2>6 DEF ClaimTask, ActiveEntryHasObject, storeVars, rowVars, entryVars
<1>2. ASSUME NEW t \in Task, LeaseLapses(t) PROVE CacheInv'
    <2>1. StorageTypeOK'
        BY <1>2, StorageUntouched DEF LeaseLapses, CacheTypeOK
    <2> QED BY <1>2, <2>1 DEF LeaseLapses, CacheTypeOK, Unshared, Is, HitObjectKept, ActiveEntryHasObject,
                storeVars, rowVars, entryVars, hitVars
\* Steps of a builder that change neither storage nor tasks.
<1>b. ASSUME NEW w \in Worker, work[w] # NoWork, NEW step \in Step \ {"publish"}, NEW o \in Object \cup {NoWork},
             Moves(w, step, o), UNCHANGED <<storeVars, artifact, fresh, taskVars>>,
             Fault \/ UNCHANGED faults,
             entry' = entry \/ Invalidate,
             \/ hit' \subseteq hit /\ hitObject' = hitObject
             \/ /\ entry = "active" /\ build[work[w].task] # "pending"
                /\ hit' = hit \cup {work[w].task}
                /\ hitObject' = [hitObject EXCEPT ![work[w].task] = artifact]
      PROVE  CacheInv'
    <2>1. StorageTypeOK'
        BY <1>b, StorageUntouched DEF CacheTypeOK
    <2>2. entry' \in {"none", "active", "invalidated", "expired"} /\ (entry' = "active" => entry = "active")
        BY <1>b DEF Invalidate, CacheTypeOK
    <2>3. CacheTypeOK'
        BY <1>a, <1>b, <2>1, <2>2 DEF Moves, CacheTypeOK, taskVars
    <2>4. Unshared'
        BY <1>a, <1>b, <2>2 DEF Moves, Unshared, Is, CacheTypeOK, taskVars, storeVars, rowVars
    <2>5. HitObjectKept'
        BY <1>a, <1>b DEF Unshared, HitObjectKept, ActiveEntryHasObject, CacheTypeOK, taskVars, storeVars, rowVars
    <2>6. ActiveEntryHasObject'
        BY <1>b, <2>2 DEF ActiveEntryHasObject, storeVars, rowVars
    <2> QED BY <2>3, <2>4, <2>5, <2>6
<1>3. ASSUME NEW w \in Worker, ResolveBuildCache(w) PROVE CacheInv'
    <2>1. work[w] # NoWork /\ work[w].object \in Object \cup {NoWork} /\ artifact \in Object \cup {NoWork}
        BY <1>3, WorkAt DEF ResolveBuildCache, Is, CacheTypeOK
    <2>2. Moves(w, "fetch", artifact) \/ Moves(w, "build", work[w].object)
        BY <1>3, <2>1, StepMoves DEF ResolveBuildCache
    <2>3. /\ UNCHANGED <<storeVars, artifact, fresh, taskVars>> /\ (Fault \/ UNCHANGED faults)
          /\ (entry' = entry \/ Invalidate) /\ hit' \subseteq hit /\ hitObject' = hitObject
        BY <1>3 DEF ResolveBuildCache, hitVars
    <2> QED BY <1>b, <2>1, <2>2, <2>3
<1>4. ASSUME NEW w \in Worker, DownloadVerified(w) PROVE CacheInv'
    <2>1. work[w] # NoWork /\ work[w].object \in Object \cup {NoWork}
        BY <1>4, WorkAt DEF DownloadVerified, Is
    <2>2. Moves(w, "confirm", work[w].object) \/ Moves(w, "build", NoWork)
        BY <1>4, <2>1, StepMoves DEF DownloadVerified
    <2>3. /\ UNCHANGED <<storeVars, artifact, fresh, taskVars>> /\ (Fault \/ UNCHANGED faults)
          /\ (entry' = entry \/ Invalidate) /\ hit' \subseteq hit /\ hitObject' = hitObject
        BY <1>4 DEF DownloadVerified
    <2> QED BY <1>b, <2>1, <2>2, <2>3
<1>5. ASSUME NEW w \in Worker, ConfirmHit(w) PROVE CacheInv'
    <2>1. work[w] # NoWork
        BY <1>5 DEF ConfirmHit, Is
    <2>2. Moves(w, "finish", NoWork) \/ Moves(w, "build", NoWork)
        BY <1>5, <2>1, StepMoves DEF ConfirmHit
    <2>3. /\ UNCHANGED <<storeVars, artifact, fresh, taskVars>> /\ (Fault \/ UNCHANGED faults)
          /\ (entry' = entry \/ Invalidate)
        BY <1>5 DEF ConfirmHit
    <2>4. \/ hit' \subseteq hit /\ hitObject' = hitObject
          \/ /\ entry = "active" /\ build[work[w].task] # "pending"
             /\ hit' = hit \cup {work[w].task}
             /\ hitObject' = [hitObject EXCEPT ![work[w].task] = artifact]
        BY <1>5 DEF ConfirmHit, Owned, Servable, hitVars
    <2> QED BY <1>b, <2>1, <2>2, <2>3, <2>4
<1>6. ASSUME NEW w \in Worker, UploadIntermediate(w) PROVE CacheInv'
    <2>0. work[w] # NoWork /\ work[w].object \in Object \cup {NoWork}
        BY <1>6, WorkAt DEF UploadIntermediate, Is
    <2>1. CASE \E o \in Object :
                 /\ row[o] = "none" /\ o \notin present /\ ~Taken(o)
                 /\ present' = present \cup {o}
                 /\ work' = [work EXCEPT ![w].step = "publish", ![w].object = o]
        <3>1. PICK o \in Object :
                 /\ row[o] = "none" /\ o \notin present /\ ~Taken(o)
                 /\ present' = present \cup {o}
                 /\ work' = [work EXCEPT ![w].step = "publish", ![w].object = o]
            BY <2>1
        <3>2. Moves(w, "publish", o)
            BY <2>0, <3>1, StepMoves
        <3>3. StorageTypeOK'
            BY <1>6, <3>1 DEF UploadIntermediate, CacheTypeOK, StorageTypeOK, rowVars
        <3>4. CacheTypeOK'
            BY <1>6, <3>2, <3>3 DEF UploadIntermediate, Moves, CacheTypeOK, entryVars, taskVars, hitVars
        <3>5. Unshared'
            <4>1. \A v \in Worker : v # w /\ Is(v, "publish") => work[v].object # o
                BY <3>1 DEF Taken, Is
            <4>2. \A v \in Worker : v # w => work'[v] = work[v]
                BY <3>2 DEF Moves
            <4>3. work'[w].object = o
                BY <3>2 DEF Moves
            <4>4. UNCHANGED <<row, sweep, build, hit, hitObject, entry, artifact>>
                BY <1>6 DEF UploadIntermediate, entryVars, taskVars, hitVars, rowVars
            <4> DEFINE Publishes(v) == work[v] # NoWork /\ work[v].step = "publish"
            <4>5. \A v \in Worker : v # w /\ Publishes(v) =>
                    /\ work[v].object \in Object /\ row[work[v].object] = "none" /\ work[v].object \in present
                    /\ work[v].object # o
                    /\ \A x \in Worker : x # v /\ Publishes(x) => work[x].object # work[v].object
                BY <4>1 DEF Unshared, Is
            <4>6. \A v \in Worker : v # w => (Publishes(v)' <=> Publishes(v))
                BY <4>2
            <4>7. \A v \in Worker : Publishes(v)' =>
                    /\ work'[v].object \in Object /\ row'[work'[v].object] = "none" /\ work'[v].object \in present'
                    /\ \A x \in Worker : x # v /\ Publishes(x)' => work'[x].object # work'[v].object
                <5> SUFFICES ASSUME NEW v \in Worker, Publishes(v)'
                             PROVE  /\ work'[v].object \in Object /\ row'[work'[v].object] = "none"
                                    /\ work'[v].object \in present'
                                    /\ \A x \in Worker : x # v /\ Publishes(x)' => work'[x].object # work'[v].object
                    OBVIOUS
                <5>1. CASE v = w
                    <6>1. \A x \in Worker : x # w /\ Publishes(x)' => work'[x].object # o
                        BY <4>2, <4>5
                    <6>2. work'[v].object = o
                        BY <4>3, <5>1
                    <6>3. work'[v].object \in Object /\ row'[work'[v].object] = "none" /\ work'[v].object \in present'
                        BY <3>1, <4>4, <6>2
                    <6> QED BY <5>1, <6>1, <6>2, <6>3
                <5>2. CASE v # w
                    <6>1. Publishes(v) /\ work'[v] = work[v]
                        BY <4>2, <5>2
                    <6>2. /\ work[v].object \in Object /\ row[work[v].object] = "none" /\ work[v].object \in present
                          /\ work[v].object # o
                        BY <4>5, <5>2, <6>1
                    <6>3. ASSUME NEW x \in Worker, x # v, Publishes(x)' PROVE work'[x].object # work[v].object
                        BY <4>2, <4>3, <4>5, <5>2, <6>1, <6>2, <6>3
                    <6>4. work'[v].object \in Object /\ row'[work'[v].object] = "none" /\ work'[v].object \in present'
                        BY <3>1, <4>4, <6>1, <6>2
                    <6> HIDE DEF Publishes
                    <6>5. \A x \in Worker : x # v /\ Publishes(x)' => work'[x].object # work'[v].object
                        BY <6>1, <6>3
                    <6> QED BY <6>4, <6>5
                <5> QED BY <5>1, <5>2
            <4> QED BY <4>4, <4>7 DEF Unshared, Is
        <3>6. HitObjectKept'
            BY <1>6, <3>1, HitsKept DEF UploadIntermediate, taskVars, hitVars, rowVars
        <3> QED BY <1>6, <3>1, <3>4, <3>5, <3>6 DEF UploadIntermediate, ActiveEntryHasObject, entryVars, rowVars
    <2>2. CASE Goto(w, "finish") /\ UNCHANGED present
        <3>1. Moves(w, "finish", work[w].object)
            BY <2>0, <2>2, StepMoves
        <3>2. /\ UNCHANGED <<storeVars, artifact, fresh, taskVars>> /\ UNCHANGED faults
              /\ entry' = entry /\ hit' \subseteq hit /\ hitObject' = hitObject
            BY <1>6, <2>2 DEF UploadIntermediate, storeVars, entryVars, hitVars
        <3> QED BY <1>b, <2>0, <3>1, <3>2
    <2> QED BY <1>6, <2>1, <2>2 DEF UploadIntermediate
<1>7. ASSUME NEW w \in Worker, PublishBuildCache(w) PROVE CacheInv'
    <2> DEFINE o == work[w].object
    <2>0. /\ work[w] # NoWork /\ Is(w, "publish") /\ o \in Object /\ row[o] = "none" /\ o \in present
          /\ \A v \in Worker : v # w /\ Is(v, "publish") => work[v].object # o
        BY <1>7 DEF PublishBuildCache, Is, Unshared
    <2>1. Moves(w, "finish", NoWork)
        BY <1>7, <2>0, StepMoves DEF PublishBuildCache
    <2>2. UNCHANGED <<cached, age, request, binder, sweep, givenUp, taskVars, hitVars>>
        BY <1>7 DEF PublishBuildCache
    <2>3. faults' \in 0 .. MaxFaults
        BY <1>7, FaultKeepsType DEF PublishBuildCache, CacheTypeOK
    <2>4. \/ /\ row' = [row EXCEPT ![o] = "bound"] /\ quota' = [quota EXCEPT ![o] = "charged"]
             /\ entry' = "active" /\ artifact' = o /\ fresh' = TRUE /\ present' = present
          \/ present' \in {present, present \ {o}} /\ UNCHANGED <<row, quota, entryVars>>
        BY <1>7 DEF PublishBuildCache, InsertArtifact
    <2> HIDE DEF o
    <2>5. /\ \A x \in Object : x # o => row'[x] = row[x] /\ (x \in present <=> x \in present')
          /\ row' \in [Object -> Status \cup {"none"}] /\ present' \in SUBSET Object
          /\ quota' \in [Object -> {"none", "reserved", "charged", "released"}]
        BY <2>0, <2>4 DEF CacheTypeOK, StorageTypeOK, Status
    <2>6. StorageTypeOK'
        <3>1. \A x \in Object : /\ row'[x] = "none" <=> quota'[x] = "none"
                                /\ row'[x] = "none" => row[x] = "none"
            BY <2>0, <2>4 DEF CacheTypeOK, StorageTypeOK
        <3>2. Rest'
            BY <2>2, <2>3, <2>5 DEF CacheTypeOK, StorageTypeOK, Rest
        <3>3. WorkHasRows'
            BY <2>2, <3>1, RowsStay DEF CacheTypeOK
        <3>4. RowsTyped'
            BY <2>2, <2>5, <3>1 DEF CacheTypeOK, StorageTypeOK, RowsTyped
        <3> QED BY <3>2, <3>3, <3>4 DEF StorageTypeOK, RowsTyped, Rest, WorkHasRows
    <2>7. CacheTypeOK'
        BY <2>0, <2>1, <2>2, <2>4, <2>6 DEF Moves, CacheTypeOK, entryVars, taskVars, hitVars
    <2>8. Unshared'
        <3>1. \A v \in Worker : Is(v, "publish")' => v # w /\ Is(v, "publish") /\ work'[v] = work[v]
            BY <2>1 DEF Moves, Is
        <3>2. \A s \in Sweeper : sweep[s] # NoWork => sweep[s].object # o
            BY <2>0 DEF Unshared
        <3> QED BY <1>a, <2>0, <2>2, <2>4, <2>5, <3>1, <3>2 DEF Unshared, entryVars, taskVars, hitVars
    <2>9. HitObjectKept'
        BY <2>0, <2>2, <2>5, HitsKept DEF taskVars, hitVars
    <2>10. ActiveEntryHasObject'
        BY <2>0, <2>4, <2>5 DEF ActiveEntryHasObject, CacheTypeOK, StorageTypeOK, entryVars
    <2> QED BY <2>7, <2>8, <2>9, <2>10
<1>8. ASSUME NEW w \in Worker, FinishBuild(w) PROVE CacheInv'
    <2>1. StorageTypeOK'
        BY <1>8, StorageUntouched DEF FinishBuild, CacheTypeOK
    <2>2. /\ build' = build \/ \E result \in {"success", "failed"} :
                build[work[w].task] = "building" /\ build' = [build EXCEPT ![work[w].task] = result]
          /\ work'[w] = NoWork /\ \A v \in Worker : v # w => work'[v] = work[v]
          /\ work' \in [Worker -> BuilderWork \cup {NoWork}] /\ work[w].task \in Task
        BY <1>8, <1>a DEF FinishBuild, Owned, CacheTypeOK, Is
    <2>3. CacheTypeOK'
        BY <1>8, <2>1, <2>2 DEF FinishBuild, CacheTypeOK, entryVars, hitVars
    <2>4. Unshared'
        BY <1>8, <2>2 DEF FinishBuild, Unshared, Is, CacheTypeOK, storeVars, rowVars, entryVars, hitVars
    <2>5. HitObjectKept'
        BY <1>8, <2>2, HitsKept DEF FinishBuild, CacheTypeOK, storeVars, rowVars, hitVars
    <2> QED BY <1>8, <2>3, <2>4, <2>5 DEF FinishBuild, ActiveEntryHasObject, storeVars, rowVars, entryVars
<1>9. ASSUME NEW w \in Worker, BuilderDies(w) PROVE CacheInv'
    <2>1. StorageTypeOK'
        BY <1>9, StorageUntouched DEF BuilderDies, CacheTypeOK
    <2> QED BY <1>9, <2>1 DEF BuilderDies, CacheTypeOK, Unshared, Is, HitObjectKept, ActiveEntryHasObject,
                storeVars, rowVars, entryVars, taskVars, hitVars
<1>10. ASSUME TtlPasses \/ InvalidateBuildCache PROVE CacheInv'
    <2>1. StorageTypeOK'
        BY <1>10, StorageUntouched DEF TtlPasses, InvalidateBuildCache, CacheTypeOK
    <2>2. /\ UNCHANGED <<row, present, sweep, artifact, build, attempt, builder, hit, hitObject, work>>
          /\ entry' \in {"none", "active", "invalidated", "expired"} /\ fresh' \in BOOLEAN
          /\ entry' = "active" => entry = "active"
        BY <1>10 DEF TtlPasses, InvalidateBuildCache, Invalidate, CacheTypeOK, storeVars, rowVars, taskVars, hitVars
    <2>3. CacheTypeOK'
        BY <2>1, <2>2 DEF CacheTypeOK
    <2> QED BY <2>2, <2>3 DEF Unshared, Is, HitObjectKept, ActiveEntryHasObject
<1>11. CASE CleanupBuildCache
    <2> DEFINE reclaimed == Referenced = {} /\ row[artifact] = "bound"
    <2>0. /\ entry = "active" /\ artifact \in Object /\ entry' \in {"invalidated", "expired"}
          /\ row' = IF reclaimed THEN [row EXCEPT ![artifact] = "failed"] ELSE row
          /\ quota' = IF reclaimed THEN [quota EXCEPT ![artifact] = "released"] ELSE quota
          /\ UNCHANGED <<cached, present, age, request, binder, sweep, givenUp, faults>>
          /\ UNCHANGED <<artifact, fresh, taskVars, hitVars, work>>
        BY <1>11 DEF CleanupBuildCache, Unshared
    <2>1. /\ row' \in [Object -> Status \cup {"none"}]
          /\ quota' \in [Object -> {"none", "reserved", "charged", "released"}]
          /\ \A x \in Object :
                \/ row'[x] = row[x] /\ quota'[x] = quota[x]
                \/ (x = artifact /\ row[x] = "bound" /\ row'[x] = "failed" /\ quota'[x] = "released")
        BY <2>0 DEF CacheTypeOK, StorageTypeOK, Status
    <2>2. StorageTypeOK'
        <3>1. RowsTyped'
            BY <2>0, <2>1 DEF CacheTypeOK, StorageTypeOK, RowsTyped
        <3>2. WorkHasRows'
            BY <2>0, <2>1, RowsStay DEF CacheTypeOK
        <3>3. Rest'
            BY <2>0 DEF CacheTypeOK, StorageTypeOK, Rest
        <3> QED BY <3>1, <3>2, <3>3 DEF StorageTypeOK, RowsTyped, Rest, WorkHasRows
    <2>3. CacheTypeOK'
        BY <2>0, <2>2 DEF CacheTypeOK, taskVars, hitVars
    <2>4. Unshared'
        BY <1>a, <2>0, <2>1 DEF Unshared, Is, taskVars, hitVars
    <2>5. HitObjectKept'
        BY <2>0 DEF HitObjectKept, Referenced, Unshared, taskVars, hitVars
    <2> QED BY <2>0, <2>3, <2>4, <2>5 DEF ActiveEntryHasObject
<1>12. CASE StorageStep /\ UNCHANGED cacheVars
    <2>1. StorageTypeOK'
        BY <1>12, NextKeepsTypes DEF StorageStep, Next, CacheTypeOK
    <2>2. CacheTypeOK'
        BY <1>12, <2>1 DEF CacheTypeOK, cacheVars, entryVars, taskVars, hitVars
    <2> DEFINE Kept ==
            /\ \A o \in Object : \/ row'[o] = row[o]
                                 \/ row[o] = "uploading" /\ row'[o] = "failed"
                                 \/ row[o] = "failed" /\ row'[o] = "deleted"
            /\ \A o \in Object : o \in present /\ o \notin present' => row[o] \in {"failed", "deleted"}
            /\ \A s \in Sweeper : sweep'[s] # NoWork => row'[sweep'[s].object] \in {"failed", "deleted"}
            /\ present' \subseteq present
    <2>3. Kept
        <3> USE DEF CacheTypeOK
        <3>1. ASSUME NEW o \in Object, TimePasses(o) PROVE Kept
            BY <3>1 DEF TimePasses, Unshared, rowVars
        <3>2. ASSUME NEW s \in Sweeper, ClaimExpiredStorageObjects(s) PROVE Kept
            <4>1. PICK o \in Object : row'[o] = "failed"
                     /\ sweep' = [sweep EXCEPT ![s] = [object |-> o, step |-> "listed"]]
                BY <3>2 DEF ClaimExpiredStorageObjects
            <4>2. sweep'[s].object = o /\ \A x \in Sweeper : x # s => sweep'[x] = sweep[x]
                BY <4>1 DEF StorageTypeOK
            <4>3. \A x \in Object : row'[x] = row[x] \/ (row[x] = "uploading" /\ row'[x] = "failed")
                BY <3>2 DEF ClaimExpiredStorageObjects, Expired
            <4> QED BY <1>a, <3>2, <4>1, <4>2, <4>3 DEF ClaimExpiredStorageObjects, Unshared
        <3>3. ASSUME NEW s \in Sweeper, SweepRemoves(s) PROVE Kept
            <4>1. /\ \A x \in Sweeper : x # s => sweep'[x] = sweep[x]
                  /\ sweep'[s] = NoWork \/ sweep'[s].object = sweep[s].object
                BY <3>3, SweepAt DEF SweepRemoves, StorageTypeOK
            <4>2. present' = present \/ present' = present \ {sweep[s].object}
                BY <3>3 DEF SweepRemoves
            <4> QED BY <1>a, <3>3, <4>1, <4>2 DEF SweepRemoves, Unshared, rowVars
        <3>4. ASSUME NEW s \in Sweeper, MarkStorageObjectDeleted(s) PROVE Kept
            <4>1. sweep[s].object \in Object /\ sweep'[s] = NoWork
                  /\ \A x \in Sweeper : x # s => sweep'[x] = sweep[x]
                BY <1>a, <3>4 DEF MarkStorageObjectDeleted, StorageTypeOK
            <4>2. \A x \in Object : row'[x] = row[x] \/ (row[x] = "failed" /\ row'[x] = "deleted")
                BY <3>4, <4>1 DEF MarkStorageObjectDeleted, StorageTypeOK
            <4> QED BY <1>a, <3>4, <4>1, <4>2 DEF MarkStorageObjectDeleted, Unshared
        <3>5. ASSUME NEW s \in Sweeper, SweeperStops(s) PROVE Kept
            BY <1>a, <3>5 DEF SweeperStops, StorageTypeOK, Unshared, rowVars
        <3> QED BY <1>12, <3>1, <3>2, <3>3, <3>4, <3>5 DEF StorageStep, Sweep
    <2>4. UNCHANGED <<entry, artifact, build, hit, hitObject, work>>
        BY <1>12 DEF cacheVars, entryVars, taskVars, hitVars
    <2>5. Unshared'
        BY <1>a, <2>3, <2>4 DEF Unshared, Is
    <2>6. HitObjectKept'
        BY <2>3, <2>4, HitsKept
    <2>7. ActiveEntryHasObject'
        BY <2>3, <2>4 DEF ActiveEntryHasObject, Unshared
    <2> QED BY <2>2, <2>5, <2>6, <2>7
<1>13. CASE UNCHANGED allVars
    <2>1. StorageTypeOK'
        BY <1>13, StorageUntouched DEF allVars, vars, storeVars, CacheTypeOK
    <2> QED BY <1>13, <2>1 DEF allVars, vars, cacheVars, CacheTypeOK, Unshared, Is, HitObjectKept,
                ActiveEntryHasObject, rowVars, entryVars, taskVars, hitVars
<1> QED BY <1>1, <1>2, <1>3, <1>4, <1>5, <1>6, <1>7, <1>8, <1>9, <1>10, <1>11, <1>12, <1>13
        DEF CacheNext, BuilderStep

LEMMA CacheInvariant == CacheSpec => []CacheInv
<1>1. CacheInit => CacheInv
    <2> SUFFICES ASSUME CacheInit PROVE CacheInv
        OBVIOUS
    <2>1. StorageTypeOK
        BY BoundsAssumption DEF CacheInit, Init, StorageTypeOK
    <2> QED BY <2>1 DEF CacheInit, Init, CacheInv, CacheTypeOK, Unshared, Is, ActiveEntryHasObject, HitObjectKept
<1> QED BY <1>1, CacheStep, PTL DEF CacheSpec

\* An entry that could be served has its object, bound and in the bucket.
THEOREM EntriesHaveObjects == CacheSpec => []ActiveEntryHasObject
BY CacheInvariant, PTL DEF CacheInv

\* The object of a confirmed hit stays as long as a task may refer to it.
THEOREM HitObjectsStay == CacheSpec => []HitObjectKept
BY CacheInvariant, PTL DEF CacheInv

-----------------------------------------------------------------------------
(***************************************************************************)
(* The builds of the cache are those of the cluster, reduced to what the   *)
(* cache sees.  What the reduction keeps is the promise about a task that  *)
(* the cluster keeps too: here they differ only in that every build is     *)
(* queued from the start and nothing is charged.                           *)
(***************************************************************************)
LifecycleState(t) ==
    CASE build[t] = "pending" -> "queued"
      [] build[t] = "building" -> "held"
      [] OTHER -> build[t]

Lifecycle ==
    INSTANCE BuildLifecycle WITH
        Builder <- Worker, NoBuilder <- NoWorker,
        state <- [t \in Task |-> LifecycleState(t)],
        token <- attempt,
        holder <- builder,
        charged <- {}

BuildsFollowLifecycle == [][Lifecycle!LifecycleNext]_(Lifecycle!lifecycleVars)

\* What the mapping sees of a step.
LEMMA StateOfBuild ==
    ASSUME CacheTypeOK, NEW t \in Task, NEW s, build' = [build EXCEPT ![t] = s]
    PROVE  [u \in Task |-> LifecycleState(u)]' =
               [[u \in Task |-> LifecycleState(u)] EXCEPT ![t] =
                    CASE s = "pending" -> "queued" [] s = "building" -> "held" [] OTHER -> s]
BY DEF CacheTypeOK, LifecycleState

\* The tasks of the cache take only steps the cluster may take with a task: a
\* build is granted under a new attempt to one worker, ends once and only while
\* it is held, and is not touched after.
THEOREM CacheBuildsFollowLifecycle == CacheSpec => BuildsFollowLifecycle
<1>1. CacheTypeOK /\ [CacheNext]_allVars => [Lifecycle!LifecycleNext]_(Lifecycle!lifecycleVars)
    <2> SUFFICES ASSUME CacheTypeOK, [CacheNext]_allVars
                 PROVE  Lifecycle!LifecycleNext \/ UNCHANGED Lifecycle!lifecycleVars
        OBVIOUS
    <2>1. ASSUME NEW w \in Worker, NEW t \in Task, ClaimTask(w, t) PROVE Lifecycle!GrantTo(t, w)
        <3>1. LifecycleState(t) \in Lifecycle!Waiting
            BY <2>1 DEF ClaimTask, LifecycleState, Lifecycle!Waiting
        <3> QED BY <2>1, <3>1, StateOfBuild DEF ClaimTask, Lifecycle!GrantTo
    <2>2. ASSUME NEW t \in Task, LeaseLapses(t) PROVE Lifecycle!Lapse(t)
        BY <2>2, StateOfBuild DEF LeaseLapses, LifecycleState, Lifecycle!Lapse
    <2>3. ASSUME NEW w \in Worker, FinishBuild(w)
          PROVE  Lifecycle!LifecycleNext \/ UNCHANGED Lifecycle!lifecycleVars
        <3>1. CASE UNCHANGED build
            BY <2>3, <3>1 DEF FinishBuild, LifecycleState, Lifecycle!lifecycleVars
        <3>2. ASSUME NEW result \in {"success", "failed"}, Owned(w),
                     build' = [build EXCEPT ![work[w].task] = result]
              PROVE  Lifecycle!LifecycleNext
            <4>1. work[w].task \in Task
                BY <2>3 DEF FinishBuild, Is, CacheTypeOK, BuilderWork
            <4>2. Lifecycle!End(work[w].task, result)
                BY <2>3, <3>2, <4>1, StateOfBuild DEF FinishBuild, Owned, LifecycleState, Lifecycle!End
            <4> QED BY <4>1, <4>2 DEF Lifecycle!LifecycleNext
        <3> QED BY <2>3, <3>1, <3>2 DEF FinishBuild
    <2>4. ASSUME UNCHANGED taskVars PROVE UNCHANGED Lifecycle!lifecycleVars
        BY <2>4 DEF taskVars, LifecycleState, Lifecycle!lifecycleVars
    <2>5. ASSUME NEW w \in Worker,
                 \/ ResolveBuildCache(w) \/ DownloadVerified(w) \/ ConfirmHit(w)
                 \/ UploadIntermediate(w) \/ PublishBuildCache(w) \/ BuilderDies(w)
          PROVE  UNCHANGED taskVars
        BY <2>5 DEF ResolveBuildCache, DownloadVerified, ConfirmHit, UploadIntermediate,
            PublishBuildCache, BuilderDies
    <2>6. CASE TtlPasses \/ InvalidateBuildCache \/ CleanupBuildCache \/ UNCHANGED cacheVars
        BY <2>4, <2>6 DEF TtlPasses, InvalidateBuildCache, CleanupBuildCache, cacheVars
    <2>7. CASE UNCHANGED allVars
        BY <2>4, <2>7 DEF allVars, cacheVars
    <2> QED BY <2>1, <2>2, <2>3, <2>4, <2>5, <2>6, <2>7 DEF CacheNext, BuilderStep, Lifecycle!LifecycleNext
<1>2. CacheInv => CacheTypeOK
    BY DEF CacheInv
<1> QED BY <1>1, <1>2, CacheInvariant, PTL DEF CacheSpec, BuildsFollowLifecycle
=============================================================================
