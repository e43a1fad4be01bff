----------------------------- MODULE BuildCache -----------------------------
(***************************************************************************)
(* The cache of branded intermediates (buildcacheservice.go) under the     *)
(* builders that use it (worker.go) and the cleanup loops of               *)
(* StorageObjects that take back what it evicts.                           *)
(*                                                                         *)
(* One input digest, one toolchain: one row of t_build_cache_entry, whose  *)
(* artifact is replaced when somebody publishes again.  A hit takes two    *)
(* calls with the download between them; the second writes cache_entry_id  *)
(* and cache_hit to the task.  A build is reduced to what the cache sees:  *)
(* claimed, perhaps lapsed and claimed again, ended.                       *)
(***************************************************************************)
EXTENDS StorageObjects

CONSTANTS
    Task, Worker,
    NoWorker,
    MaxAttempt      \* bound: the lease of this attempt does not lapse

Step == {"resolve", "fetch", "confirm", "build", "publish", "finish"}
BuilderWork == [task : Task, attempt : Nat, step : Step, object : Object \cup {NoWork}]

ASSUME WorkersAssumption == NoWorker \notin Worker /\ NoWork \notin BuilderWork
ASSUME AttemptsAssumption == MaxAttempt \in Nat

VARIABLES
    entry,      \* status of the cache entry, "none" without a row
    artifact,   \* its artifact_object_id
    fresh,      \* expires_at is in the future
    build,      \* "pending", "building", "lapsed", "success", "failed"
    attempt,    \* builder_attempt
    builder,    \* builder_id
    hit,        \* tasks with cache_entry_id and cache_hit set
    hitObject,  \* the artifact of a task's last confirmed hit (history)
    work        \* what a builder is at

entryVars == <<entry, artifact, fresh>>
taskVars == <<build, attempt, builder>>
hitVars == <<hit, hitObject>>
cacheVars == <<entryVars, taskVars, hitVars, work>>
allVars == <<vars, cacheVars>>

CacheTypeOK ==
    /\ StorageTypeOK
    /\ entry \in {"none", "active", "invalidated", "expired"}
    /\ artifact \in Object \cup {NoWork}
    /\ fresh \in BOOLEAN
    /\ build \in [Task -> {"pending", "building", "lapsed", "success", "failed"}]
    /\ attempt \in [Task -> Nat]
    /\ builder \in [Task -> Worker \cup {NoWorker}]
    /\ hit \in SUBSET Task
    /\ hitObject \in [Task -> Object \cup {NoWork}]
    /\ work \in [Worker -> BuilderWork \cup {NoWork}]

CacheInit ==
    /\ Init
    /\ entry = "none" /\ artifact = NoWork /\ fresh = FALSE
    /\ build = [t \in Task |-> "pending"]
    /\ attempt = [t \in Task |-> 0]
    /\ builder = [t \in Task |-> NoWorker]
    /\ hit = {}
    /\ hitObject = [t \in Task |-> NoWork]
    /\ work = [w \in Worker |-> NoWork]

storeVars == <<rowVars, present, age, request, binder, sweep, givenUp>>

-----------------------------------------------------------------------------
(* The task, as the scheduler sees it *)

ClaimTask(w, t) ==
    /\ work[w] = NoWork
    /\ build[t] \in {"pending", "lapsed"}
    /\ build' = [build EXCEPT ![t] = "building"]
    /\ attempt' = [attempt EXCEPT ![t] = @ + 1]
    /\ builder' = [builder EXCEPT ![t] = w]
    /\ work' = [work EXCEPT ![w] = [task |-> t, attempt |-> attempt[t] + 1, step |-> "resolve",
                                    object |-> NoWork]]
    /\ UNCHANGED <<storeVars, faults, entryVars, hitVars>>

LeaseLapses(t) ==
    /\ build[t] = "building" /\ attempt[t] < MaxAttempt
    /\ build' = [build EXCEPT ![t] = "lapsed"]
    /\ UNCHANGED <<storeVars, faults, entryVars, attempt, builder, hitVars, work>>

Is(w, step) == work[w] # NoWork /\ work[w].step = step

\* id, builder_id, builder_attempt, status and lease_until of the queries
Owned(w) ==
    /\ build[work[w].task] = "building" /\ builder[work[w].task] = w
    /\ attempt[work[w].task] = work[w].attempt

Goto(w, step) == work' = [work EXCEPT ![w].step = step]

-----------------------------------------------------------------------------
(* Resolve, download, confirm *)

Live(o) == row[o] \in {"ready", "bound"}
Servable == entry = "active" /\ fresh /\ Live(artifact)
Invalidate == entry' = IF entry = "active" THEN "invalidated" ELSE entry

\* resolveBuildCache without confirm_hit; an entry whose object is gone is
\* invalidated.  A miss, a refusal and an error all lead to a real build.
ResolveBuildCache(w) ==
    /\ Is(w, "resolve")
    /\ \/ /\ Owned(w) /\ Servable
          /\ work' = [work EXCEPT ![w].step = "fetch", ![w].object = artifact]
          /\ UNCHANGED <<entry, faults>>
       \/ /\ ~(Owned(w) /\ Servable)
          /\ IF Owned(w) /\ entry = "active" /\ fresh THEN Invalidate ELSE UNCHANGED entry
          /\ Goto(w, "build")
          /\ UNCHANGED faults
       \/ Fault /\ Goto(w, "build") /\ UNCHANGED entry
    /\ UNCHANGED <<storeVars, artifact, fresh, taskVars, hitVars>>

\* downloadVerified.  On any error the worker invalidates the entry, which
\* clears the hit of its task; only the builder is looked at, not the attempt.
DownloadVerified(w) ==
    LET t == work[w].task
    IN  /\ Is(w, "fetch")
        /\ \/ /\ work[w].object \in present
              /\ Goto(w, "confirm")
              /\ UNCHANGED <<entry, hit, faults>>
           \/ /\ IF work[w].object \in present THEN Fault ELSE UNCHANGED faults
              /\ IF builder[t] = w THEN Invalidate /\ hit' = hit \ {t} ELSE UNCHANGED <<entry, hit>>
              /\ work' = [work EXCEPT ![w].step = "build", ![w].object = NoWork]
        /\ UNCHANGED <<storeVars, artifact, fresh, taskVars, hitObject>>

\* resolveBuildCache with confirm_hit; when the reply is lost the worker
\* builds although the hit is on record.
ConfirmHit(w) ==
    LET t == work[w].task
    IN  /\ Is(w, "confirm")
        /\ IF Owned(w) /\ Servable
           THEN /\ hit' = hit \cup {t}
                /\ hitObject' = [hitObject EXCEPT ![t] = artifact]
                /\ UNCHANGED entry
                /\ \/ work' = [work EXCEPT ![w].step = "finish", ![w].object = NoWork]
                      /\ UNCHANGED faults
                   \/ work' = [work EXCEPT ![w].step = "build", ![w].object = NoWork] /\ Fault
           ELSE /\ IF Owned(w) /\ entry = "active" /\ fresh THEN Invalidate ELSE UNCHANGED entry
                /\ work' = [work EXCEPT ![w].step = "build", ![w].object = NoWork]
                /\ UNCHANGED <<hitVars, faults>>
        /\ UNCHANGED <<storeVars, artifact, fresh, taskVars>>

-----------------------------------------------------------------------------
(* Build, upload, publish *)

Taken(o) == \E w \in Worker : work[w] # NoWork /\ work[w].object = o

\* The key is new; without a free object (the bound of the model), or when the
\* upload fails, the build goes on without publishing.
UploadIntermediate(w) ==
    /\ Is(w, "build")
    /\ \/ \E o \in Object :
            /\ row[o] = "none" /\ o \notin present /\ ~Taken(o)
            /\ present' = present \cup {o}
            /\ work' = [work EXCEPT ![w].step = "publish", ![w].object = o]
       \/ Goto(w, "finish") /\ UNCHANGED present
    /\ UNCHANGED <<rowVars, age, request, binder, sweep, givenUp, faults, entryVars, taskVars, hitVars>>

\* insertBuildArtifact: the row is BOUND at once, reserved and charged
InsertArtifact(o) ==
    /\ row' = [row EXCEPT ![o] = "bound"]
    /\ quota' = [quota EXCEPT ![o] = "charged"]

\* Mutant: any error of the publication removes the upload.
PublishDeletesOnError(w) ==
    LET o == work[w].object
    IN  /\ Is(w, "publish")
        /\ \/ /\ Owned(w) /\ InsertArtifact(o)
              /\ entry' = "active" /\ artifact' = o /\ fresh' = TRUE
              /\ \/ UNCHANGED <<present, faults>>
                 \/ Fault /\ present' = present \ {o}
           \/ /\ ~Owned(w) /\ present' = present \ {o}
              /\ UNCHANGED <<row, quota, entryVars, faults>>
        /\ work' = [work EXCEPT ![w].step = "finish", ![w].object = NoWork]
        /\ UNCHANGED <<cached, age, request, binder, sweep, givenUp, taskVars, hitVars>>

\* publishBuildCache: an upsert, so the entry forgets its former artifact.  The
\* worker removes its upload only on a definitive refusal; a call or a reply
\* that is lost leaves it in the bucket.
PublishBuildCache(w) ==
    LET o == work[w].object
    IN  /\ Is(w, "publish")
        /\ \/ /\ Owned(w) /\ InsertArtifact(o)
              /\ entry' = "active" /\ artifact' = o /\ fresh' = TRUE
              /\ UNCHANGED present
              /\ UNCHANGED faults \/ Fault
           \/ /\ ~Owned(w) /\ present' = present \ {o}
              /\ UNCHANGED <<row, quota, entryVars, faults>>
           \/ Fault /\ UNCHANGED <<row, quota, present, entryVars>>
        /\ work' = [work EXCEPT ![w].step = "finish", ![w].object = NoWork]
        /\ UNCHANGED <<cached, age, request, binder, sweep, givenUp, taskVars, hitVars>>

\* CompleteBuildTask or FailBuildTask, refused if the task is gone
FinishBuild(w) ==
    LET t == work[w].task
    IN  /\ Is(w, "finish")
        /\ \/ /\ Owned(w)
              /\ \E result \in {"success", "failed"} : build' = [build EXCEPT ![t] = result]
           \/ ~Owned(w) /\ UNCHANGED build
        /\ work' = [work EXCEPT ![w] = NoWork]
        /\ UNCHANGED <<storeVars, faults, entryVars, attempt, builder, hitVars>>

BuilderDies(w) ==
    /\ work[w] # NoWork /\ Fault
    /\ work' = [work EXCEPT ![w] = NoWork]
    /\ UNCHANGED <<storeVars, entryVars, taskVars, hitVars>>

-----------------------------------------------------------------------------
(* Invalidation and eviction *)

TtlPasses ==
    /\ fresh /\ fresh' = FALSE
    /\ UNCHANGED <<storeVars, faults, entry, artifact, taskVars, hitVars, work>>

\* invalidateBuildCache by a user; the object is left where it is
InvalidateBuildCache ==
    /\ entry = "active" /\ Invalidate
    /\ UNCHANGED <<storeVars, faults, artifact, fresh, taskVars, hitVars, work>>

\* Mutant: only builds that still run count.
ReferencedRunning == {t \in hit : build[t] \in {"building", "lapsed"}}

\* t_build_task rows with this cache_entry_id; a lapsed task keeps its status
Referenced == {t \in hit : build[t] \in {"building", "lapsed", "success"}}

\* cleanupBuildCache: an expired entry, or (when space is short) any other
CleanupBuildCache ==
    LET reclaimed == Referenced = {} /\ row[artifact] = "bound"
    IN  /\ entry = "active"
        /\ entry' = IF fresh THEN "invalidated" ELSE "expired"
        /\ row' = IF reclaimed THEN [row EXCEPT ![artifact] = "failed"] ELSE row
        /\ quota' = IF reclaimed THEN [quota EXCEPT ![artifact] = "released"] ELSE quota
        /\ UNCHANGED <<cached, present, age, request, binder, sweep, givenUp, faults>>
        /\ UNCHANGED <<artifact, fresh, taskVars, hitVars, work>>

-----------------------------------------------------------------------------
BuilderStep(w) ==
    \/ \E t \in Task : ClaimTask(w, t)
    \/ ResolveBuildCache(w) \/ DownloadVerified(w) \/ ConfirmHit(w)
    \/ UploadIntermediate(w) \/ PublishBuildCache(w) \/ FinishBuild(w) \/ BuilderDies(w)

StorageStep ==
    \/ \E o \in Object : TimePasses(o)
    \/ \E s \in Sweeper : Sweep(s)

CacheNext ==
    \/ \E w \in Worker : BuilderStep(w)
    \/ \E t \in Task : LeaseLapses(t)
    \/ TtlPasses \/ InvalidateBuildCache \/ CleanupBuildCache
    \/ StorageStep /\ UNCHANGED cacheVars

CacheSpec == CacheInit /\ [][CacheNext]_allVars

-----------------------------------------------------------------------------
\* An entry that could be served has its object: no builder removes what its
\* lost publication has registered, and no cleanup takes an object back while
\* an entry still names it (V4 specification, section 5).
ActiveEntryHasObject == entry = "active" => row[artifact] = "bound" /\ artifact \in present

\* "What a successful task still refers to is not deleted, only the entry ends"
\* (V4 acceptance report, line 44): through republication, eviction, lapses and
\* the steps of the cleanup loop, the object of a confirmed hit stays.
HitObjectKept ==
    \A t \in hit : build[t] \in {"building", "lapsed", "success"} =>
        row[hitObject[t]] = "bound" /\ hitObject[t] \in present
=============================================================================
