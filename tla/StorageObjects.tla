--------------------------- MODULE StorageObjects ---------------------------
(***************************************************************************)
(* Private objects of a tenant: the row of t_storage_object, the status    *)
(* that the Redis cache of the generated model holds, the storage.bytes    *)
(* reservation, and the object in the bucket.                              *)
(*                                                                         *)
(* Four parties change them without locking each other: clients with a     *)
(* presigned PUT, the gateway (CompletePlatformUpload, ImportArtifact and  *)
(* the CleanupFailedUpload both end in when anything goes wrong), the      *)
(* handlers that bind a READY object to a version, a signing             *)
(* configuration, a branding profile or a template, and the cleanup loop   *)
(* of every builder process.                                               *)
(*                                                                         *)
(* Time: the presigned URL lives 15 minutes; uploads older than 30 are     *)
(* swept.  age is 0 while the URL lives, 1 after it, 2 once swept; a PUT   *)
(* that began in time may still be on its way at 1, and at 2 if SlowPut.   *)
(***************************************************************************)
EXTENDS Naturals

CONSTANTS
    Object,
    Request,        \* calls of CompletePlatformUpload and ImportArtifact
    Binder,         \* calls of createVersion, createSigningConfig, ...
    Sweeper,        \* cleanup loops, one object at a time
    NoWork,
    SlowPut,        \* a PUT may take longer than 15 minutes
    MaxFaults       \* bound on failing calls, lost replies and crashes

Status == {"uploading", "ready", "bound", "failed", "deleted"}
RequestStep == {"put", "read", "good", "completed", "binding", "bad", "removed"}
RequestWork == [object : Object, import : BOOLEAN, step : RequestStep]
SweepWork == [object : Object, step : {"listed", "removed"}]

ASSUME NoWorkAssumption == NoWork \notin RequestWork \cup SweepWork \cup Object
ASSUME BoundsAssumption == SlowPut \in BOOLEAN /\ MaxFaults \in Nat

VARIABLES
    row,        \* t_storage_object.status, "none" without a row
    cached,     \* the status FindOne would take from Redis, "none" on a miss
    present,    \* objects in the bucket
    quota,      \* t_quota_reservation of storage:<object key>
    age,        \* of the row
    request,    \* what a gateway call is at
    binder,     \* the object a binding handler has read as READY
    sweep,      \* what a cleanup loop is at
    givenUp,    \* objects CleanupFailedUpload was called for (history)
    faults

rowVars == <<row, cached, quota>>
vars == <<rowVars, present, age, request, binder, sweep, givenUp, faults>>

StorageTypeOK ==
    /\ row \in [Object -> Status \cup {"none"}]
    /\ cached \in [Object -> Status \cup {"none"}]
    /\ present \in SUBSET Object
    /\ quota \in [Object -> {"none", "reserved", "charged", "released"}]
    /\ age \in [Object -> 0..2]
    /\ request \in [Request -> RequestWork \cup {NoWork}]
    /\ binder \in [Binder -> Object \cup {NoWork}]
    /\ sweep \in [Sweeper -> SweepWork \cup {NoWork}]
    /\ givenUp \in SUBSET Object
    /\ faults \in 0..MaxFaults
    /\ \A o \in Object :
        /\ row[o] = "none" <=> quota[o] = "none"
        /\ row[o] = "none" => cached[o] = "none" /\ age[o] = 0
    /\ \A r \in Request : request[r] # NoWork => row[request[r].object] # "none"
    /\ \A b \in Binder : binder[b] # NoWork => row[binder[b]] # "none"

Init ==
    /\ row = [o \in Object |-> "none"]
    /\ cached = [o \in Object |-> "none"]
    /\ present = {}
    /\ quota = [o \in Object |-> "none"]
    /\ age = [o \in Object |-> 0]
    /\ request = [r \in Request |-> NoWork]
    /\ binder = [b \in Binder |-> NoWork]
    /\ sweep = [s \in Sweeper |-> NoWork]
    /\ givenUp = {}
    /\ faults = 0

Fault == faults < MaxFaults /\ faults' = faults + 1

-----------------------------------------------------------------------------
(* The generated model: Update writes every column and then deletes the    *)
(* cache entry.  Inside a transaction that happens before the commit, and  *)
(* outside of one a reader may be between its SELECT and its SET: either   *)
(* way the old row may be back in the cache afterwards.                    *)

Seen(o) == IF cached[o] # "none" THEN cached[o] ELSE row[o]

FindOne(o) == cached' = [cached EXCEPT ![o] = Seen(o)]

Update(o, status) ==
    /\ row' = [row EXCEPT ![o] = status]
    /\ cached' \in {[cached EXCEPT ![o] = "none"], [cached EXCEPT ![o] = row[o]]}

CacheExpires(o) ==
    /\ cached[o] # "none"
    /\ cached' = [cached EXCEPT ![o] = "none"]
    /\ UNCHANGED <<row, quota, present, age, request, binder, sweep, givenUp, faults>>

TimePasses(o) ==
    /\ row[o] # "none" /\ age[o] < 2
    /\ age' = [age EXCEPT ![o] = @ + 1]
    /\ UNCHANGED <<rowVars, present, request, binder, sweep, givenUp, faults>>

\* The billing worker ends reservations after 24 hours.
ReservationExpires(o) ==
    /\ age[o] = 2 /\ quota[o] = "reserved"
    /\ quota' = [quota EXCEPT ![o] = "released"]
    /\ UNCHANGED <<row, cached, present, age, request, binder, sweep, givenUp, faults>>

-----------------------------------------------------------------------------
(* Handlers of the core service *)

\* Mutant: the row is created without a reservation.
CreateUnreserved(o) ==
    /\ row[o] = "none"
    /\ row' = [row EXCEPT ![o] = "uploading"]
    /\ UNCHANGED <<quota, cached>>

\* CreateStorageObject: row and reservation in one transaction
CreateStorageObject(o) ==
    /\ row[o] = "none"
    /\ row' = [row EXCEPT ![o] = "uploading"]
    /\ quota' = [quota EXCEPT ![o] = "reserved"]
    /\ UNCHANGED cached

\* Mutant: the reservation is left to its expiry.
CompleteUncharged(o) ==
    /\ row[o] = "uploading" /\ quota[o] = "reserved"
    /\ Update(o, "ready")
    /\ UNCHANGED quota

\* CompleteStorageObject, under FOR UPDATE; a released reservation refuses it
CompleteStorageObject(o) ==
    /\ row[o] = "uploading" /\ quota[o] = "reserved"
    /\ quota' = [quota EXCEPT ![o] = "charged"]
    /\ Update(o, "ready")

\* FailStorageObject, under FOR UPDATE; a completed object stays charged
FailStorageObject(o) ==
    /\ row[o] \in {"uploading", "ready", "failed"}
    /\ quota' = IF row[o] = "uploading" /\ quota[o] = "reserved"
                THEN [quota EXCEPT ![o] = "released"] ELSE quota
    /\ Update(o, "failed")

-----------------------------------------------------------------------------
(* Clients and the gateway *)

InitiatePlatformUpload(o) ==
    /\ CreateStorageObject(o)
    /\ UNCHANGED <<present, age, request, binder, sweep, givenUp, faults>>

InTime(o) == age[o] < 2 \/ SlowPut

\* The presigned PUT of the client
PutObject(o) ==
    /\ row[o] # "none" /\ o \notin present
    /\ InTime(o)
    /\ present' = present \cup {o}
    /\ UNCHANGED <<rowVars, age, request, binder, sweep, givenUp, faults>>

Begin(r, o, import, step) ==
    /\ request[r] = NoWork
    /\ request' = [request EXCEPT ![r] = [object |-> o, import |-> import, step |-> step]]

At(r, step) == request[r] # NoWork /\ request[r].step = step
Advance(r, step) == request' = [request EXCEPT ![r].step = step]
End(r) == request' = [request EXCEPT ![r] = NoWork]

\* GetStorageObject hides deleted rows and nothing else.
CompletePlatformUpload(r, o) ==
    /\ Seen(o) \notin {"none", "deleted"}
    /\ Begin(r, o, FALSE, "read")
    /\ FindOne(o)
    /\ UNCHANGED <<row, quota, present, age, binder, sweep, givenUp, faults>>

ImportArtifact(r, o) ==
    /\ CreateStorageObject(o)
    /\ Begin(r, o, TRUE, "put")
    /\ UNCHANGED <<present, age, binder, sweep, givenUp, faults>>

\* The import uploads by itself; a failing PUT may have stored the object.
ImportPut(r) ==
    /\ At(r, "put") /\ InTime(request[r].object)
    /\ \/ Advance(r, "read") /\ present' = present \cup {request[r].object} /\ UNCHANGED faults
       \/ Advance(r, "bad") /\ present' \in {present, present \cup {request[r].object}} /\ Fault
    /\ UNCHANGED <<rowVars, age, binder, sweep, givenUp>>

\* Anything wrong with the bucket, its reply or the bytes reads as an error.
VerifyStorageObject(r) ==
    /\ At(r, "read")
    /\ \/ request[r].object \in present /\ Advance(r, "good") /\ UNCHANGED faults
       \/ request[r].object \notin present /\ Advance(r, "bad") /\ UNCHANGED faults
       \/ request[r].object \in present /\ Advance(r, "bad") /\ Fault
    /\ UNCHANGED <<rowVars, present, age, binder, sweep, givenUp>>

\* An import that is refused, or does not hear of its success, cleans up;
\* the other call returns the error.
CompleteUpload(r) ==
    LET o == request[r].object
        import == request[r].import
    IN  /\ At(r, "good")
        /\ \/ /\ CompleteStorageObject(o)
              /\ \/ UNCHANGED faults /\ IF import THEN Advance(r, "completed") ELSE End(r)
                 \/ Fault /\ IF import THEN Advance(r, "bad") ELSE End(r)
           \/ /\ ~(row[o] = "uploading" /\ quota[o] = "reserved")
              /\ IF import THEN Advance(r, "bad") ELSE End(r)
              /\ UNCHANGED <<rowVars, faults>>
        /\ UNCHANGED <<present, age, binder, sweep, givenUp>>

\* ImportSourceArtifact looks at the (cached) object first.  It fails on other
\* checks as well, or finds that an earlier call has imported the artifact:
\* then its own object is superfluous.
ImportSourceArtifact(r) ==
    LET o == request[r].object
    IN  /\ At(r, "completed")
        /\ FindOne(o)
        /\ \/ Seen(o) = "ready" /\ Advance(r, "binding")
           \/ Advance(r, "bad")
        /\ UNCHANGED <<row, quota, present, age, binder, sweep, givenUp, faults>>

\* Its transaction: version, full-row update of the object, provenance
ImportBinds(r) ==
    LET o == request[r].object
    IN  /\ At(r, "binding")
        /\ Update(o, "bound")
        /\ \/ End(r) /\ UNCHANGED faults
           \/ Advance(r, "bad") /\ Fault
        /\ UNCHANGED <<quota, present, age, binder, sweep, givenUp>>

\* CleanupFailedUpload, first half.  An error of the bucket is only logged.
CleanupRemoves(r) ==
    LET o == request[r].object
    IN  /\ At(r, "bad")
        /\ Advance(r, "removed")
        /\ givenUp' = givenUp \cup {o}
        /\ \/ present' = present \ {o} /\ UNCHANGED faults
           \/ UNCHANGED present /\ Fault
        /\ UNCHANGED <<rowVars, age, binder, sweep>>

\* Second half.  A refusal, for a bound or deleted row, is only logged.
CleanupFails(r) ==
    LET o == request[r].object
    IN  /\ At(r, "removed")
        /\ \/ FailStorageObject(o) /\ UNCHANGED faults
           \/ row[o] \in {"bound", "deleted"} /\ UNCHANGED <<rowVars, faults>>
           \/ Fault /\ UNCHANGED rowVars
        /\ End(r)
        /\ UNCHANGED <<present, age, binder, sweep, givenUp>>

\* The gateway dies, or its client hangs up and the context is cancelled.
RequestStops(r) ==
    /\ request[r] # NoWork
    /\ End(r) /\ Fault
    /\ UNCHANGED <<rowVars, present, age, binder, sweep, givenUp>>

-----------------------------------------------------------------------------
(* Binding: read through the cache, checked, written back as a whole row.  *)

BeginBind(b, o) ==
    /\ binder[b] = NoWork
    /\ Seen(o) = "ready"
    /\ FindOne(o)
    /\ binder' = [binder EXCEPT ![b] = o]
    /\ UNCHANGED <<row, quota, present, age, request, sweep, givenUp, faults>>

Bind(b) ==
    /\ binder[b] # NoWork
    /\ Update(binder[b], "bound")
    /\ binder' = [binder EXCEPT ![b] = NoWork]
    /\ UNCHANGED <<quota, present, age, request, sweep, givenUp, faults>>

-----------------------------------------------------------------------------
(* Cleanup loop of a builder *)

Expired(o) == row[o] = "uploading" /\ age[o] = 2

\* Mutant: stale uploads are listed without being failed first.
ClaimUnfailed(s) ==
    /\ sweep[s] = NoWork
    /\ \E o \in Object :
        /\ row[o] \in {"uploading", "failed"} /\ age[o] = 2
        /\ sweep' = [sweep EXCEPT ![s] = [object |-> o, step |-> "listed"]]
    /\ UNCHANGED <<row, quota, cached, present, age, request, binder, givenUp, faults>>

\* Mutant: failed rows are listed whatever their age.
ClaimYoung(s) ==
    /\ sweep[s] = NoWork
    /\ row' = [o \in Object |-> IF Expired(o) THEN "failed" ELSE row[o]]
    /\ \E o \in Object :
        /\ row'[o] = "failed"
        /\ sweep' = [sweep EXCEPT ![s] = [object |-> o, step |-> "listed"]]
    /\ UNCHANGED <<quota, cached, present, age, request, binder, givenUp, faults>>

\* ClaimExpiredStorageObjects: two statements outside of the model, so the
\* cache keeps what it has; the reservations of the uploads are kept as well.
ClaimExpiredStorageObjects(s) ==
    /\ sweep[s] = NoWork
    /\ row' = [o \in Object |-> IF Expired(o) THEN "failed" ELSE row[o]]
    /\ \E o \in Object :
        /\ row'[o] = "failed" /\ age[o] = 2
        /\ sweep' = [sweep EXCEPT ![s] = [object |-> o, step |-> "listed"]]
    /\ UNCHANGED <<quota, cached, present, age, request, binder, givenUp, faults>>

\* store.DeleteObject; an error leaves the row for the next round
SweepRemoves(s) ==
    /\ sweep[s] # NoWork /\ sweep[s].step = "listed"
    /\ \/ /\ present' = present \ {sweep[s].object}
          /\ sweep' = [sweep EXCEPT ![s].step = "removed"]
          /\ UNCHANGED faults
       \/ Fault /\ sweep' = [sweep EXCEPT ![s] = NoWork] /\ UNCHANGED present
    /\ UNCHANGED <<rowVars, age, request, binder, givenUp>>

MarkStorageObjectDeleted(s) ==
    LET o == sweep[s].object
    IN  /\ sweep[s] # NoWork /\ sweep[s].step = "removed"
        /\ row' = IF row[o] = "failed" THEN [row EXCEPT ![o] = "deleted"] ELSE row
        /\ sweep' = [sweep EXCEPT ![s] = NoWork]
        /\ UNCHANGED <<cached, quota, present, age, request, binder, givenUp, faults>>

SweeperStops(s) ==
    /\ sweep[s] # NoWork
    /\ sweep' = [sweep EXCEPT ![s] = NoWork] /\ Fault
    /\ UNCHANGED <<rowVars, present, age, request, binder, givenUp>>

-----------------------------------------------------------------------------
Gateway(r) ==
    \/ \E o \in Object : CompletePlatformUpload(r, o) \/ ImportArtifact(r, o)
    \/ ImportPut(r) \/ VerifyStorageObject(r) \/ CompleteUpload(r)
    \/ ImportSourceArtifact(r) \/ ImportBinds(r)
    \/ CleanupRemoves(r) \/ CleanupFails(r) \/ RequestStops(r)

Sweep(s) ==
    \/ ClaimExpiredStorageObjects(s) \/ SweepRemoves(s)
    \/ MarkStorageObjectDeleted(s) \/ SweeperStops(s)

Next ==
    \/ \E o \in Object :
        \/ InitiatePlatformUpload(o) \/ PutObject(o)
        \/ TimePasses(o) \/ CacheExpires(o) \/ ReservationExpires(o)
    \/ \E r \in Request : Gateway(r)
    \/ \E b \in Binder : Bind(b) \/ \E o \in Object : BeginBind(b, o)
    \/ \E s \in Sweeper : Sweep(s)

Spec == Init /\ [][Next]_vars

\* Cleanup loops run on a ticker in every builder and take failed rows in the
\* order of their ids; time passes.
Fairness ==
    /\ \A o \in Object : WF_vars(TimePasses(o))
    /\ \A s \in Sweeper : WF_vars(SweepRemoves(s)) /\ WF_vars(MarkStorageObjectDeleted(s))
    /\ \A o \in Object : SF_vars(\E s \in Sweeper : ClaimExpiredStorageObjects(s) /\ sweep'[s].object = o)

FairSpec == Spec /\ Fairness

-----------------------------------------------------------------------------
\* A verified object only disappears if the gateway gave it up, never by the
\* cleanup loops alone, although they list, remove and mark in three steps and
\* uploads complete between them: "Atomically make stale UPLOADING rows
\* ineligible for completion before the physical object is removed".
SweepsSpareCompleted ==
    \A o \in Object : row[o] \in {"ready", "bound"} /\ o \notin present => o \in givenUp

\* What is stored is paid for: a verified object is charged, whichever of the
\* racing calls wrote its row last, and a charge never comes without a
\* verification; a row that nobody completed never occupies quota for good.
StoredIsCharged ==
    \A o \in Object :
        /\ row[o] \in {"ready", "bound"} => quota[o] = "charged"
        /\ row[o] = "uploading" => quota[o] # "charged"

\* "Failed uploads must be removed, orphans are taken back by the cleanup"
\* (V1 specification, line 156), as long as PUTs end within the half hour.
FailedIsReclaimed ==
    \A o \in Object :
        row[o] = "failed" ~> (row[o] = "deleted" /\ o \notin present) \/ row[o] = "bound"
=============================================================================
