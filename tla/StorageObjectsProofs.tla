------------------------ MODULE StorageObjectsProofs ------------------------
(***************************************************************************)
(* Theorems about StorageObjects: for any number of objects, gateway       *)
(* calls, binding handlers and cleanup loops, with slow PUTs or without.   *)
(***************************************************************************)
EXTENDS StorageObjects, TLAPS

\* What a gateway call, and what a cleanup loop, is at.
LEMMA RequestAt ==
    ASSUME StorageTypeOK, NEW r \in Request, request[r] # NoWork
    PROVE  /\ request[r] \in RequestWork /\ request[r].object \in Object
           /\ request[r].import \in BOOLEAN /\ request[r].step \in RequestStep
           /\ \A step \in RequestStep :
                /\ [request[r] EXCEPT !.step = step] \in RequestWork
                /\ [request[r] EXCEPT !.step = step].object = request[r].object
                /\ [request[r] EXCEPT !.step = step].step = step
BY DEF StorageTypeOK, RequestWork

LEMMA SweepAt ==
    ASSUME StorageTypeOK, NEW s \in Sweeper, sweep[s] # NoWork
    PROVE  /\ sweep[s] \in SweepWork /\ sweep[s].object \in Object
           /\ sweep[s].step \in {"listed", "removed"}
           /\ [sweep[s] EXCEPT !.step = "removed"] \in SweepWork
           /\ [sweep[s] EXCEPT !.step = "removed"].object = sweep[s].object
BY DEF StorageTypeOK, SweepWork

\* The steps of a gateway call that has begun, as a set of values of request.
LEMMA AdvanceKeepsType ==
    ASSUME StorageTypeOK, NEW r \in Request, NEW from, At(r, from), NEW step \in RequestStep,
           Advance(r, step)
    PROVE  request' \in [Request -> RequestWork \cup {NoWork}]
BY RequestAt DEF StorageTypeOK, At, Advance

LEMMA EndKeepsType ==
    ASSUME StorageTypeOK, NEW r \in Request, End(r)
    PROVE  request' \in [Request -> RequestWork \cup {NoWork}]
BY DEF StorageTypeOK, End

LEMMA FaultKeepsType ==
    ASSUME StorageTypeOK, Fault \/ UNCHANGED faults PROVE faults' \in 0 .. MaxFaults
BY BoundsAssumption DEF StorageTypeOK, Fault

\* An update, or a read, of a row that exists.
RowsTyped ==
    /\ row \in [Object -> Status \cup {"none"}]
    /\ cached \in [Object -> Status \cup {"none"}]
    /\ quota \in [Object -> {"none", "reserved", "charged", "released"}]
    /\ \A o \in Object :
        /\ row[o] = "none" <=> quota[o] = "none"
        /\ row[o] = "none" => cached[o] = "none" /\ age[o] = 0

LEMMA ReadKeepsTypes ==
    ASSUME StorageTypeOK, NEW o \in Object, FindOne(o), UNCHANGED <<row, quota, age>>
    PROVE  RowsTyped'
BY DEF StorageTypeOK, RowsTyped, FindOne, Seen

LEMMA UpdateKeepsTypes ==
    ASSUME StorageTypeOK, NEW o \in Object, NEW new \in Status, Update(o, new), row[o] # "none",
           quota' \in [Object -> {"none", "reserved", "charged", "released"}],
           \A x \in Object : quota'[x] = "none" <=> quota[x] = "none", UNCHANGED age
    PROVE  RowsTyped'
<1>1. cached' \in [Object -> Status \cup {"none"}]
      /\ \A x \in Object : x # o => cached'[x] = cached[x]
    BY DEF StorageTypeOK, Update
<1>2. row' \in [Object -> Status \cup {"none"}] /\ row'[o] # "none"
      /\ \A x \in Object : x # o => row'[x] = row[x]
    BY DEF StorageTypeOK, Update, Status
<1> QED BY <1>1, <1>2 DEF StorageTypeOK, RowsTyped

LEMMA CreateKeepsTypes ==
    ASSUME StorageTypeOK, NEW o \in Object, CreateStorageObject(o), UNCHANGED age
    PROVE  RowsTyped'
BY DEF StorageTypeOK, RowsTyped, CreateStorageObject, Status

LEMMA CompleteKeepsTypes ==
    ASSUME StorageTypeOK, NEW o \in Object, CompleteStorageObject(o), UNCHANGED age
    PROVE  RowsTyped'
BY UpdateKeepsTypes DEF StorageTypeOK, CompleteStorageObject, Status

LEMMA FailKeepsTypes ==
    ASSUME StorageTypeOK, NEW o \in Object, FailStorageObject(o), UNCHANGED age
    PROVE  RowsTyped'
BY UpdateKeepsTypes DEF StorageTypeOK, FailStorageObject, Status

\* Work under way is about rows that exist, and no row goes away.
WorkHasRows ==
    /\ \A r \in Request : request[r] # NoWork => row[request[r].object] # "none"
    /\ \A b \in Binder : binder[b] # NoWork => row[binder[b]] # "none"

Rest ==
    /\ present \in SUBSET Object
    /\ age \in [Object -> 0..2]
    /\ request \in [Request -> RequestWork \cup {NoWork}]
    /\ binder \in [Binder -> Object \cup {NoWork}]
    /\ sweep \in [Sweeper -> SweepWork \cup {NoWork}]
    /\ givenUp \in SUBSET Object
    /\ faults \in 0..MaxFaults

LEMMA TypeParts == StorageTypeOK <=> RowsTyped /\ Rest /\ WorkHasRows
BY DEF StorageTypeOK, RowsTyped, Rest, WorkHasRows

\* WorkHasRows after a step of a gateway call.
LEMMA CallKeepsRows ==
    ASSUME StorageTypeOK, NEW r \in Request, request[r] # NoWork, NEW step \in RequestStep,
           Advance(r, step) \/ End(r), UNCHANGED binder,
           \A o \in Object : row[o] # "none" => row'[o] # "none"
    PROVE  WorkHasRows' /\ request' \in [Request -> RequestWork \cup {NoWork}]
<1>1. request[r] \in RequestWork /\ request[r].object \in Object
    BY RequestAt
<1>2. \A q \in Request : q # r => request'[q] = request[q]
    BY DEF StorageTypeOK, Advance, End
<1>3. request'[r] = NoWork \/ (request'[r] \in RequestWork /\ request'[r].object = request[r].object)
    <2>1. CASE End(r)
        BY <2>1 DEF StorageTypeOK, End
    <2>2. CASE Advance(r, step)
        <3>1. request'[r] = [request[r] EXCEPT !.step = step]
            BY <2>2 DEF StorageTypeOK, Advance
        <3> QED BY <3>1, RequestAt
    <2> QED BY <2>1, <2>2
<1>4. \A q \in Request : request[q] # NoWork => request[q].object \in Object
    BY RequestAt
<1>5. request' \in [Request -> RequestWork \cup {NoWork}]
    BY <1>3 DEF StorageTypeOK, Advance, End
<1> QED BY <1>2, <1>3, <1>4, <1>5 DEF StorageTypeOK, WorkHasRows

LEMMA RowsStay ==
    ASSUME StorageTypeOK, UNCHANGED <<request, binder>>,
           \A o \in Object : row[o] # "none" => row'[o] # "none"
    PROVE  WorkHasRows'
BY RequestAt DEF StorageTypeOK, WorkHasRows

\* Every step keeps StorageTypeOK.
LEMMA NextKeepsTypes ==
    ASSUME StorageTypeOK, [Next]_vars PROVE StorageTypeOK'
<1> USE DEF RequestStep, Status
<1>0. ASSUME RowsTyped', Rest', WorkHasRows' PROVE StorageTypeOK'
    BY <1>0 DEF StorageTypeOK, RowsTyped, Rest, WorkHasRows
<1>r. ASSUME UNCHANGED <<row, cached, quota, age>> PROVE RowsTyped'
    BY <1>r DEF StorageTypeOK, RowsTyped
<1>1. ASSUME NEW o \in Object, InitiatePlatformUpload(o) PROVE StorageTypeOK'
    <2>1. WorkHasRows'
        BY <1>1, RowsStay DEF InitiatePlatformUpload, CreateStorageObject, StorageTypeOK
    <2>2. RowsTyped'
        BY <1>1, CreateKeepsTypes DEF InitiatePlatformUpload
    <2> QED BY <1>0, <1>1, <2>1, <2>2 DEF InitiatePlatformUpload, StorageTypeOK, Rest
<1>2. ASSUME NEW o \in Object, PutObject(o) PROVE StorageTypeOK'
    BY <1>2 DEF PutObject, StorageTypeOK, rowVars
<1>3. ASSUME NEW o \in Object, TimePasses(o) PROVE StorageTypeOK'
    BY <1>3 DEF TimePasses, StorageTypeOK, rowVars
<1>4. ASSUME NEW o \in Object, CacheExpires(o) PROVE StorageTypeOK'
    BY <1>4 DEF CacheExpires, StorageTypeOK
<1>5. ASSUME NEW o \in Object, ReservationExpires(o) PROVE StorageTypeOK'
    BY <1>5 DEF ReservationExpires, StorageTypeOK
<1>6. ASSUME NEW r \in Request, NEW o \in Object, CompletePlatformUpload(r, o) PROVE StorageTypeOK'
    <2>1. [object |-> o, import |-> FALSE, step |-> "read"] \in RequestWork
        BY DEF RequestWork
    <2>2. RowsTyped'
        BY <1>6, ReadKeepsTypes DEF CompletePlatformUpload
    <2>3. row[o] # "none"
        BY <1>6 DEF CompletePlatformUpload, Seen, StorageTypeOK
    <2>4. WorkHasRows'
        BY <1>6, <2>3 DEF CompletePlatformUpload, Begin, StorageTypeOK, WorkHasRows
    <2> QED BY <1>0, <1>6, <2>1, <2>2, <2>4 DEF CompletePlatformUpload, Begin, StorageTypeOK, Rest
<1>7. ASSUME NEW r \in Request, NEW o \in Object, ImportArtifact(r, o) PROVE StorageTypeOK'
    <2>1. [object |-> o, import |-> TRUE, step |-> "put"] \in RequestWork
        BY DEF RequestWork
    <2>2. RowsTyped'
        BY <1>7, CreateKeepsTypes DEF ImportArtifact
    <2>3. \A x \in Object : (row[x] # "none" \/ x = o) => row'[x] # "none"
        BY <1>7 DEF ImportArtifact, CreateStorageObject, StorageTypeOK
    <2>5. \A q \in Request : request[q] # NoWork => request[q].object \in Object
        BY RequestAt
    <2>4. WorkHasRows'
        BY <1>7, <2>3, <2>5 DEF ImportArtifact, Begin, StorageTypeOK, WorkHasRows
    <2> QED BY <1>0, <1>7, <2>1, <2>2, <2>4 DEF ImportArtifact, Begin, StorageTypeOK, Rest
<1>8. ASSUME NEW r \in Request, ImportPut(r) PROVE StorageTypeOK'
    <2>1. request[r].object \in Object
        BY <1>8, RequestAt DEF ImportPut, At
    <2>2. WorkHasRows' /\ request' \in [Request -> RequestWork \cup {NoWork}]
        BY <1>8, CallKeepsRows DEF ImportPut, At, rowVars
    <2>3. faults' \in 0 .. MaxFaults
        BY <1>8, FaultKeepsType DEF ImportPut
    <2> QED BY <1>0, <1>r, <1>8, <2>1, <2>2, <2>3 DEF ImportPut, StorageTypeOK, rowVars, Rest
<1>9. ASSUME NEW r \in Request, VerifyStorageObject(r) PROVE StorageTypeOK'
    <2>1. WorkHasRows' /\ request' \in [Request -> RequestWork \cup {NoWork}]
        BY <1>9, CallKeepsRows DEF VerifyStorageObject, At, rowVars
    <2>2. faults' \in 0 .. MaxFaults
        BY <1>9, FaultKeepsType DEF VerifyStorageObject
    <2> QED BY <1>0, <1>r, <1>9, <2>1, <2>2 DEF VerifyStorageObject, StorageTypeOK, rowVars, Rest
<1>10. ASSUME NEW r \in Request, CompleteUpload(r) PROVE StorageTypeOK'
    <2>1. request[r].object \in Object
        BY <1>10, RequestAt DEF CompleteUpload, At
    <2>2. \A o \in Object : row[o] # "none" => row'[o] # "none"
        BY <1>10, <2>1 DEF CompleteUpload, CompleteStorageObject, Update, StorageTypeOK, rowVars
    <2>3. WorkHasRows' /\ request' \in [Request -> RequestWork \cup {NoWork}]
        BY <1>10, <2>2, CallKeepsRows DEF CompleteUpload, At
    <2>4. faults' \in 0 .. MaxFaults
        BY <1>10, FaultKeepsType DEF CompleteUpload
    <2>5. RowsTyped'
        BY <1>10, <1>r, <2>1, CompleteKeepsTypes DEF CompleteUpload, rowVars
    <2> QED BY <1>0, <1>10, <2>3, <2>4, <2>5 DEF CompleteUpload, StorageTypeOK, Rest
<1>11. ASSUME NEW r \in Request, ImportSourceArtifact(r) PROVE StorageTypeOK'
    <2>1. request[r].object \in Object
        BY <1>11, RequestAt DEF ImportSourceArtifact, At
    <2>2. WorkHasRows' /\ request' \in [Request -> RequestWork \cup {NoWork}]
        BY <1>11, CallKeepsRows DEF ImportSourceArtifact, At
    <2>3. RowsTyped'
        BY <1>11, <2>1, ReadKeepsTypes DEF ImportSourceArtifact
    <2> QED BY <1>0, <1>11, <2>2, <2>3 DEF ImportSourceArtifact, StorageTypeOK, Rest
<1>12. ASSUME NEW r \in Request, ImportBinds(r) PROVE StorageTypeOK'
    <2>1. request[r].object \in Object /\ row[request[r].object] # "none"
        BY <1>12, RequestAt DEF ImportBinds, At, StorageTypeOK
    <2>2. \A o \in Object : row[o] # "none" => row'[o] # "none"
        BY <1>12, <2>1 DEF ImportBinds, Update, StorageTypeOK
    <2>3. WorkHasRows' /\ request' \in [Request -> RequestWork \cup {NoWork}]
        BY <1>12, <2>2, CallKeepsRows DEF ImportBinds, At
    <2>4. faults' \in 0 .. MaxFaults
        BY <1>12, FaultKeepsType DEF ImportBinds
    <2>5. RowsTyped'
        BY <1>12, <2>1, UpdateKeepsTypes DEF ImportBinds, StorageTypeOK
    <2> QED BY <1>0, <1>12, <2>3, <2>4, <2>5 DEF ImportBinds, StorageTypeOK, Rest
<1>13. ASSUME NEW r \in Request, CleanupRemoves(r) PROVE StorageTypeOK'
    <2>1. request[r].object \in Object
        BY <1>13, RequestAt DEF CleanupRemoves, At
    <2>2. WorkHasRows' /\ request' \in [Request -> RequestWork \cup {NoWork}]
        BY <1>13, CallKeepsRows DEF CleanupRemoves, At, rowVars
    <2>3. faults' \in 0 .. MaxFaults
        BY <1>13, FaultKeepsType DEF CleanupRemoves
    <2> QED BY <1>0, <1>r, <1>13, <2>1, <2>2, <2>3 DEF CleanupRemoves, StorageTypeOK, rowVars, Rest
<1>14. ASSUME NEW r \in Request, CleanupFails(r) PROVE StorageTypeOK'
    <2>1. request[r].object \in Object
        BY <1>14, RequestAt DEF CleanupFails, At
    <2>2. \A o \in Object : row[o] # "none" => row'[o] # "none"
        BY <1>14, <2>1 DEF CleanupFails, FailStorageObject, Update, StorageTypeOK, rowVars
    <2>3. WorkHasRows' /\ request' \in [Request -> RequestWork \cup {NoWork}]
        BY <1>14, <2>2, CallKeepsRows DEF CleanupFails, At
    <2>4. faults' \in 0 .. MaxFaults
        BY <1>14, FaultKeepsType DEF CleanupFails
    <2>5. RowsTyped'
        BY <1>14, <1>r, <2>1, FailKeepsTypes DEF CleanupFails, rowVars
    <2> QED BY <1>0, <1>14, <2>3, <2>4, <2>5 DEF CleanupFails, StorageTypeOK, Rest
<1>15. ASSUME NEW r \in Request, RequestStops(r) PROVE StorageTypeOK'
    <2>1. WorkHasRows' /\ request' \in [Request -> RequestWork \cup {NoWork}]
        BY <1>15, CallKeepsRows DEF RequestStops, rowVars
    <2>2. faults' \in 0 .. MaxFaults
        BY <1>15, FaultKeepsType DEF RequestStops
    <2> QED BY <1>0, <1>r, <1>15, <2>1, <2>2 DEF RequestStops, StorageTypeOK, rowVars, Rest
<1>16. ASSUME NEW b \in Binder, NEW o \in Object, BeginBind(b, o) PROVE StorageTypeOK'
    <2>1. row[o] # "none"
        BY <1>16 DEF BeginBind, Seen, StorageTypeOK
    <2>2. RowsTyped'
        BY <1>16, ReadKeepsTypes DEF BeginBind
    <2>3. WorkHasRows'
        BY <1>16, <2>1 DEF BeginBind, StorageTypeOK, WorkHasRows
    <2> QED BY <1>0, <1>16, <2>2, <2>3 DEF BeginBind, StorageTypeOK, Rest
<1>17. ASSUME NEW b \in Binder, Bind(b) PROVE StorageTypeOK'
    <2>1. binder[b] \in Object /\ row[binder[b]] # "none"
        BY <1>17 DEF Bind, StorageTypeOK
    <2>2. RowsTyped'
        BY <1>17, <2>1, UpdateKeepsTypes DEF Bind, StorageTypeOK
    <2>3. \A o \in Object : row[o] # "none" => row'[o] # "none"
        BY <1>17, <2>1 DEF Bind, Update, StorageTypeOK
    <2>5. \A q \in Request : request[q] # NoWork => request[q].object \in Object
        BY RequestAt
    <2>4. WorkHasRows'
        BY <1>17, <2>3, <2>5 DEF Bind, StorageTypeOK, WorkHasRows
    <2> QED BY <1>0, <1>17, <2>2, <2>4 DEF Bind, StorageTypeOK, Rest
<1>18. ASSUME NEW s \in Sweeper, ClaimExpiredStorageObjects(s) PROVE StorageTypeOK'
    <2>1. \A o \in Object : [object |-> o, step |-> "listed"] \in SweepWork
        BY DEF SweepWork
    <2>2. RowsTyped'
        BY <1>18 DEF ClaimExpiredStorageObjects, Expired, StorageTypeOK, RowsTyped
    <2>3. WorkHasRows'
        BY <1>18, RowsStay DEF ClaimExpiredStorageObjects, Expired
    <2> QED BY <1>0, <1>18, <2>1, <2>2, <2>3 DEF ClaimExpiredStorageObjects, StorageTypeOK, Rest
<1>19. ASSUME NEW s \in Sweeper, SweepRemoves(s) PROVE StorageTypeOK'
    <2>1. sweep' \in [Sweeper -> SweepWork \cup {NoWork}]
        BY <1>19, SweepAt DEF SweepRemoves, StorageTypeOK
    <2>2. faults' \in 0 .. MaxFaults
        BY <1>19, FaultKeepsType DEF SweepRemoves
    <2>3. WorkHasRows'
        BY <1>19, RowsStay DEF SweepRemoves, rowVars
    <2> QED BY <1>0, <1>r, <1>19, <2>1, <2>2, <2>3 DEF SweepRemoves, StorageTypeOK, rowVars, Rest
<1>20. ASSUME NEW s \in Sweeper, MarkStorageObjectDeleted(s) PROVE StorageTypeOK'
    <2>1. sweep[s].object \in Object
        BY <1>20, SweepAt DEF MarkStorageObjectDeleted
    <2>2. RowsTyped' /\ \A o \in Object : row[o] # "none" => row'[o] # "none"
        BY <1>20, <2>1 DEF MarkStorageObjectDeleted, StorageTypeOK, RowsTyped
    <2>3. WorkHasRows'
        BY <1>20, <2>2, RowsStay DEF MarkStorageObjectDeleted
    <2> QED BY <1>0, <1>20, <2>2, <2>3 DEF MarkStorageObjectDeleted, StorageTypeOK, Rest
<1>21. ASSUME NEW s \in Sweeper, SweeperStops(s) PROVE StorageTypeOK'
    <2>1. faults' \in 0 .. MaxFaults
        BY <1>21, FaultKeepsType DEF SweeperStops
    <2> QED BY <1>21, <2>1 DEF SweeperStops, StorageTypeOK, rowVars
<1>22. CASE UNCHANGED vars
    BY <1>22 DEF vars, rowVars, StorageTypeOK
<1> QED BY <1>1, <1>2, <1>3, <1>4, <1>5, <1>6, <1>7, <1>8, <1>9, <1>10, <1>11, <1>12, <1>13, <1>14,
           <1>15, <1>16, <1>17, <1>18, <1>19, <1>20, <1>21, <1>22 DEF Next, Gateway, Sweep

\* StorageTypeOK is inductive by itself: rows, cache, quota and the work under
\* way agree about which objects exist.
THEOREM StorageTypeCorrect == Spec => []StorageTypeOK
<1>1. Init => StorageTypeOK
    BY BoundsAssumption DEF Init, StorageTypeOK
<1> QED BY <1>1, NextKeepsTypes, PTL DEF Spec

-----------------------------------------------------------------------------
\* The call of r is at step, or over; the others are where they were.
LEMMA AfterAdvance ==
    ASSUME StorageTypeOK, NEW r \in Request, request[r] # NoWork, NEW step \in RequestStep, Advance(r, step)
    PROVE  /\ \A q \in Request : q # r => request'[q] = request[q]
           /\ request'[r].object = request[r].object /\ request'[r].step = step
<1>1. request'[r] = [request[r] EXCEPT !.step = step]
    BY DEF StorageTypeOK, Advance
<1> QED BY <1>1, RequestAt DEF StorageTypeOK, Advance

LEMMA AfterEnd ==
    ASSUME StorageTypeOK, NEW r \in Request, End(r)
    PROVE  request'[r] = NoWork /\ \A q \in Request : q # r => request'[q] = request[q]
BY DEF StorageTypeOK, End

Verified == {"ready", "bound"}

\* The strengthening of StoredIsCharged: whoever takes an object for verified,
\* the cache, a binding handler or an import, takes a charged one for it.
VerifiedCharged ==
    /\ \A o \in Object : cached[o] \in Verified => quota[o] = "charged"
    /\ \A b \in Binder : binder[b] # NoWork => quota[binder[b]] = "charged"
    /\ \A r \in Request :
         request[r] # NoWork /\ request[r].step \in {"completed", "binding"} =>
            quota[request[r].object] = "charged"

\* The strengthening of SweepsSpareCompleted: unless the gateway gave an object
\* up, a cleanup loop is only at failed rows, and whoever takes an object for
\* verified is right.
SweepsOnlyFailed ==
    /\ \A o \in Object \ givenUp : cached[o] \in Verified => row[o] \in Verified
    /\ \A b \in Binder : binder[b] # NoWork /\ binder[b] \notin givenUp => row[binder[b]] \in Verified
    /\ \A r \in Request : request[r] # NoWork /\ request[r].object \notin givenUp =>
         /\ request[r].step \in {"completed", "binding"} => row[request[r].object] \in Verified
         /\ request[r].step = "good" /\ row[request[r].object] = "uploading" =>
               request[r].object \in present
         /\ request[r].step # "removed"
    /\ \A s \in Sweeper : sweep[s] # NoWork /\ sweep[s].object \notin givenUp =>
         row[sweep[s].object] \in {"failed", "deleted"}

\* Verified objects are charged and others are not, whatever races.
THEOREM StoredStaysCharged == Spec => []StoredIsCharged
<1> USE DEF Verified
<1> DEFINE Inv == StoredIsCharged /\ VerifiedCharged
<1>1. Init => Inv
    BY DEF Init, StoredIsCharged, VerifiedCharged
<1>2. StorageTypeOK /\ Inv /\ [Next]_vars => Inv'
    <2> SUFFICES ASSUME StorageTypeOK, Inv, [Next]_vars PROVE Inv'
        OBVIOUS
    <2> USE DEF RequestStep
    <2>a. /\ \A q \in Request : request[q] # NoWork => request[q].object \in Object
          /\ \A s \in Sweeper : sweep[s] # NoWork => sweep[s].object \in Object
        BY RequestAt, SweepAt
    <2>1. ASSUME NEW o \in Object, InitiatePlatformUpload(o) PROVE Inv'
        BY <2>1, <2>a DEF InitiatePlatformUpload, CreateStorageObject, StorageTypeOK, StoredIsCharged, VerifiedCharged
    <2>2. ASSUME NEW o \in Object, PutObject(o) PROVE Inv'
        BY <2>2, <2>a DEF PutObject, rowVars, StorageTypeOK, StoredIsCharged, VerifiedCharged
    <2>3. ASSUME NEW o \in Object, TimePasses(o) PROVE Inv'
        BY <2>3, <2>a DEF TimePasses, rowVars, StorageTypeOK, StoredIsCharged, VerifiedCharged
    <2>4. ASSUME NEW o \in Object, CacheExpires(o) PROVE Inv'
        BY <2>4, <2>a DEF CacheExpires, StorageTypeOK, StoredIsCharged, VerifiedCharged
    <2>5. ASSUME NEW o \in Object, ReservationExpires(o) PROVE Inv'
        BY <2>5, <2>a DEF ReservationExpires, StorageTypeOK, StoredIsCharged, VerifiedCharged
    <2>6. ASSUME NEW r \in Request, NEW o \in Object, CompletePlatformUpload(r, o) PROVE Inv'
        <3>1. /\ \A q \in Request : q # r => request'[q] = request[q]
              /\ request'[r].object = o /\ request'[r].step = "read"
            BY <2>6 DEF CompletePlatformUpload, Begin, StorageTypeOK
        <3>2. \A x \in Object : cached'[x] \in {cached[x], row[x]}
            BY <2>6 DEF CompletePlatformUpload, FindOne, Seen, StorageTypeOK
        <3> QED BY <2>6, <2>a, <3>1, <3>2 DEF CompletePlatformUpload, StorageTypeOK, StoredIsCharged, VerifiedCharged
    <2>7. ASSUME NEW r \in Request, NEW o \in Object, ImportArtifact(r, o) PROVE Inv'
        <3>1. /\ \A q \in Request : q # r => request'[q] = request[q]
              /\ request'[r].object = o /\ request'[r].step = "put"
            BY <2>7 DEF ImportArtifact, Begin, StorageTypeOK
        <3> QED BY <2>7, <2>a, <3>1 DEF ImportArtifact, CreateStorageObject, StorageTypeOK, StoredIsCharged, VerifiedCharged
    <2>8. ASSUME NEW r \in Request, ImportPut(r) PROVE Inv'
        <3>1. /\ \A q \in Request : q # r => request'[q] = request[q]
              /\ request'[r].object = request[r].object /\ request'[r].step \in {"read", "bad"}
            BY <2>8, AfterAdvance DEF ImportPut, At
        <3> QED BY <2>8, <2>a, <3>1 DEF ImportPut, At, rowVars, StorageTypeOK, StoredIsCharged, VerifiedCharged
    <2>9. ASSUME NEW r \in Request, VerifyStorageObject(r) PROVE Inv'
        <3>1. /\ \A q \in Request : q # r => request'[q] = request[q]
              /\ request'[r].object = request[r].object
              /\ \/ request'[r].step = "good" /\ request[r].object \in present
                 \/ request'[r].step = "bad"
            BY <2>9, AfterAdvance DEF VerifyStorageObject, At
        <3> QED BY <2>9, <2>a, <3>1 DEF VerifyStorageObject, At, rowVars, StorageTypeOK, StoredIsCharged, VerifiedCharged
    <2>10. ASSUME NEW r \in Request, CompleteUpload(r) PROVE Inv'
        <3> DEFINE o == request[r].object
        <3>1. /\ \A q \in Request : q # r => request'[q] = request[q]
              /\ \/ request'[r] = NoWork
                 \/ request'[r].object = o /\ request'[r].step = "bad"
                 \/ request'[r].object = o /\ request'[r].step = "completed" /\ CompleteStorageObject(o)
            BY <2>10, AfterAdvance, AfterEnd DEF CompleteUpload, At
        <3>2. o \in Object /\ UNCHANGED <<present, age, binder, sweep, givenUp>>
            BY <2>10, <2>a DEF CompleteUpload, At
        <3>3. CASE CompleteStorageObject(o)
            <4>1. /\ row[o] = "uploading" /\ row' = [row EXCEPT ![o] = "ready"]
                  /\ quota' = [quota EXCEPT ![o] = "charged"]
                  /\ \A x \in Object : cached'[x] = cached[x] \/ (x = o /\ cached'[x] \in {"none", "uploading"})
                BY <3>2, <3>3 DEF CompleteStorageObject, Update, StorageTypeOK
            <4>2. row'[o] = "ready" /\ quota'[o] = "charged"
                BY <2>10, <3>2, <4>1 DEF CompleteUpload, At, StorageTypeOK, StoredIsCharged, VerifiedCharged
            <4>3. \A x \in Object : x # o => row'[x] = row[x] /\ quota'[x] = quota[x]
                BY <4>1 DEF StorageTypeOK
            <4> HIDE DEF o
            <4> QED BY <2>a, <3>1, <3>2, <4>1, <4>2, <4>3 DEF StorageTypeOK, StoredIsCharged, VerifiedCharged
        <3>4. CASE ~CompleteStorageObject(o)
            <4>1. UNCHANGED <<row, cached, quota>>
                BY <2>10, <3>4 DEF CompleteUpload, rowVars
            <4> HIDE DEF o
            <4> QED BY <2>a, <3>1, <3>2, <3>4, <4>1 DEF StorageTypeOK, StoredIsCharged, VerifiedCharged
        <3> QED BY <3>3, <3>4
    <2>11. ASSUME NEW r \in Request, ImportSourceArtifact(r) PROVE Inv'
        <3>1. /\ \A q \in Request : q # r => request'[q] = request[q]
              /\ request'[r].object = request[r].object /\ request'[r].step \in {"binding", "bad"}
            BY <2>11, AfterAdvance DEF ImportSourceArtifact, At
        <3>2. \A x \in Object : cached'[x] \in {cached[x], row[x]}
            BY <2>11, <2>a DEF ImportSourceArtifact, FindOne, Seen, StorageTypeOK, At
        <3> QED BY <2>11, <2>a, <3>1, <3>2 DEF ImportSourceArtifact, At, StorageTypeOK, StoredIsCharged, VerifiedCharged
    <2>u. ASSUME NEW o \in Object, Update(o, "bound"), UNCHANGED quota
          PROVE  /\ row'[o] = "bound" /\ \A x \in Object : x # o => row'[x] = row[x]
                 /\ \A x \in Object : cached'[x] \in {cached[x], row[x], "none"}
        BY <2>u DEF Update, StorageTypeOK
    <2>12. ASSUME NEW r \in Request, ImportBinds(r) PROVE Inv'
        <3>1. /\ \A q \in Request : q # r => request'[q] = request[q]
              /\ \/ request'[r] = NoWork
                 \/ request'[r].object = request[r].object /\ request'[r].step = "bad"
            BY <2>12, AfterAdvance, AfterEnd DEF ImportBinds, At
        <3>2. request[r].object \in Object /\ request[r] # NoWork /\ request[r].step = "binding"
              /\ Update(request[r].object, "bound")
              /\ UNCHANGED <<quota, present, age, binder, sweep, givenUp>>
            BY <2>12, <2>a DEF ImportBinds, At
        <3> QED BY <2>a, <2>u, <3>1, <3>2 DEF StorageTypeOK, StoredIsCharged, VerifiedCharged
    <2>13. ASSUME NEW r \in Request, CleanupRemoves(r) PROVE Inv'
        <3>1. /\ \A q \in Request : q # r => request'[q] = request[q]
              /\ request'[r].object = request[r].object /\ request'[r].step = "removed"
            BY <2>13, AfterAdvance DEF CleanupRemoves, At
        <3> QED BY <2>13, <2>a, <3>1 DEF CleanupRemoves, At, rowVars, StorageTypeOK, StoredIsCharged, VerifiedCharged
    <2>14. ASSUME NEW r \in Request, CleanupFails(r) PROVE Inv'
        <3> DEFINE o == request[r].object
        <3>1. request'[r] = NoWork /\ \A q \in Request : q # r => request'[q] = request[q]
            BY <2>14, AfterEnd DEF CleanupFails
        <3>2. o \in Object /\ UNCHANGED <<present, age, binder, sweep, givenUp>>
              /\ request[r] # NoWork /\ request[r].step = "removed"
            BY <2>14, <2>a DEF CleanupFails, At
        <3>3. CASE FailStorageObject(o)
            <4>1. /\ row'[o] = "failed" /\ \A x \in Object : x # o => row'[x] = row[x]
                  /\ \A x \in Object : quota[x] = "charged" => quota'[x] = "charged"
                  /\ \A x \in Object : quota[x] # "charged" => quota'[x] # "charged"
                  /\ \A x \in Object : cached'[x] = cached[x] \/ (x = o /\ cached'[x] \in {"none", row[o]})
                BY <3>2, <3>3 DEF FailStorageObject, Update, StorageTypeOK
            <4> HIDE DEF o
            <4> QED BY <2>a, <3>1, <3>2, <4>1 DEF StorageTypeOK, StoredIsCharged, VerifiedCharged
        <3>4. CASE ~FailStorageObject(o)
            <4>1. UNCHANGED <<row, cached, quota>>
                BY <2>14, <3>4 DEF CleanupFails, rowVars
            <4> HIDE DEF o
            <4> QED BY <2>a, <3>1, <3>2, <3>4, <4>1 DEF StorageTypeOK, StoredIsCharged, VerifiedCharged
        <3> QED BY <3>3, <3>4
    <2>15. ASSUME NEW r \in Request, RequestStops(r) PROVE Inv'
        <3>1. request'[r] = NoWork /\ \A q \in Request : q # r => request'[q] = request[q]
            BY <2>15, AfterEnd DEF RequestStops
        <3> QED BY <2>15, <2>a, <3>1 DEF RequestStops, rowVars, StorageTypeOK, StoredIsCharged, VerifiedCharged
    <2>16. ASSUME NEW b \in Binder, NEW o \in Object, BeginBind(b, o) PROVE Inv'
        <3>1. \A x \in Object : cached'[x] \in {cached[x], row[x]}
            BY <2>16 DEF BeginBind, FindOne, Seen, StorageTypeOK
        <3>2. row[o] \in Verified \/ cached[o] \in Verified
            BY <2>16 DEF BeginBind, Seen
        <3> QED BY <2>16, <2>a, <3>1, <3>2 DEF BeginBind, StorageTypeOK, StoredIsCharged, VerifiedCharged
    <2>17. ASSUME NEW b \in Binder, Bind(b) PROVE Inv'
        <3>1. /\ binder[b] \in Object /\ binder[b] # NoWork /\ Update(binder[b], "bound")
              /\ binder'[b] = NoWork /\ \A c \in Binder : c # b => binder'[c] = binder[c]
              /\ UNCHANGED <<quota, present, age, request, sweep, givenUp>>
            BY <2>17 DEF Bind, StorageTypeOK
        <3> QED BY <2>a, <2>u, <3>1 DEF StorageTypeOK, StoredIsCharged, VerifiedCharged
    <2>18. ASSUME NEW s \in Sweeper, ClaimExpiredStorageObjects(s) PROVE Inv'
        <3>1. PICK o \in Object : row'[o] = "failed" /\ sweep' = [sweep EXCEPT ![s] = [object |-> o, step |-> "listed"]]
            BY <2>18 DEF ClaimExpiredStorageObjects
        <3>2. sweep'[s].object = o /\ \A t \in Sweeper : t # s => sweep'[t] = sweep[t]
            BY <3>1 DEF StorageTypeOK
        <3>3. \A x \in Object : row'[x] = row[x] \/ (row[x] = "uploading" /\ row'[x] = "failed")
            BY <2>18 DEF ClaimExpiredStorageObjects, Expired
        <3> QED BY <2>18, <2>a, <3>1, <3>2, <3>3 DEF ClaimExpiredStorageObjects, StorageTypeOK, StoredIsCharged, VerifiedCharged
    <2>19. ASSUME NEW s \in Sweeper, SweepRemoves(s) PROVE Inv'
        <3>1. /\ \A t \in Sweeper : t # s => sweep'[t] = sweep[t]
              /\ sweep'[s] = NoWork \/ sweep'[s].object = sweep[s].object
            BY <2>19, SweepAt DEF SweepRemoves, StorageTypeOK
        <3>2. present' = present \/ present' = present \ {sweep[s].object}
            BY <2>19 DEF SweepRemoves
        <3> QED BY <2>19, <2>a, <3>1, <3>2 DEF SweepRemoves, rowVars, StorageTypeOK, StoredIsCharged, VerifiedCharged
    <2>20. ASSUME NEW s \in Sweeper, MarkStorageObjectDeleted(s) PROVE Inv'
        <3>1. /\ sweep[s].object \in Object /\ sweep'[s] = NoWork
              /\ \A t \in Sweeper : t # s => sweep'[t] = sweep[t]
            BY <2>20, <2>a DEF MarkStorageObjectDeleted, StorageTypeOK
        <3>2. \A x \in Object : row'[x] = row[x] \/ (row[x] = "failed" /\ row'[x] = "deleted")
            BY <2>20, <3>1 DEF MarkStorageObjectDeleted, StorageTypeOK
        <3> QED BY <2>20, <2>a, <3>1, <3>2 DEF MarkStorageObjectDeleted, StorageTypeOK, StoredIsCharged, VerifiedCharged
    <2>21. ASSUME NEW s \in Sweeper, SweeperStops(s) PROVE Inv'
        BY <2>21, <2>a DEF SweeperStops, rowVars, StorageTypeOK, StoredIsCharged, VerifiedCharged
    <2>22. CASE UNCHANGED vars
        BY <2>22 DEF vars, rowVars, StoredIsCharged, VerifiedCharged
    <2> QED BY <2>1, <2>2, <2>3, <2>4, <2>5, <2>6, <2>7, <2>8, <2>9, <2>10, <2>11, <2>12, <2>13, <2>14,
               <2>15, <2>16, <2>17, <2>18, <2>19, <2>20, <2>21, <2>22 DEF Next, Gateway, Sweep
<1> QED BY <1>1, <1>2, StorageTypeCorrect, PTL DEF Spec

\* No number of cleanup loops removes a verified object by itself.
THEOREM SweepsSpare == Spec => []SweepsSpareCompleted
<1> USE DEF Verified
<1> DEFINE Inv == SweepsSpareCompleted /\ SweepsOnlyFailed
<1>1. Init => Inv
    BY DEF Init, SweepsSpareCompleted, SweepsOnlyFailed
<1>2. StorageTypeOK /\ Inv /\ [Next]_vars => Inv'
    <2> SUFFICES ASSUME StorageTypeOK, Inv, [Next]_vars PROVE Inv'
        OBVIOUS
    <2> USE DEF RequestStep
    <2>a. /\ \A q \in Request : request[q] # NoWork => request[q].object \in Object
          /\ \A s \in Sweeper : sweep[s] # NoWork => sweep[s].object \in Object
        BY RequestAt, SweepAt
    <2>1. ASSUME NEW o \in Object, InitiatePlatformUpload(o) PROVE Inv'
        BY <2>1, <2>a DEF InitiatePlatformUpload, CreateStorageObject, StorageTypeOK, SweepsSpareCompleted, SweepsOnlyFailed
    <2>2. ASSUME NEW o \in Object, PutObject(o) PROVE Inv'
        BY <2>2, <2>a DEF PutObject, rowVars, StorageTypeOK, SweepsSpareCompleted, SweepsOnlyFailed
    <2>3. ASSUME NEW o \in Object, TimePasses(o) PROVE Inv'
        BY <2>3, <2>a DEF TimePasses, rowVars, StorageTypeOK, SweepsSpareCompleted, SweepsOnlyFailed
    <2>4. ASSUME NEW o \in Object, CacheExpires(o) PROVE Inv'
        BY <2>4, <2>a DEF CacheExpires, StorageTypeOK, SweepsSpareCompleted, SweepsOnlyFailed
    <2>5. ASSUME NEW o \in Object, ReservationExpires(o) PROVE Inv'
        BY <2>5, <2>a DEF ReservationExpires, StorageTypeOK, SweepsSpareCompleted, SweepsOnlyFailed
    <2>6. ASSUME NEW r \in Request, NEW o \in Object, CompletePlatformUpload(r, o) PROVE Inv'
        <3>1. /\ \A q \in Request : q # r => request'[q] = request[q]
              /\ request'[r].object = o /\ request'[r].step = "read"
            BY <2>6 DEF CompletePlatformUpload, Begin, StorageTypeOK
        <3>2. \A x \in Object : cached'[x] \in {cached[x], row[x]}
            BY <2>6 DEF CompletePlatformUpload, FindOne, Seen, StorageTypeOK
        <3> QED BY <2>6, <2>a, <3>1, <3>2 DEF CompletePlatformUpload, StorageTypeOK, SweepsSpareCompleted, SweepsOnlyFailed
    <2>7. ASSUME NEW r \in Request, NEW o \in Object, ImportArtifact(r, o) PROVE Inv'
        <3>1. /\ \A q \in Request : q # r => request'[q] = request[q]
              /\ request'[r].object = o /\ request'[r].step = "put"
            BY <2>7 DEF ImportArtifact, Begin, StorageTypeOK
        <3> QED BY <2>7, <2>a, <3>1 DEF ImportArtifact, CreateStorageObject, StorageTypeOK, SweepsSpareCompleted, SweepsOnlyFailed
    <2>8. ASSUME NEW r \in Request, ImportPut(r) PROVE Inv'
        <3>1. /\ \A q \in Request : q # r => request'[q] = request[q]
              /\ request'[r].object = request[r].object /\ request'[r].step \in {"read", "bad"}
            BY <2>8, AfterAdvance DEF ImportPut, At
        <3> QED BY <2>8, <2>a, <3>1 DEF ImportPut, At, rowVars, StorageTypeOK, SweepsSpareCompleted, SweepsOnlyFailed
    <2>9. ASSUME NEW r \in Request, VerifyStorageObject(r) PROVE Inv'
        <3>1. /\ \A q \in Request : q # r => request'[q] = request[q]
              /\ request'[r].object = request[r].object
              /\ \/ request'[r].step = "good" /\ request[r].object \in present
                 \/ request'[r].step = "bad"
            BY <2>9, AfterAdvance DEF VerifyStorageObject, At
        <3> QED BY <2>9, <2>a, <3>1 DEF VerifyStorageObject, At, rowVars, StorageTypeOK, SweepsSpareCompleted, SweepsOnlyFailed
    <2>10. ASSUME NEW r \in Request, CompleteUpload(r) PROVE Inv'
        <3> DEFINE o == request[r].object
        <3>1. /\ \A q \in Request : q # r => request'[q] = request[q]
              /\ \/ request'[r] = NoWork
                 \/ request'[r].object = o /\ request'[r].step = "bad"
                 \/ request'[r].object = o /\ request'[r].step = "completed" /\ CompleteStorageObject(o)
            BY <2>10, AfterAdvance, AfterEnd DEF CompleteUpload, At
        <3>2. o \in Object /\ UNCHANGED <<present, age, binder, sweep, givenUp>>
            BY <2>10, <2>a DEF CompleteUpload, At
        <3>3. CASE CompleteStorageObject(o)
            <4>1. /\ row[o] = "uploading" /\ row' = [row EXCEPT ![o] = "ready"]
                  /\ quota' = [quota EXCEPT ![o] = "charged"]
                  /\ \A x \in Object : cached'[x] = cached[x] \/ (x = o /\ cached'[x] \in {"none", "uploading"})
                BY <3>2, <3>3 DEF CompleteStorageObject, Update, StorageTypeOK
            <4>2. row'[o] = "ready" /\ quota'[o] = "charged" /\ (o \in present \/ o \in givenUp)
                BY <2>10, <3>2, <4>1 DEF CompleteUpload, At, StorageTypeOK, SweepsSpareCompleted, SweepsOnlyFailed
            <4>3. \A x \in Object : x # o => row'[x] = row[x] /\ quota'[x] = quota[x]
                BY <4>1 DEF StorageTypeOK
            <4> HIDE DEF o
            <4> QED BY <2>a, <3>1, <3>2, <4>1, <4>2, <4>3 DEF StorageTypeOK, SweepsSpareCompleted, SweepsOnlyFailed
        <3>4. CASE ~CompleteStorageObject(o)
            <4>1. UNCHANGED <<row, cached, quota>>
                BY <2>10, <3>4 DEF CompleteUpload, rowVars
            <4> HIDE DEF o
            <4> QED BY <2>a, <3>1, <3>2, <3>4, <4>1 DEF StorageTypeOK, SweepsSpareCompleted, SweepsOnlyFailed
        <3> QED BY <3>3, <3>4
    <2>11. ASSUME NEW r \in Request, ImportSourceArtifact(r) PROVE Inv'
        <3>1. /\ \A q \in Request : q # r => request'[q] = request[q]
              /\ request'[r].object = request[r].object /\ request'[r].step \in {"binding", "bad"}
            BY <2>11, AfterAdvance DEF ImportSourceArtifact, At
        <3>2. \A x \in Object : cached'[x] \in {cached[x], row[x]}
            BY <2>11, <2>a DEF ImportSourceArtifact, FindOne, Seen, StorageTypeOK, At
        <3> QED BY <2>11, <2>a, <3>1, <3>2 DEF ImportSourceArtifact, At, StorageTypeOK, SweepsSpareCompleted, SweepsOnlyFailed
    <2>u. ASSUME NEW o \in Object, Update(o, "bound"), UNCHANGED quota
          PROVE  /\ row'[o] = "bound" /\ \A x \in Object : x # o => row'[x] = row[x]
                 /\ \A x \in Object : cached'[x] \in {cached[x], row[x], "none"}
        BY <2>u DEF Update, StorageTypeOK
    <2>12. ASSUME NEW r \in Request, ImportBinds(r) PROVE Inv'
        <3>1. /\ \A q \in Request : q # r => request'[q] = request[q]
              /\ \/ request'[r] = NoWork
                 \/ request'[r].object = request[r].object /\ request'[r].step = "bad"
            BY <2>12, AfterAdvance, AfterEnd DEF ImportBinds, At
        <3>2. request[r].object \in Object /\ request[r] # NoWork /\ request[r].step = "binding"
              /\ Update(request[r].object, "bound")
              /\ UNCHANGED <<quota, present, age, binder, sweep, givenUp>>
            BY <2>12, <2>a DEF ImportBinds, At
        <3> QED BY <2>a, <2>u, <3>1, <3>2 DEF StorageTypeOK, SweepsSpareCompleted, SweepsOnlyFailed
    <2>13. ASSUME NEW r \in Request, CleanupRemoves(r) PROVE Inv'
        <3>1. /\ \A q \in Request : q # r => request'[q] = request[q]
              /\ request'[r].object = request[r].object /\ request'[r].step = "removed"
            BY <2>13, AfterAdvance DEF CleanupRemoves, At
        <3> QED BY <2>13, <2>a, <3>1 DEF CleanupRemoves, At, rowVars, StorageTypeOK, SweepsSpareCompleted, SweepsOnlyFailed
    <2>14. ASSUME NEW r \in Request, CleanupFails(r) PROVE Inv'
        <3> DEFINE o == request[r].object
        <3>1. request'[r] = NoWork /\ \A q \in Request : q # r => request'[q] = request[q]
            BY <2>14, AfterEnd DEF CleanupFails
        <3>2. o \in Object /\ UNCHANGED <<present, age, binder, sweep, givenUp>>
              /\ request[r] # NoWork /\ request[r].step = "removed"
            BY <2>14, <2>a DEF CleanupFails, At
        <3>3. CASE FailStorageObject(o)
            <4>1. /\ row'[o] = "failed" /\ \A x \in Object : x # o => row'[x] = row[x]
                  /\ \A x \in Object : quota[x] = "charged" => quota'[x] = "charged"
                  /\ \A x \in Object : quota[x] # "charged" => quota'[x] # "charged"
                  /\ \A x \in Object : cached'[x] = cached[x] \/ (x = o /\ cached'[x] \in {"none", row[o]})
                BY <3>2, <3>3 DEF FailStorageObject, Update, StorageTypeOK
            <4>2. o \in givenUp
                BY <3>2 DEF SweepsOnlyFailed
            <4> HIDE DEF o
            <4> QED BY <2>a, <3>1, <3>2, <4>1, <4>2 DEF StorageTypeOK, SweepsSpareCompleted, SweepsOnlyFailed
        <3>4. CASE ~FailStorageObject(o)
            <4>1. UNCHANGED <<row, cached, quota>>
                BY <2>14, <3>4 DEF CleanupFails, rowVars
            <4> HIDE DEF o
            <4> QED BY <2>a, <3>1, <3>2, <3>4, <4>1 DEF StorageTypeOK, SweepsSpareCompleted, SweepsOnlyFailed
        <3> QED BY <3>3, <3>4
    <2>15. ASSUME NEW r \in Request, RequestStops(r) PROVE Inv'
        <3>1. request'[r] = NoWork /\ \A q \in Request : q # r => request'[q] = request[q]
            BY <2>15, AfterEnd DEF RequestStops
        <3> QED BY <2>15, <2>a, <3>1 DEF RequestStops, rowVars, StorageTypeOK, SweepsSpareCompleted, SweepsOnlyFailed
    <2>16. ASSUME NEW b \in Binder, NEW o \in Object, BeginBind(b, o) PROVE Inv'
        <3>1. \A x \in Object : cached'[x] \in {cached[x], row[x]}
            BY <2>16 DEF BeginBind, FindOne, Seen, StorageTypeOK
        <3>2. row[o] \in Verified \/ cached[o] \in Verified
            BY <2>16 DEF BeginBind, Seen
        <3> QED BY <2>16, <2>a, <3>1, <3>2 DEF BeginBind, StorageTypeOK, SweepsSpareCompleted, SweepsOnlyFailed
    <2>17. ASSUME NEW b \in Binder, Bind(b) PROVE Inv'
        <3>1. /\ binder[b] \in Object /\ binder[b] # NoWork /\ Update(binder[b], "bound")
              /\ binder'[b] = NoWork /\ \A c \in Binder : c # b => binder'[c] = binder[c]
              /\ UNCHANGED <<quota, present, age, request, sweep, givenUp>>
            BY <2>17 DEF Bind, StorageTypeOK
        <3> QED BY <2>a, <2>u, <3>1 DEF StorageTypeOK, SweepsSpareCompleted, SweepsOnlyFailed
    <2>18. ASSUME NEW s \in Sweeper, ClaimExpiredStorageObjects(s) PROVE Inv'
        <3>1. PICK o \in Object : row'[o] = "failed" /\ sweep' = [sweep EXCEPT ![s] = [object |-> o, step |-> "listed"]]
            BY <2>18 DEF ClaimExpiredStorageObjects
        <3>2. sweep'[s].object = o /\ \A t \in Sweeper : t # s => sweep'[t] = sweep[t]
            BY <3>1 DEF StorageTypeOK
        <3>3. \A x \in Object : row'[x] = row[x] \/ (row[x] = "uploading" /\ row'[x] = "failed")
            BY <2>18 DEF ClaimExpiredStorageObjects, Expired
        <3> QED BY <2>18, <2>a, <3>1, <3>2, <3>3 DEF ClaimExpiredStorageObjects, StorageTypeOK, SweepsSpareCompleted, SweepsOnlyFailed
    <2>19. ASSUME NEW s \in Sweeper, SweepRemoves(s) PROVE Inv'
        <3>1. /\ \A t \in Sweeper : t # s => sweep'[t] = sweep[t]
              /\ sweep'[s] = NoWork \/ sweep'[s].object = sweep[s].object
            BY <2>19, SweepAt DEF SweepRemoves, StorageTypeOK
        <3>2. present' = present \/ present' = present \ {sweep[s].object}
            BY <2>19 DEF SweepRemoves
        <3> QED BY <2>19, <2>a, <3>1, <3>2 DEF SweepRemoves, rowVars, StorageTypeOK, SweepsSpareCompleted, SweepsOnlyFailed
    <2>20. ASSUME NEW s \in Sweeper, MarkStorageObjectDeleted(s) PROVE Inv'
        <3>1. /\ sweep[s].object \in Object /\ sweep'[s] = NoWork
              /\ \A t \in Sweeper : t # s => sweep'[t] = sweep[t]
            BY <2>20, <2>a DEF MarkStorageObjectDeleted, StorageTypeOK
        <3>2. \A x \in Object : row'[x] = row[x] \/ (row[x] = "failed" /\ row'[x] = "deleted")
            BY <2>20, <3>1 DEF MarkStorageObjectDeleted, StorageTypeOK
        <3> QED BY <2>20, <2>a, <3>1, <3>2 DEF MarkStorageObjectDeleted, StorageTypeOK, SweepsSpareCompleted, SweepsOnlyFailed
    <2>21. ASSUME NEW s \in Sweeper, SweeperStops(s) PROVE Inv'
        BY <2>21, <2>a DEF SweeperStops, rowVars, StorageTypeOK, SweepsSpareCompleted, SweepsOnlyFailed
    <2>22. CASE UNCHANGED vars
        BY <2>22 DEF vars, rowVars, SweepsSpareCompleted, SweepsOnlyFailed
    <2> QED BY <2>1, <2>2, <2>3, <2>4, <2>5, <2>6, <2>7, <2>8, <2>9, <2>10, <2>11, <2>12, <2>13, <2>14,
               <2>15, <2>16, <2>17, <2>18, <2>19, <2>20, <2>21, <2>22 DEF Next, Gateway, Sweep
<1> QED BY <1>1, <1>2, StorageTypeCorrect, PTL DEF Spec

=============================================================================
