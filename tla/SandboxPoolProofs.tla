-------------------------- MODULE SandboxPoolProofs --------------------------
(***************************************************************************)
(* What holds of SandboxPool for every number of sandboxes, executions,    *)
(* goroutines, outages and crashes.                                        *)
(***************************************************************************)
EXTENDS SandboxPool, FiniteSetTheorems, TLAPS

-----------------------------------------------------------------------------
(* Type correctness.                                                       *)

\* The counts GetPoolStats returns are numbers.
LEMMA PoolStatsNat == \A st : PoolStats(st) \in Nat
BY SandboxAssumption, FS_Subset, FS_CardinalityType, \A st : InState(st) \subseteq Sandbox
   DEF PoolStats, InState

USE DEF CreatorStage, DeleterStage, Holding, HandlerPC

\* An empty table and an empty cloud are well typed.
LEMMA TypeInit == Init => TypeOK
BY BoundsAssumption, NoSandboxAssumption
   DEF Init, DBInit, RemoteInit, TypeOK, DBTypeOK, RemoteTypeOK, SandboxState, Age, RemoteState

\* The three statements that write the table, and the deletion they begin.
LEMMA UpdateType ==
    ASSUME TypeOK, NEW s, NEW st \in SandboxState, UpdateSandboxState(s, st)
    PROVE  DBTypeOK'
BY DEF TypeOK, DBTypeOK, UpdateSandboxState, SandboxState

\* The INSERTs of createSandbox and of the startup import keep the table's types.
LEMMA InsertType ==
    ASSUME TypeOK, NEW s, CreateSandbox(s) \/ ImportSandbox(s)
    PROVE  DBTypeOK'
<1>1. state' \in [Sandbox -> SandboxState \cup {"none"}]
    BY DEF TypeOK, DBTypeOK, CreateSandbox, ImportSandbox, SandboxState, dbVars
<1>2. age' \in [Sandbox -> Age]
    BY DEF TypeOK, DBTypeOK, CreateSandbox, ImportSandbox, Age, dbVars
<1>3. claimedBy' = claimedBy
    BY DEF CreateSandbox, ImportSandbox, dbVars
<1> QED BY <1>1, <1>2, <1>3 DEF TypeOK, DBTypeOK

\* DeleteSandbox, whoever calls it.
DeletionOf(s) == BeginDeletion(s) /\ (UpdateSandboxState(s, "deleting") \/ UNCHANGED dbVars)

\* Both callers of DeleteSandbox begin a deletion of one row.
LEMMA DeletionCases ==
    /\ \A s : DeleteSandbox(s) => DeletionOf(s)
    /\ \A e : DeleteClaimed(e) => DeletionOf(hsb[e])
BY DEF DeleteSandbox, DeleteClaimed, DeletionOf

\* Beginning a deletion keeps the types it touches.
LEMMA DeletionType ==
    ASSUME TypeOK, NEW s \in Sandbox, DeletionOf(s)
    PROVE  DBTypeOK' /\ deleters' \in [Sandbox -> [DeleterStage -> Nat]]
<1>1. DBTypeOK'
    BY UpdateType DEF DeletionOf, SandboxState, TypeOK, DBTypeOK, dbVars
<1>2. deleters[s] \in [DeleterStage -> Nat]
    BY DEF TypeOK
<1>3. [deleters[s] EXCEPT !["calling"] = @ + 1] \in [DeleterStage -> Nat]
    BY <1>2
<1>4. deleters' = [deleters EXCEPT ![s] = [deleters[s] EXCEPT !["calling"] = @ + 1]]
    BY DEF DeletionOf, BeginDeletion
<1>5. deleters' \in [Sandbox -> [DeleterStage -> Nat]]
    BY <1>3, <1>4 DEF TypeOK
<1> QED BY <1>1, <1>5

\* A deletion goroutine that goes on to its next stage is still counted by a natural.
LEMMA AdvanceType ==
    ASSUME TypeOK, NEW s \in Sandbox,
           NEW from \in DeleterStage, NEW to \in DeleterStage \ {from},
           Advance(s, from, to)
    PROVE  deleters' \in [Sandbox -> [DeleterStage -> Nat]]
<1>1. deleters[s] \in [DeleterStage -> Nat]
    BY DEF TypeOK
<1>2. [deleters[s] EXCEPT ![from] = @ - 1, ![to] = @ + 1] \in [DeleterStage -> Nat]
    BY <1>1 DEF Advance
<1>3. deleters' = [deleters EXCEPT ![s] = [deleters[s] EXCEPT ![from] = @ - 1, ![to] = @ + 1]]
    BY DEF Advance, TypeOK
<1> QED BY <1>2, <1>3 DEF TypeOK

\* A deletion goroutine that ends was there to end.
LEMMA RetireType ==
    ASSUME TypeOK, NEW s \in Sandbox, NEW from \in DeleterStage, Retire(s, from)
    PROVE  deleters' \in [Sandbox -> [DeleterStage -> Nat]]
<1>1. deleters[s] \in [DeleterStage -> Nat]
    BY DEF TypeOK
<1>2. [deleters[s] EXCEPT ![from] = @ - 1] \in [DeleterStage -> Nat]
    BY <1>1 DEF Retire
<1>3. deleters' = [deleters EXCEPT ![s] = [deleters[s] EXCEPT ![from] = @ - 1]]
    BY DEF Retire
<1> QED BY <1>2, <1>3 DEF TypeOK

USE DEF dbVars, creatorVars, handlerVars, reapVars, scaleVars, healthVars, workerVars,
        bootVars, envVars, ghostVars

\* Every step of a deletion goroutine keeps the types.
LEMMA DeleterType ==
    ASSUME TypeOK, NEW s \in Sandbox, Deleter(s)
    PROVE  TypeOK'
<1>1. DBTypeOK'
    BY UpdateType DEF Deleter, DeleteAndVerify, DeleteExpires, RecordDeleted, RecordFailed,
                      TypeOK, DBTypeOK, SandboxState
<1>2. deleters' \in [Sandbox -> [DeleterStage -> Nat]]
    BY AdvanceType, RetireType
       DEF Deleter, DeleteAndVerify, DeleteExpires, RecordDeleted, RecordFailed
<1>3. RemoteTypeOK'
    BY DEF Deleter, DeleteAndVerify, DeleteExpires, RecordDeleted, RecordFailed, DeleteRemote,
           DeleteRemoteUnanswered, TypeOK, RemoteTypeOK, RemoteState
<1>4. forgot' \in [Sandbox -> BOOLEAN]
    BY DEF Deleter, DeleteAndVerify, DeleteExpires, RecordDeleted, RecordFailed, Forget, TypeOK
<1>5. UNCHANGED deleterUnchanged
    BY DEF Deleter, DeleteAndVerify, DeleteExpires, RecordDeleted, RecordFailed
<1> QED BY <1>1, <1>2, <1>3, <1>4, <1>5 DEF TypeOK, deleterUnchanged

\* Every step of createSandbox keeps the types.
LEMMA CreatorType ==
    ASSUME TypeOK, NEW s \in Sandbox, Creator(s)
    PROVE  TypeOK'
<1> USE DEF Create, CreateLost, InsertRow, MarkWarming, CreatorStart, StartDone, StartFails,
            RecordUnstarted, DropUnstarted,
            MakeAvailable
<1>1. DBTypeOK'
    <2>1. CASE InsertRow(s)
        BY <2>1, InsertType DEF TypeOK, DBTypeOK
    <2>2. CASE MarkWarming(s) \/ StartFails(s) \/ MakeAvailable(s)
        BY <2>2, UpdateType DEF TypeOK, DBTypeOK, SandboxState
    <2>3. CASE Create(s) \/ CreateLost(s) \/ CreatorStart(s) \/ StartDone(s)
        BY <2>3 DEF TypeOK, DBTypeOK
    <2> QED BY <2>1, <2>2, <2>3 DEF Creator
<1>2. RemoteTypeOK'
    BY DEF Creator, CreateRemote, StartRemote, TryDeleteRemote, DeleteRemote,
           TypeOK, RemoteTypeOK, RemoteState
<1>3. spawned' \in 0..MaxSpawned /\ creator' \in [Sandbox -> CreatorStage]
    BY BoundsAssumption DEF Creator, Becomes, TypeOK
<1>4. UNCHANGED creatorUnchanged
    BY DEF Creator
<1> QED BY <1>1, <1>2, <1>3, <1>4 DEF TypeOK, DBTypeOK, creatorUnchanged

\* Every step of a handler that has claimed a sandbox keeps the types.
LEMMA HandlerType ==
    ASSUME TypeOK, HoldersHold, NEW e \in Exec, Handler(e)
    PROVE  TypeOK'
<1> USE DEF VerifyClaim, RejectClaim, WakeDone, WakeFails, MarkExecuting, FinishExecute
<1>0. hsb[e] \in Sandbox
    BY DEF Handler, HoldersHold
<1>1. DBTypeOK' /\ deleters' \in [Sandbox -> [DeleterStage -> Nat]]
    <2>1. CASE RejectClaim(e) \/ WakeFails(e) \/ FinishExecute(e)
        BY <1>0, <2>1, DeletionType, DeletionCases
    <2>2. CASE MarkExecuting(e)
        BY <2>2, UpdateType DEF TypeOK, DBTypeOK, SandboxState
    <2>3. CASE VerifyClaim(e) \/ WakeDone(e)
        BY <2>3 DEF TypeOK, DBTypeOK
    <2> QED BY <2>1, <2>2, <2>3 DEF Handler
<1>2. RemoteTypeOK'
    BY <1>0 DEF Handler, StartRemote, TypeOK, RemoteTypeOK, RemoteState
<1>3. /\ hpc' \in [Exec -> HandlerPC]
      /\ hsb' \in [Exec -> Sandbox \cup {NoSandbox}]
    BY DEF Handler, GoTo, Finish, Retry, TypeOK
<1>4. hatt' \in [Exec -> 0..MaxAttempts - 1]
    BY BoundsAssumption DEF Handler, GoTo, Finish, Retry, TypeOK
<1>5. gone' \in [Exec -> BOOLEAN]
    BY DEF Handler, Finish, Retry, TypeOK
<1>6. UNCHANGED handlerUnchanged
    BY DEF Handler
<1> QED BY <1>1, <1>2, <1>3, <1>4, <1>5, <1>6 DEF TypeOK, handlerUnchanged

\* The claim, granted or not, keeps the types.
LEMMA ClaimType ==
    ASSUME TypeOK, NEW e \in Exec, ClaimFails(e) \/ \E s \in Sandbox : Claim(e, s)
    PROVE  TypeOK'
<1>1. CASE ClaimFails(e)
    BY <1>1, BoundsAssumption
       DEF ClaimFails, Finish, GoTo, TypeOK, DBTypeOK, RemoteTypeOK, handlerUnchanged
<1>2. ASSUME NEW s \in Sandbox, Claim(e, s)
      PROVE  TypeOK'
    <2>0. 0 \in 0..MaxAttempts - 1
        BY BoundsAssumption
    <2>1. DBTypeOK'
        BY <1>2 DEF Claim, ClaimAvailableSandbox, TypeOK, DBTypeOK, SandboxState
    <2>2. hpc' \in [Exec -> HandlerPC]
        BY <1>2 DEF Claim, GoTo, Finish, TypeOK
    <2>3. hsb' \in [Exec -> Sandbox \cup {NoSandbox}]
        BY <1>2 DEF Claim, Finish, TypeOK
    <2>4. hatt' \in [Exec -> 0..MaxAttempts - 1]
        BY <1>2, <2>0 DEF Claim, Finish, TypeOK
    <2>5. gone' \in [Exec -> BOOLEAN]
        BY <1>2 DEF Claim, Finish, TypeOK
    <2> QED BY <1>2, <2>1, <2>2, <2>3, <2>4, <2>5 DEF Claim, TypeOK, RemoteTypeOK, handlerUnchanged
<1> QED BY <1>1, <1>2

\* The three tickers keep the types.
LEMMA WorkerType ==
    ASSUME TypeOK, Scaler \/ Reaper \/ HealthChecker
    PROVE  TypeOK'
<1> USE DEF workerUnchanged
<1>1. CASE Scale
    <2>1. spawned' \in 0..MaxSpawned /\ scaleQuota' \in Nat
        BY <1>1, PoolStatsNat, BoundsAssumption DEF Scale, TypeOK
    <2> QED BY <1>1, <2>1 DEF Scale, TypeOK, DBTypeOK, RemoteTypeOK
<1>2. CASE ScaleDownList
    BY <1>2 DEF ScaleDownList, OldAvailableSandboxes, AvailableSandboxes, InState,
                TypeOK, DBTypeOK, RemoteTypeOK
<1>3. CASE ScaleDownNext
    BY <1>3, DeletionType, DeletionCases DEF ScaleDownNext, TypeOK, RemoteTypeOK
<1>4. CASE ReapStale
    BY <1>4 DEF ReapStale, StaleSandboxes, TypeOK, DBTypeOK, RemoteTypeOK
<1>5. CASE ReapFailed
    BY <1>5 DEF ReapFailed, FailedSandboxes, InState, TypeOK, DBTypeOK, RemoteTypeOK
<1>6. CASE ReapNext
    BY <1>6, DeletionType, DeletionCases DEF ReapNext, TypeOK, RemoteTypeOK
<1>7. CASE HealthQuery
    BY <1>7 DEF HealthQuery, AvailableSandboxes, InState, TypeOK, DBTypeOK, RemoteTypeOK
<1>8. CASE HealthGet
    BY <1>8 DEF HealthGet, TypeOK, DBTypeOK, RemoteTypeOK
<1>9. CASE HealthDelete
    <2>1. condemned \in Sandbox
        BY <1>9 DEF HealthDelete, TypeOK
    <2> QED BY <1>9, <2>1, DeletionType, DeletionCases DEF HealthDelete, TypeOK, RemoteTypeOK
<1> QED BY <1>1, <1>2, <1>3, <1>4, <1>5, <1>6, <1>7, <1>8, <1>9
        DEF Scaler, Reaper, HealthChecker

\* The startup pass keeps the types.
LEMMA BootType ==
    ASSUME TypeOK, Boot
    PROVE  TypeOK'
<1> USE DEF bootUnchanged
<1>1. CASE BootStart
    BY <1>1 DEF BootStart, OrphanedSandboxes, ForgetAll, TypeOK, DBTypeOK, RemoteTypeOK
<1>2. ASSUME NEW s \in Sandbox, CleanOrphan(s)
      PROVE  TypeOK'
    <2>1. DBTypeOK'
        BY <1>2, UpdateType DEF CleanOrphan, DropOrphan, RecordOrphan, TypeOK, DBTypeOK,
                                SandboxState
    <2>2. RemoteTypeOK'
        BY <1>2 DEF CleanOrphan, DropOrphan, RecordOrphan, TryDeleteRemote, DeleteRemote, TypeOK,
                    RemoteTypeOK, RemoteState
    <2>3. forgot' \in [Sandbox -> BOOLEAN] /\ leaked' \in [Sandbox -> BOOLEAN]
        BY <1>2 DEF CleanOrphan, DropOrphan, RecordOrphan, Remember, Forget, TypeOK
    <2> QED BY <1>2, <2>1, <2>2, <2>3 DEF CleanOrphan, DropOrphan, RecordOrphan, TypeOK
<1>3. CASE Reconcile
    BY <1>3 DEF Reconcile, Untracked, ForgetAll, TypeOK, DBTypeOK, RemoteTypeOK
<1>4. ASSUME NEW s \in Sandbox, Adopt(s)
      PROVE  TypeOK'
    <2>1. DBTypeOK'
        BY <1>4, InsertType DEF Adopt, TypeOK, DBTypeOK
    <2>2. RemoteTypeOK'
        BY <1>4 DEF Adopt, DeleteRemote, TypeOK, RemoteTypeOK, RemoteState
    <2>3. forgot' \in [Sandbox -> BOOLEAN]
        BY <1>4 DEF Adopt, Remember, Forget, TypeOK
    <2> QED BY <1>4, <2>1, <2>2, <2>3 DEF Adopt, TypeOK
<1>5. CASE BootDone
    BY <1>5 DEF BootDone, TypeOK, DBTypeOK, RemoteTypeOK
<1> QED BY <1>1, <1>2, <1>3, <1>4, <1>5 DEF Boot

\* Crashes, outages, time, the cloud and leaving clients keep the types.
LEMMA EnvironmentType ==
    ASSUME TypeOK,
           Crash \/ CreateFails \/ OutageBegins \/ OutageEnds
             \/ (\E s \in Sandbox : Time(s) \/ Cloud(s)) \/ \E e \in Exec : ClientLeaves(e)
    PROVE  TypeOK'
<1> USE DEF processUnchanged
<1>1. CASE Crash
    BY <1>1, BoundsAssumption DEF Crash, TypeOK, DBTypeOK, RemoteTypeOK
<1>2. CASE CreateFails
    BY <1>2, BoundsAssumption DEF CreateFails, creatorUnchanged, TypeOK, DBTypeOK, RemoteTypeOK
<1>3. CASE OutageBegins \/ OutageEnds
    BY <1>3, BoundsAssumption DEF OutageBegins, OutageEnds, TypeOK, DBTypeOK, RemoteTypeOK
<1>4. ASSUME NEW s \in Sandbox, Time(s)
      PROVE  TypeOK'
    BY <1>4 DEF Time, RowAges, TTLAge, StaleAge, Age, TypeOK, DBTypeOK, RemoteTypeOK
<1>5. ASSUME NEW s \in Sandbox, Cloud(s)
      PROVE  TypeOK'
    BY <1>5 DEF Cloud, RemoteStarts, RemoteAutoStops, RemoteBreaks, RemoteState,
                TypeOK, DBTypeOK, RemoteTypeOK
<1>6. ASSUME NEW e \in Exec, ClientLeaves(e)
      PROVE  TypeOK'
    BY <1>6, BoundsAssumption DEF ClientLeaves, TypeOK, DBTypeOK, RemoteTypeOK
<1> QED BY <1>1, <1>2, <1>3, <1>4, <1>5, <1>6

\* Every step of the system keeps the types.
LEMMA TypeStep ==
    ASSUME TypeOK, HoldersHold, [Next]_vars
    PROVE  TypeOK'
<1>1. CASE UNCHANGED vars
    BY <1>1 DEF vars, TypeOK, DBTypeOK, RemoteTypeOK
<1>2. CASE Next
    BY <1>2, DeleterType, CreatorType, HandlerType, ClaimType, WorkerType, BootType,
       EnvironmentType DEF Next
<1> QED BY <1>1, <1>2

-----------------------------------------------------------------------------
(* UseInv, the invariant behind single use.                                *)

\* What a step that is not a claim, an insertion or a creator's may do to the
\* table: rows stay, and none becomes available.
TableQuiet ==
    /\ claimedBy' = claimedBy
    /\ NeverReused'
    /\ \A s \in Sandbox : state'[s] = "none" <=> state[s] = "none"
    /\ \A s \in Sandbox : state'[s] = "available" => state[s] = "available"

\* No identifier is taken back.
CloudQuiet == \A s \in Sandbox : remote'[s] = "absent" => remote[s] = "absent"

\* A step that writes no row makes none available.
LEMMA TableUnchanged ==
    ASSUME UseInv, UNCHANGED dbVars
    PROVE  TableQuiet
BY DEF TableQuiet, UseInv, NeverReused

\* Nor does a write of any state but the three that precede a claim.
LEMMA UpdateQuiet ==
    ASSUME TypeOK, UseInv, NEW s \in Sandbox,
           NEW st \in {"claimed", "executing", "deleting", "deleted", "failed"},
           UpdateSandboxState(s, st)
    PROVE  TableQuiet
BY DEF TypeOK, DBTypeOK, UseInv, NeverReused, UpdateSandboxState, TableQuiet

\* Nor does the beginning of a deletion.
LEMMA DeletionQuiet ==
    ASSUME TypeOK, UseInv, NEW s \in Sandbox, DeletionOf(s)
    PROVE  TableQuiet
BY UpdateQuiet, TableUnchanged DEF DeletionOf

\* A quiet step that leaves the creators, the handlers and the startup alone.
LEMMA QuietStep ==
    ASSUME TypeOK, UseInv, TableQuiet, CloudQuiet,
           UNCHANGED <<creatorVars, hpc, hsb, bootVars>>
    PROVE  UseInv'
<1>1. NeverReused'
    BY DEF TableQuiet
<1>2. HoldersHold' /\ HolderOwns' /\ StartupAlone'
    BY DEF UseInv, HoldersHold, HolderOwns, StartupAlone, Up, TableQuiet
<1>3. CreatorsClean' /\ AbsentHasNoRow'
    BY DEF UseInv, CreatorsClean, AbsentHasNoRow, HasRow, TableQuiet, CloudQuiet
<1>4. StartupReal'
    BY DEF UseInv, TypeOK, StartupReal, CloudQuiet
<1> QED BY <1>1, <1>2, <1>3, <1>4 DEF UseInv

\* A deletion goroutine keeps the use of the sandboxes exclusive.
LEMMA DeleterUse ==
    ASSUME TypeOK, UseInv, NEW s \in Sandbox, Deleter(s)
    PROVE  UseInv'
<1>1. TableQuiet
    BY UpdateQuiet, TableUnchanged
       DEF Deleter, DeleteAndVerify, DeleteExpires, RecordDeleted, RecordFailed
<1>2. CloudQuiet
    BY DEF Deleter, DeleteAndVerify, DeleteExpires, RecordDeleted, RecordFailed, DeleteRemote,
           DeleteRemoteUnanswered, CloudQuiet, TypeOK, RemoteTypeOK
<1>3. UNCHANGED <<creatorVars, handlerVars, bootVars>>
    BY DEF Deleter, DeleteAndVerify, DeleteExpires, RecordDeleted, RecordFailed, deleterUnchanged
<1> QED BY <1>1, <1>2, <1>3, QuietStep

\* A creator keeps it: the row it makes available was never claimed.
LEMMA CreatorUse ==
    ASSUME TypeOK, UseInv, NEW s \in Sandbox, Creator(s)
    PROVE  UseInv'
<1> USE DEF Becomes
<1>1. Up
    BY DEF Creator, Create, CreateLost, InsertRow, MarkWarming, CreatorStart, StartDone,
           StartFails, RecordUnstarted, DropUnstarted, MakeAvailable, UseInv, StartupAlone, TypeOK
<1>2. UNCHANGED <<handlerVars, bootVars>>
    BY DEF Creator, Create, CreateLost, InsertRow, MarkWarming, CreatorStart, StartDone,
           StartFails, RecordUnstarted, DropUnstarted, MakeAvailable, creatorUnchanged
<1>3. claimedBy' = claimedBy
    BY DEF Creator, Create, CreateLost, InsertRow, MarkWarming, CreatorStart, StartDone,
           StartFails, RecordUnstarted, DropUnstarted, MakeAvailable, CreateSandbox,
           UpdateSandboxState
<1>4. HoldersHold' /\ HolderOwns' /\ StartupAlone' /\ StartupReal'
    BY <1>1, <1>2, <1>3 DEF UseInv, HoldersHold, HolderOwns, StartupAlone, StartupReal, Up
<1>5. CASE Create(s) \/ CreateLost(s)
    BY <1>4, <1>5 DEF Create, CreateLost, CreateRemote, TypeOK, DBTypeOK, RemoteTypeOK,
                      UseInv, CreatorsClean, AbsentHasNoRow, NeverReused, HasRow
<1>6. CASE InsertRow(s)
    <2>1. remote[s] # "absent" /\ CloudQuiet
        BY <1>6 DEF InsertRow, TryDeleteRemote, DeleteRemote, UseInv, CreatorsClean, CloudQuiet,
                    TypeOK, RemoteTypeOK
    <2>2. CASE /\ CreateSandbox(s)
               /\ creator' \in {[creator EXCEPT ![s] = "inserted"], [creator EXCEPT ![s] = "idle"]}
        BY <1>3, <1>4, <2>1, <2>2 DEF CreateSandbox, CloudQuiet, TypeOK, DBTypeOK,
                      UseInv, CreatorsClean, AbsentHasNoRow, NeverReused, HasRow
    <2>3. CASE UNCHANGED dbVars /\ creator' = [creator EXCEPT ![s] = "idle"]
        <3>1. NeverReused'
            BY <2>3 DEF UseInv, NeverReused
        <3>2. CreatorsClean' /\ AbsentHasNoRow'
            BY <2>1, <2>3 DEF CloudQuiet, TypeOK, UseInv, CreatorsClean, AbsentHasNoRow, HasRow
        <3> QED BY <1>4, <3>1, <3>2 DEF UseInv
    <2>4. \/ /\ CreateSandbox(s)
             /\ creator' \in {[creator EXCEPT ![s] = "inserted"], [creator EXCEPT ![s] = "idle"]}
          \/ UNCHANGED dbVars /\ creator' = [creator EXCEPT ![s] = "idle"]
        BY <1>6 DEF InsertRow, Becomes
    <2> QED BY <2>2, <2>3, <2>4
<1>7. CASE MarkWarming(s) \/ MakeAvailable(s)
    <2>1. creator[s] # "idle" /\ remote' = remote /\ UNCHANGED <<claimedBy>>
        BY <1>3, <1>7 DEF MarkWarming, MakeAvailable, TypeOK
    <2>2. \/ /\ \A r \in Sandbox \ {s} : state'[r] = state[r]
             /\ state[s] = "none" <=> state'[s] = "none"
             /\ state'[s] = "available" => creator' = [creator EXCEPT ![s] = "idle"]
             /\ creator' \in {[creator EXCEPT ![s] = "idle"], [creator EXCEPT ![s] = "warming"]}
          \/ state' = state /\ creator' = [creator EXCEPT ![s] = "idle"]
        BY <1>7 DEF MarkWarming, MakeAvailable, UpdateSandboxState, UseInv, CreatorsClean,
                    TypeOK, DBTypeOK
    <2>3. CreatorsClean' /\ AbsentHasNoRow'
        BY <2>1, <2>2 DEF UseInv, CreatorsClean, AbsentHasNoRow, HasRow, TypeOK
    <2>4. NeverReused'
        BY <2>1, <2>2 DEF UseInv, CreatorsClean, NeverReused, TypeOK, DBTypeOK
    <2> QED BY <1>4, <2>3, <2>4 DEF UseInv
<1>a. ASSUME NEW stage \in CreatorStage \ {"created"}, creator[s] # "idle", Becomes(s, stage),
             CloudQuiet, claimedBy' = claimedBy,
             state' = state \/ UpdateSandboxState(s, "failed")
      PROVE  UseInv'
    <2>1. remote[s] # "absent" /\ claimedBy[s] = NoExec /\ state[s] # "available"
        BY <1>a DEF UseInv, CreatorsClean
    <2>2. /\ \A r \in Sandbox \ {s} : state'[r] = state[r] /\ creator'[r] = creator[r]
          /\ state'[s] \in {state[s], "failed"} /\ (state[s] = "none" <=> state'[s] = "none")
        BY <1>a DEF Becomes, UpdateSandboxState, TypeOK, DBTypeOK
    <2>3. AbsentHasNoRow' /\ NeverReused'
        <3>1. ASSUME NEW r \in Sandbox, remote'[r] = "absent" PROVE ~HasRow(r)'
            BY <1>a, <2>2, <3>1 DEF UseInv, AbsentHasNoRow, CloudQuiet, HasRow
        <3>2. ASSUME NEW r \in Sandbox,
                     state'[r] \in {"none", "creating", "warming", "available"}
              PROVE  claimedBy'[r] = NoExec
            BY <1>a, <2>2, <3>2 DEF UseInv, NeverReused
        <3> QED BY <3>1, <3>2 DEF AbsentHasNoRow, NeverReused
    <2>4. ASSUME NEW r \in Sandbox, creator'[r] # "idle"
          PROVE  /\ claimedBy'[r] = NoExec /\ state'[r] # "available" /\ remote'[r] # "absent"
                 /\ creator'[r] = "created" => ~HasRow(r)'
        BY <1>a, <2>1, <2>2, <2>4 DEF Becomes, UseInv, CreatorsClean, CloudQuiet, HasRow, TypeOK
    <2>5. CreatorsClean'
        BY <2>4 DEF CreatorsClean
    <2> QED BY <1>4, <2>3, <2>5 DEF UseInv
<1>8. CASE CreatorStart(s) \/ StartDone(s)
    <2>1. CloudQuiet
        BY <1>8 DEF CreatorStart, StartDone, StartRemote, CloudQuiet, TypeOK, RemoteTypeOK
    <2>2. PICK stage \in {"waiting", "ready"} : Becomes(s, stage)
        BY <1>8 DEF CreatorStart, StartDone
    <2> QED BY <1>8, <1>a, <2>1, <2>2 DEF CreatorStart, StartDone
<1>9. CASE RecordUnstarted(s) \/ DropUnstarted(s)
    <2>1. CloudQuiet
        BY <1>9 DEF RecordUnstarted, DropUnstarted, TryDeleteRemote, DeleteRemote, CloudQuiet,
                    TypeOK, RemoteTypeOK
    <2>2. PICK stage \in {"failing", "idle"} : Becomes(s, stage)
        BY <1>9 DEF RecordUnstarted, DropUnstarted
    <2>3. creator[s] # "idle" /\ (state' = state \/ UpdateSandboxState(s, "failed"))
        BY <1>9 DEF RecordUnstarted, DropUnstarted
    <2> QED BY <1>3, <1>a, <2>1, <2>2, <2>3
<1> QED BY <1>5, <1>6, <1>7, <1>8, <1>9 DEF Creator, StartFails

\* A handler keeps it: it moves the row it holds, and its sandbox never changes.
LEMMA HandlerUse ==
    ASSUME TypeOK, UseInv, NEW e \in Exec, Handler(e)
    PROVE  UseInv'
<1> USE DEF VerifyClaim, RejectClaim, WakeDone, WakeFails, MarkExecuting, FinishExecute
<1>1. hpc[e] \in Holding /\ hsb[e] \in Sandbox /\ Up
    BY DEF Handler, UseInv, HoldersHold, StartupAlone
<1>2. TableQuiet
    BY <1>1, DeletionQuiet, DeletionCases, UpdateQuiet, TableUnchanged DEF Handler
<1>3. CloudQuiet
    BY <1>1 DEF Handler, StartRemote, CloudQuiet, TypeOK, RemoteTypeOK
<1>4. UNCHANGED <<creatorVars, bootVars>>
    BY DEF Handler, handlerUnchanged
<1>5. HoldersHold' /\ HolderOwns'
    <2>1. \A f \in Exec : hpc'[f] \in Holding => hpc[f] \in Holding /\ hsb'[f] = hsb[f]
        BY <1>1 DEF Handler, GoTo, Finish, Retry, TypeOK
    <2> QED BY <1>2, <2>1 DEF UseInv, HoldersHold, HolderOwns, TableQuiet
<1>6. CreatorsClean' /\ AbsentHasNoRow'
    BY <1>2, <1>3, <1>4 DEF UseInv, CreatorsClean, AbsentHasNoRow, HasRow, TableQuiet, CloudQuiet
<1>7. StartupAlone' /\ StartupReal'
    BY <1>1, <1>4 DEF StartupAlone, StartupReal, Up
<1> QED BY <1>2, <1>5, <1>6, <1>7 DEF UseInv, TableQuiet

\* A claim keeps it: the row it takes has had no holder.
LEMMA ClaimUse ==
    ASSUME TypeOK, UseInv, NEW e \in Exec, NEW s \in Sandbox, Claim(e, s)
    PROVE  UseInv'
<1>1. /\ Up /\ hpc[e] = "claiming" /\ state[s] = "available"
      /\ state' = [state EXCEPT ![s] = "claimed"]
      /\ claimedBy' = [claimedBy EXCEPT ![s] = e]
      /\ UNCHANGED <<remote, creatorVars, bootVars>>
    BY DEF Claim, ClaimAvailableSandbox, handlerUnchanged
<1>2. \A f \in Exec : f # e /\ hpc[f] \in Holding => hsb[f] # s
    BY <1>1, NoExecAssumption DEF UseInv, HolderOwns, NeverReused
<1>3. HoldersHold' /\ HolderOwns'
    <2>1. ASSUME NEW f \in Exec \ {e}, hpc'[f] \in Holding
          PROVE  hsb'[f] \in Sandbox /\ claimedBy'[hsb'[f]] = f
        <3>1. hpc'[f] = hpc[f] /\ hsb'[f] = hsb[f]
            BY DEF Claim, GoTo, Finish, TypeOK
        <3>2. hsb[f] \in Sandbox /\ claimedBy[hsb[f]] = f /\ hsb[f] # s
            BY <1>2, <2>1, <3>1 DEF UseInv, HoldersHold, HolderOwns
        <3> QED BY <1>1, <3>1, <3>2 DEF TypeOK, DBTypeOK
    <2>2. ASSUME hpc'[e] \in Holding
          PROVE  hsb'[e] = s /\ claimedBy'[s] = e
        BY <1>1, <2>2 DEF Claim, GoTo, Finish, TypeOK, DBTypeOK
    <2> QED BY <2>1, <2>2 DEF HoldersHold, HolderOwns
<1>4. NeverReused'
    BY <1>1 DEF TypeOK, DBTypeOK, UseInv, NeverReused
<1>5. CreatorsClean' /\ AbsentHasNoRow'
    BY <1>1 DEF TypeOK, DBTypeOK, UseInv, CreatorsClean, AbsentHasNoRow, HasRow
<1>6. StartupAlone' /\ StartupReal'
    BY <1>1 DEF StartupAlone, StartupReal, Up
<1> QED BY <1>3, <1>4, <1>5, <1>6 DEF UseInv

\* A refused claim keeps it.
LEMMA ClaimFailsUse ==
    ASSUME TypeOK, UseInv, NEW e \in Exec, ClaimFails(e)
    PROVE  UseInv'
<1>1. Up /\ UNCHANGED <<dbVars, remote, creatorVars, bootVars>>
    BY DEF ClaimFails, handlerUnchanged
<1>2. \A f \in Exec : hpc'[f] \in Holding => hpc[f] \in Holding /\ hsb'[f] = hsb[f]
    BY DEF ClaimFails, Finish, GoTo, TypeOK
<1> QED BY <1>1, <1>2 DEF UseInv, HoldersHold, HolderOwns, NeverReused, CreatorsClean,
        AbsentHasNoRow, HasRow, StartupAlone, StartupReal, Up

\* The tickers keep it: they write no state but deleting.
LEMMA WorkerUse ==
    ASSUME TypeOK, UseInv, Scaler \/ Reaper \/ HealthChecker
    PROVE  UseInv'
<1> USE DEF workerUnchanged
<1>1. TableQuiet /\ CloudQuiet
    <2>1. CASE ScaleDownNext \/ ReapNext
        BY <2>1, DeletionQuiet, DeletionCases DEF ScaleDownNext, ReapNext, TypeOK, CloudQuiet
    <2>2. CASE HealthDelete
        BY <2>2, DeletionQuiet, DeletionCases DEF HealthDelete, TypeOK, CloudQuiet
    <2>3. CASE Scale \/ ScaleDownList \/ ReapStale \/ ReapFailed \/ HealthQuery \/ HealthGet
        BY <2>3, TableUnchanged DEF Scale, ScaleDownList, ReapStale, ReapFailed, HealthQuery,
                                    HealthGet, CloudQuiet
    <2> QED BY <2>1, <2>2, <2>3 DEF Scaler, Reaper, HealthChecker
<1>2. CASE Scale
    BY <1>1, <1>2 DEF Scale, Up, UseInv, TableQuiet, CloudQuiet, HoldersHold, HolderOwns,
                      CreatorsClean, AbsentHasNoRow, HasRow, StartupAlone, StartupReal
<1>3. CASE ScaleDownList \/ ScaleDownNext \/ Reaper \/ HealthChecker
    <2>1. UNCHANGED <<creatorVars, handlerVars, bootVars>>
        BY <1>3 DEF ScaleDownList, ScaleDownNext, Reaper, ReapStale, ReapFailed, ReapNext,
                    HealthChecker, HealthQuery, HealthGet, HealthDelete
    <2> QED BY <1>1, <2>1, QuietStep
<1> QED BY <1>2, <1>3 DEF Scaler

\* The startup keeps it: what it imports has no row, hence no past.
LEMMA BootUse ==
    ASSUME TypeOK, UseInv, Boot
    PROVE  UseInv'
<1>1. ~Up /\ UNCHANGED <<creatorVars, handlerVars>>
    BY DEF Boot, BootStart, CleanOrphan, DropOrphan, RecordOrphan, Reconcile, Adopt, BootDone, Up,
           bootUnchanged
<1>2. StartupAlone'
    BY <1>1 DEF UseInv, StartupAlone
<1>3. claimedBy' = claimedBy
    BY DEF Boot, BootStart, CleanOrphan, DropOrphan, RecordOrphan, Reconcile, Adopt, BootDone,
           UpdateSandboxState,
           ImportSandbox
<1>4. HoldersHold' /\ HolderOwns'
    BY <1>1, <1>3 DEF UseInv, HoldersHold, HolderOwns
<1>5. CASE BootStart \/ Reconcile \/ BootDone
    <2>1. UNCHANGED <<dbVars, remote>>
        BY <1>5 DEF BootStart, Reconcile, BootDone
    <2>2. NeverReused' /\ CreatorsClean' /\ AbsentHasNoRow'
        BY <1>1, <2>1 DEF UseInv, NeverReused, CreatorsClean, AbsentHasNoRow, HasRow
    <2>3. StartupReal'
        BY <1>5 DEF BootStart, Reconcile, BootDone, Untracked, Live, UseInv, StartupReal
    <2> QED BY <1>2, <1>4, <2>2, <2>3 DEF UseInv
<1>6. ASSUME NEW s \in Sandbox, CleanOrphan(s)
      PROVE  UseInv'
    <2>1. TableQuiet
        BY <1>6, UpdateQuiet, TableUnchanged DEF CleanOrphan, DropOrphan, RecordOrphan
    <2>2. CloudQuiet
        BY <1>6 DEF CleanOrphan, DropOrphan, RecordOrphan, TryDeleteRemote, DeleteRemote,
                    CloudQuiet, TypeOK, RemoteTypeOK
    <2>3. CreatorsClean' /\ AbsentHasNoRow'
        BY <1>1, <2>1, <2>2 DEF UseInv, CreatorsClean, AbsentHasNoRow, HasRow, TableQuiet,
                                CloudQuiet
    <2>4. StartupReal'
        BY <1>6 DEF CleanOrphan, DropOrphan, RecordOrphan, StartupReal
    <2> QED BY <1>2, <1>4, <2>1, <2>3, <2>4 DEF UseInv, TableQuiet
<1>7. ASSUME NEW s \in Sandbox, Adopt(s)
      PROVE  UseInv'
    <2>1. /\ remote[s] # "absent" /\ boot' = boot /\ todo' = todo \ {s}
          /\ \A r \in Sandbox : creator[r] = "idle"
        BY <1>1, <1>7 DEF Adopt, UseInv, StartupReal, StartupAlone
    <2>2. CloudQuiet
        BY <1>7 DEF Adopt, DeleteRemote, CloudQuiet, TypeOK, RemoteTypeOK
    <2>3. \/ state' = state
          \/ ~HasRow(s) /\ state' = [state EXCEPT ![s] = "available"]
        BY <1>7 DEF Adopt, ImportSandbox
    <2>4. NeverReused'
        BY <1>3, <2>3 DEF UseInv, NeverReused, HasRow, TypeOK, DBTypeOK
    <2>5. AbsentHasNoRow'
        BY <2>1, <2>2, <2>3 DEF UseInv, AbsentHasNoRow, CloudQuiet, HasRow, TypeOK, DBTypeOK
    <2>6. CreatorsClean'
        BY <1>1, <2>1 DEF CreatorsClean
    <2>7. StartupReal'
        BY <2>1, <2>2 DEF UseInv, StartupReal, CloudQuiet, TypeOK
    <2> QED BY <1>2, <1>4, <2>4, <2>5, <2>6, <2>7 DEF UseInv
<1> QED BY <1>5, <1>6, <1>7 DEF Boot

\* The environment keeps it; a crash leaves no holder at all.
LEMMA EnvironmentUse ==
    ASSUME TypeOK, UseInv,
           Crash \/ CreateFails \/ OutageBegins \/ OutageEnds
             \/ (\E s \in Sandbox : Time(s) \/ Cloud(s)) \/ \E e \in Exec : ClientLeaves(e)
    PROVE  UseInv'
<1>1. CASE Crash
    BY <1>1 DEF Crash, UseInv, HoldersHold, HolderOwns, NeverReused, CreatorsClean,
                AbsentHasNoRow, HasRow, StartupAlone, StartupReal, Up
<1>2. CASE CreateFails
    <2>1. Up
        BY <1>2 DEF CreateFails, UseInv, StartupAlone
    <2> QED BY <1>2, <2>1 DEF CreateFails, creatorUnchanged, UseInv, HoldersHold, HolderOwns,
            NeverReused, CreatorsClean, AbsentHasNoRow, HasRow, StartupAlone, StartupReal, Up
<1>3. CASE OutageBegins \/ OutageEnds
    BY <1>3, TableUnchanged, QuietStep DEF OutageBegins, OutageEnds, processUnchanged, CloudQuiet
<1>4. ASSUME NEW s \in Sandbox, Time(s) \/ Cloud(s)
      PROVE  UseInv'
    <2>1. TableQuiet
        BY <1>4 DEF Time, Cloud, RowAges, UseInv, NeverReused, TableQuiet
    <2>2. CloudQuiet
        BY <1>4 DEF Time, Cloud, RemoteStarts, RemoteAutoStops, RemoteBreaks, CloudQuiet,
                    TypeOK, RemoteTypeOK
    <2> QED BY <1>4, <2>1, <2>2, QuietStep DEF Time, Cloud, processUnchanged
<1>5. ASSUME NEW e \in Exec, ClientLeaves(e)
      PROVE  UseInv'
    BY <1>5, TableUnchanged, QuietStep DEF ClientLeaves, CloudQuiet
<1> QED BY <1>1, <1>2, <1>3, <1>4, <1>5

\* Nothing is in use at the start.
LEMMA UseInit == Init => UseInv
BY DEF Init, DBInit, RemoteInit, UseInv, HoldersHold, HolderOwns, NeverReused, CreatorsClean,
       AbsentHasNoRow, HasRow, StartupAlone, StartupReal, Up

\* UseInv is inductive, given the types.
LEMMA UseStep ==
    ASSUME TypeOK, UseInv, [Next]_vars
    PROVE  UseInv'
<1>1. CASE UNCHANGED vars
    BY <1>1, TableUnchanged, QuietStep DEF vars, CloudQuiet
<1>2. CASE Next
    BY <1>2, DeleterUse, CreatorUse, HandlerUse, ClaimUse, ClaimFailsUse, WorkerUse,
       BootUse, EnvironmentUse DEF Next
<1> QED BY <1>1, <1>2

\* The rows, the lists of the workers and the program counters keep to their
\* types whatever the order of the steps (pool/manager.go, server/handlers.go).
THEOREM TypeCorrect == Spec => []TypeOK
<1>1. Init => TypeOK /\ UseInv
    BY TypeInit, UseInit
<1>2. TypeOK /\ UseInv /\ [Next]_vars => (TypeOK /\ UseInv)'
    BY TypeStep, UseStep DEF UseInv
<1> QED BY <1>1, <1>2, PTL DEF Spec

\* A handler works in no sandbox but the one whose row names its execution,
\* so no two handlers share one (ClaimSandbox, ClaimAvailableSandbox).
THEOREM HolderOwnsHolds == Spec => []HolderOwns
<1>1. Init => TypeOK /\ UseInv
    BY TypeInit, UseInit
<1>2. TypeOK /\ UseInv /\ [Next]_vars => (TypeOK /\ UseInv)'
    BY TypeStep, UseStep DEF UseInv
<1>3. UseInv => HolderOwns
    BY DEF UseInv
<1> QED BY <1>1, <1>2, <1>3, PTL DEF Spec

\* No writer brings a sandbox that was claimed back to the pool, the import
\* of what a crash left behind included (ImportSandbox, createSandbox).
THEOREM NeverReusedHolds == Spec => []NeverReused
<1>1. Init => TypeOK /\ UseInv
    BY TypeInit, UseInit
<1>2. TypeOK /\ UseInv /\ [Next]_vars => (TypeOK /\ UseInv)'
    BY TypeStep, UseStep DEF UseInv
<1>3. UseInv => NeverReused
    BY DEF UseInv
<1> QED BY <1>1, <1>2, <1>3, PTL DEF Spec

-----------------------------------------------------------------------------
(* The pool implements SandboxLease.                                       *)

\* The initial states of the pool are those of the lease.
LEMMA LeaseInitial == Init => Use!LeaseInit
BY DEF Init, DBInit, Use!LeaseInit, leaseOf

\* Steps that neither claim nor move a handler do not touch a lease.
LEMMA LeaseStutter ==
    ASSUME UNCHANGED <<claimedBy, hpc, hsb>>
    PROVE  UNCHANGED <<leaseOf, claimedBy>>
BY DEF leaseOf, Holds

\* A handler's step enters or ends its lease, or leaves it alone.
LEMMA LeaseHandler ==
    ASSUME TypeOK, UseInv, NEW e \in Exec, Handler(e)
    PROVE  [Use!LeaseNext]_<<leaseOf, claimedBy>>
<1> DEFINE s == hsb[e]
<1> USE DEF VerifyClaim, RejectClaim, WakeDone, WakeFails, MarkExecuting, FinishExecute
<1>1. /\ hpc[e] \in Holding /\ s \in Sandbox /\ claimedBy[s] = e /\ e # NoExec
    BY NoExecAssumption DEF Handler, UseInv, HoldersHold, HolderOwns
<1>2. claimedBy' = claimedBy
    BY DEF Handler, DeleteClaimed, UpdateSandboxState
<1>3. \A f \in Exec \ {e} : hpc'[f] = hpc[f] /\ hsb'[f] = hsb[f]
    BY DEF Handler, GoTo, Finish, Retry, TypeOK
<1>4. hsb'[e] = s \/ hpc'[e] \notin Holding
    BY DEF Handler, GoTo, Finish, Retry, TypeOK
<1>5. ASSUME NEW r \in Sandbox \ {s}
      PROVE  leaseOf'[r] = leaseOf[r]
    <2>1. claimedBy[r] \in Exec \cup {NoExec}
        BY DEF TypeOK, DBTypeOK
    <2>2. CASE claimedBy[r] = NoExec
        BY <1>2, <2>2 DEF leaseOf
    <2>3. CASE claimedBy[r] = e
        BY <1>1, <1>2, <1>4, <2>3 DEF leaseOf, Holds
    <2>4. CASE claimedBy[r] \in Exec \ {e}
        BY <1>2, <1>3, <2>4, NoExecAssumption DEF leaseOf, Holds
    <2> QED BY <2>1, <2>2, <2>3, <2>4
<1>6. CASE VerifyClaim(e) \/ WakeDone(e)
    <2>1. /\ hpc[e] \in Holding \ {"running"} /\ hpc'[e] \in Holding \ {"running"}
          /\ hsb'[e] = s
        BY <1>6 DEF GoTo, TypeOK
    <2>2. leaseOf'[s] = leaseOf[s]
        BY <1>1, <1>2, <2>1 DEF leaseOf, Holds
    <2> QED BY <1>2, <1>5, <2>2 DEF leaseOf
<1>7. CASE MarkExecuting(e)
    <2>1. hpc[e] = "claimed" /\ hpc'[e] = "running" /\ hsb'[e] = s
        BY <1>7 DEF GoTo, TypeOK
    <2>2. leaseOf[s] = "leased" /\ leaseOf'[s] = "inside"
        BY <1>1, <1>2, <2>1 DEF leaseOf, Holds
    <2>3. leaseOf' = [leaseOf EXCEPT ![s] = "inside"]
        BY <1>5, <2>2 DEF leaseOf
    <2>4. Use!Enter(s)
        BY <1>2, <2>2, <2>3 DEF Use!Enter
    <2> QED BY <1>1, <2>4 DEF Use!LeaseNext
<1>8. CASE RejectClaim(e) \/ WakeFails(e) \/ FinishExecute(e)
    <2>1. hpc'[e] \notin Holding
        BY <1>8 DEF GoTo, Finish, Retry, TypeOK
    <2>2. leaseOf[s] \in {"leased", "inside"} /\ leaseOf'[s] = "spent"
        BY <1>1, <1>2, <2>1 DEF leaseOf, Holds
    <2>3. leaseOf' = [r \in Sandbox |-> IF r \in {s} THEN "spent" ELSE leaseOf[r]]
        BY <1>5, <2>2 DEF leaseOf
    <2>4. Use!Spend({s})
        BY <1>2, <2>2, <2>3 DEF Use!Spend
    <2> QED BY <1>1, <2>4 DEF Use!LeaseNext
<1> QED BY <1>6, <1>7, <1>8 DEF Handler

\* A claim grants a lease on a sandbox nobody has had.
LEMMA LeaseClaim ==
    ASSUME TypeOK, UseInv, NEW e \in Exec, NEW s \in Sandbox, Claim(e, s)
    PROVE  [Use!LeaseNext]_<<leaseOf, claimedBy>>
<1>1. /\ hpc[e] = "claiming" /\ state[s] = "available"
      /\ claimedBy' = [claimedBy EXCEPT ![s] = e]
    BY DEF Claim, ClaimAvailableSandbox
<1>2. e # NoExec /\ claimedBy[s] = NoExec /\ claimedBy'[s] = e
    BY <1>1, NoExecAssumption DEF UseInv, NeverReused, TypeOK, DBTypeOK
<1>3. \/ hpc'[e] = "verifying" /\ hsb'[e] = s
      \/ hpc'[e] = "done"
    BY DEF Claim, GoTo, Finish, TypeOK
<1>4. \A f \in Exec \ {e} : hpc'[f] = hpc[f] /\ hsb'[f] = hsb[f]
    BY DEF Claim, GoTo, Finish, TypeOK
<1>5. ASSUME NEW r \in Sandbox \ {s}
      PROVE  leaseOf'[r] = leaseOf[r]
    <2>1. claimedBy'[r] = claimedBy[r] /\ claimedBy[r] \in Exec \cup {NoExec}
        BY <1>1 DEF TypeOK, DBTypeOK
    <2>2. CASE claimedBy[r] = NoExec
        BY <2>1, <2>2 DEF leaseOf
    <2>3. CASE claimedBy[r] = e
        BY <1>1, <1>3, <2>1, <2>3 DEF leaseOf, Holds
    <2>4. CASE claimedBy[r] \in Exec \ {e}
        BY <1>4, <2>1, <2>4, NoExecAssumption DEF leaseOf, Holds
    <2> QED BY <2>1, <2>2, <2>3, <2>4
<1>6. leaseOf[s] = "fresh" /\ leaseOf'[s] \in {"leased", "spent"}
    BY <1>2, <1>3 DEF leaseOf, Holds
<1>7. leaseOf' \in {[leaseOf EXCEPT ![s] = "leased"], [leaseOf EXCEPT ![s] = "spent"]}
    BY <1>5, <1>6 DEF leaseOf
<1>8. Use!Lease(s, e)
    BY <1>1, <1>6, <1>7 DEF Use!Lease
<1> QED BY <1>8 DEF Use!LeaseNext

\* A refused claim touches no lease.
LEMMA LeaseClaimFails ==
    ASSUME TypeOK, UseInv, NEW e \in Exec, ClaimFails(e)
    PROVE  UNCHANGED <<leaseOf, claimedBy>>
<1>1. claimedBy' = claimedBy /\ hpc[e] = "claiming" /\ hpc'[e] = "done"
    BY DEF ClaimFails, Finish, GoTo, TypeOK
<1>2. \A f \in Exec \ {e} : hpc'[f] = hpc[f] /\ hsb'[f] = hsb[f]
    BY DEF ClaimFails, Finish, GoTo, TypeOK
<1>3. \A r \in Sandbox : claimedBy[r] # NoExec => claimedBy[r] \in Exec
    BY DEF TypeOK, DBTypeOK
<1>4. \A r \in Sandbox : leaseOf'[r] = leaseOf[r]
    BY <1>1, <1>2, <1>3 DEF leaseOf, Holds
<1> QED BY <1>1, <1>4 DEF leaseOf

\* A crash ends all leases at once.
LEMMA LeaseCrash ==
    ASSUME TypeOK, UseInv, Crash
    PROVE  [Use!LeaseNext]_<<leaseOf, claimedBy>>
<1> DEFINE S == {s \in Sandbox : leaseOf[s] \in {"leased", "inside"}}
<1>1. claimedBy' = claimedBy /\ \A e \in Exec : hpc'[e] \notin Holding
    BY DEF Crash
<1>2. ASSUME NEW r \in Sandbox
      PROVE  leaseOf'[r] = IF r \in S THEN "spent" ELSE leaseOf[r]
    <2>1. claimedBy[r] \in Exec \cup {NoExec}
        BY DEF TypeOK, DBTypeOK
    <2>2. CASE claimedBy[r] = NoExec
        BY <1>1, <2>2 DEF leaseOf
    <2>3. CASE claimedBy[r] \in Exec
        BY <1>1, <2>3, NoExecAssumption DEF leaseOf, Holds
    <2> QED BY <2>1, <2>2, <2>3
<1>3. leaseOf' = [r \in Sandbox |-> IF r \in S THEN "spent" ELSE leaseOf[r]]
    BY <1>2 DEF leaseOf
<1>4. Use!Spend(S)
    BY <1>1, <1>3 DEF Use!Spend
<1> QED BY <1>4 DEF Use!LeaseNext

\* No other action touches what the lease is made of.
LEMMA LeaseOthers ==
    ASSUME TypeOK, UseInv,
           \/ Scaler \/ Reaper \/ HealthChecker \/ Boot
           \/ CreateFails \/ OutageBegins \/ OutageEnds
           \/ \E s \in Sandbox : Creator(s) \/ Deleter(s) \/ Time(s) \/ Cloud(s)
           \/ \E e \in Exec : ClientLeaves(e)
    PROVE  UNCHANGED <<claimedBy, hpc, hsb>>
<1>1. CASE Scaler \/ Reaper \/ HealthChecker
    BY <1>1 DEF Scaler, Scale, ScaleDownList, ScaleDownNext, Reaper, ReapStale, ReapFailed,
                ReapNext, HealthChecker, HealthQuery, HealthGet, HealthDelete, workerUnchanged,
                DeleteSandbox, UpdateSandboxState
<1>2. CASE Boot
    BY <1>2 DEF Boot, BootStart, CleanOrphan, DropOrphan, RecordOrphan, Reconcile, Adopt, BootDone,
                bootUnchanged,
                UpdateSandboxState, ImportSandbox
<1>3. CASE CreateFails \/ OutageBegins \/ OutageEnds
    BY <1>3 DEF CreateFails, OutageBegins, OutageEnds, creatorUnchanged, processUnchanged
<1>4. ASSUME NEW s \in Sandbox, Creator(s)
      PROVE  UNCHANGED <<claimedBy, hpc, hsb>>
    BY <1>4 DEF Creator, Create, CreateLost, InsertRow, MarkWarming, CreatorStart, StartDone,
           StartFails, RecordUnstarted, DropUnstarted, MakeAvailable, CreateSandbox,
           UpdateSandboxState, creatorUnchanged
<1>5. ASSUME NEW s \in Sandbox, Deleter(s)
      PROVE  UNCHANGED <<claimedBy, hpc, hsb>>
    BY <1>5 DEF Deleter, DeleteAndVerify, DeleteExpires, RecordDeleted, RecordFailed,
                UpdateSandboxState, deleterUnchanged
<1>6. ASSUME NEW s \in Sandbox, Time(s) \/ Cloud(s)
      PROVE  UNCHANGED <<claimedBy, hpc, hsb>>
    BY <1>6 DEF Time, RowAges, Cloud, processUnchanged
<1>7. CASE \E e \in Exec : ClientLeaves(e)
    BY <1>7 DEF ClientLeaves
<1> QED BY <1>1, <1>2, <1>3, <1>4, <1>5, <1>6, <1>7

\* "Each sandbox is single-use": every step of the pool is a step of the
\* lease or leaves it alone, through crashes, lost claims and imports.
THEOREM SingleUseHolds == Spec => SingleUse
<1>1. Init => TypeOK /\ UseInv
    BY TypeInit, UseInit
<1>2. TypeOK /\ UseInv /\ [Next]_vars => (TypeOK /\ UseInv)'
    BY TypeStep, UseStep DEF UseInv
<1>3. Init => Use!LeaseInit
    BY LeaseInitial
<1>4. TypeOK /\ UseInv /\ [Next]_vars => [Use!LeaseNext]_<<leaseOf, claimedBy>>
    <2>1. ASSUME TypeOK, UseInv, Next
          PROVE  [Use!LeaseNext]_<<leaseOf, claimedBy>>
        BY <2>1, LeaseHandler, LeaseClaim, LeaseClaimFails, LeaseCrash, LeaseOthers, LeaseStutter
           DEF Next
    <2>2. UNCHANGED vars => UNCHANGED <<leaseOf, claimedBy>>
        BY LeaseStutter DEF vars
    <2> QED BY <2>1, <2>2
<1> QED BY <1>1, <1>2, <1>3, <1>4, PTL DEF Spec, SingleUse, Use!LeaseSpec, Use!leaseVars

-----------------------------------------------------------------------------
(* What the table calls deleted is destroyed.                              *)

\* A goroutine past DeleteAndVerify has seen the sandbox gone.
VerifiedIsGone == \A s \in Sandbox : deleters[s]["gone"] > 0 => remote[s] = "gone"

DestroyInv == DeletedIsGone /\ VerifiedIsGone

\* Nothing the service or its client does brings a destroyed sandbox back.
LEMMA GoneForGood ==
    ASSUME TypeOK, HoldersHold, Next, NEW r \in Sandbox, remote[r] = "gone"
    PROVE  remote'[r] = "gone"
<1> USE DEF RemoteTypeOK, TryDeleteRemote, DeleteRemote, StartRemote
<1>1. CASE Scaler \/ Reaper \/ HealthChecker
    BY <1>1 DEF Scaler, Scale, ScaleDownList, ScaleDownNext, Reaper, ReapStale, ReapFailed,
                ReapNext, HealthChecker, HealthQuery, HealthGet, HealthDelete, workerUnchanged
<1>2. CASE Boot
    BY <1>2 DEF Boot, BootStart, CleanOrphan, DropOrphan, RecordOrphan, Reconcile, Adopt, BootDone,
                TypeOK
<1>3. CASE Crash \/ CreateFails \/ OutageBegins \/ OutageEnds
    BY <1>3 DEF Crash, CreateFails, OutageBegins, OutageEnds
<1>4. ASSUME NEW s \in Sandbox, Creator(s)
      PROVE  remote'[r] = "gone"
    BY <1>4 DEF Creator, Create, CreateLost, InsertRow, MarkWarming, CreatorStart, StartDone,
                StartFails, RecordUnstarted, DropUnstarted, MakeAvailable, CreateRemote, TypeOK
<1>5. ASSUME NEW s \in Sandbox, Deleter(s)
      PROVE  remote'[r] = "gone"
    BY <1>5 DEF Deleter, DeleteAndVerify, DeleteExpires, RecordDeleted, RecordFailed,
                DeleteRemoteUnanswered, TypeOK
<1>6. ASSUME NEW s \in Sandbox, Time(s) \/ Cloud(s)
      PROVE  remote'[r] = "gone"
    BY <1>6 DEF Time, Cloud, RemoteStarts, RemoteAutoStops, RemoteBreaks, TypeOK
<1>7. ASSUME NEW e \in Exec, Handler(e)
      PROVE  remote'[r] = "gone"
    BY <1>7 DEF Handler, VerifyClaim, RejectClaim, WakeDone, WakeFails, MarkExecuting,
                FinishExecute, TypeOK
<1>8. ASSUME NEW e \in Exec, ClientLeaves(e) \/ ClaimFails(e) \/ \E s \in Sandbox : Claim(e, s)
      PROVE  remote'[r] = "gone"
    BY <1>8 DEF ClientLeaves, ClaimFails, Claim
<1> QED BY <1>1, <1>2, <1>3, <1>4, <1>5, <1>6, <1>7, <1>8 DEF Next

\* Only a goroutine that saw the sandbox gone and cleanupOrphans write "deleted".
LEMMA DeletedBy ==
    ASSUME TypeOK, HoldersHold, Next, NEW r \in Sandbox, state'[r] = "deleted"
    PROVE  \/ state[r] = "deleted" \/ deleters[r]["gone"] > 0
           \/ remote'[r] = "gone" \/ leaked'[r]
<1> USE DEF DBTypeOK, UpdateSandboxState, DeleteSandbox, DeleteClaimed
<1>1. CASE Scaler \/ Reaper \/ HealthChecker
    BY <1>1 DEF Scaler, Scale, ScaleDownList, ScaleDownNext, Reaper, ReapStale, ReapFailed,
                ReapNext, HealthChecker, HealthQuery, HealthGet, HealthDelete, TypeOK
<1>2. CASE BootStart \/ Reconcile \/ BootDone
    BY <1>2 DEF BootStart, Reconcile, BootDone
<1>3. ASSUME NEW s \in Sandbox, CleanOrphan(s)
      PROVE  state[r] = "deleted" \/ remote'[r] = "gone" \/ leaked'[r]
    BY <1>3 DEF CleanOrphan, DropOrphan, RecordOrphan, TypeOK
<1>4. ASSUME NEW s \in Sandbox, Adopt(s)
      PROVE  state[r] = "deleted"
    BY <1>4 DEF Adopt, ImportSandbox, TypeOK
<1>5. CASE Crash \/ CreateFails \/ OutageBegins \/ OutageEnds
    BY <1>5 DEF Crash, CreateFails, OutageBegins, OutageEnds
<1>6. ASSUME NEW s \in Sandbox, Creator(s)
      PROVE  state[r] = "deleted"
    BY <1>6 DEF Creator, Create, CreateLost, InsertRow, MarkWarming, CreatorStart, StartDone,
                StartFails, RecordUnstarted, DropUnstarted, MakeAvailable, CreateSandbox, TypeOK
<1>7. ASSUME NEW s \in Sandbox, Deleter(s)
      PROVE  state[r] = "deleted" \/ deleters[r]["gone"] > 0
    BY <1>7 DEF Deleter, DeleteAndVerify, DeleteExpires, RecordDeleted, RecordFailed, Retire,
                TypeOK
<1>8. ASSUME NEW s \in Sandbox, Time(s) \/ Cloud(s)
      PROVE  state[r] = "deleted"
    BY <1>8 DEF Time, RowAges, Cloud
<1>9. ASSUME NEW e \in Exec, Handler(e)
      PROVE  state[r] = "deleted"
    BY <1>9 DEF Handler, VerifyClaim, RejectClaim, WakeDone, WakeFails, MarkExecuting,
                FinishExecute, TypeOK
<1>10. ASSUME NEW e \in Exec, ClientLeaves(e) \/ ClaimFails(e) \/ \E s \in Sandbox : Claim(e, s)
       PROVE  state[r] = "deleted"
    BY <1>10 DEF ClientLeaves, ClaimFails, Claim, ClaimAvailableSandbox, TypeOK
<1> QED BY <1>1, <1>2, <1>3, <1>4, <1>5, <1>6, <1>7, <1>8, <1>9, <1>10 DEF Next, Boot

\* DeleteAndVerify returns nil only for a sandbox that is gone.
LEMMA VerifiedBy ==
    ASSUME TypeOK, HoldersHold, Next, NEW r \in Sandbox, deleters'[r]["gone"] > 0
    PROVE  deleters[r]["gone"] > 0 \/ remote'[r] = "gone"
<1>0. ASSUME NEW s, BeginDeletion(s)
      PROVE  deleters[r]["gone"] > 0
    BY <1>0 DEF BeginDeletion, TypeOK
<1>1. CASE Scaler \/ Reaper \/ HealthChecker
    <2>1. deleters' = deleters \/ \E s : BeginDeletion(s)
        BY <1>1 DEF Scaler, Scale, ScaleDownList, ScaleDownNext, Reaper, ReapStale, ReapFailed,
                    ReapNext, HealthChecker, HealthQuery, HealthGet, HealthDelete, DeleteSandbox
    <2> QED BY <1>0, <2>1
<1>2. CASE Boot
    BY <1>2 DEF Boot, BootStart, CleanOrphan, DropOrphan, RecordOrphan, Reconcile, Adopt, BootDone,
                bootUnchanged
<1>3. CASE CreateFails \/ OutageBegins \/ OutageEnds
    BY <1>3 DEF CreateFails, OutageBegins, OutageEnds, creatorUnchanged, processUnchanged
<1>4. CASE Crash
    BY <1>4 DEF Crash
<1>5. ASSUME NEW s \in Sandbox, Creator(s) \/ Time(s) \/ Cloud(s)
      PROVE  deleters[r]["gone"] > 0
    BY <1>5 DEF Creator, Create, CreateLost, InsertRow, MarkWarming, CreatorStart, StartDone,
                StartFails, RecordUnstarted, DropUnstarted, MakeAvailable, creatorUnchanged, Time,
                Cloud, processUnchanged
<1>6. ASSUME NEW s \in Sandbox, Deleter(s)
      PROVE  deleters[r]["gone"] > 0 \/ remote'[r] = "gone"
    <2>1. CASE Advance(s, "calling", "gone") /\ DeleteRemote(s)
        <3>1. CASE r = s
            BY <2>1, <3>1 DEF DeleteRemote, TypeOK, RemoteTypeOK
        <3>2. CASE r # s
            BY <2>1, <3>2 DEF Advance, TypeOK
        <3> QED BY <3>1, <3>2
    <2>2. CASE Advance(s, "calling", "kept")
        BY <2>2 DEF Advance, TypeOK
    <2>3. ASSUME NEW from \in DeleterStage, Retire(s, from)
          PROVE  deleters[r]["gone"] > 0
        <3>1. /\ deleters[s] \in [DeleterStage -> Nat]
              /\ deleters[r] \in [DeleterStage -> Nat]
            BY DEF TypeOK
        <3>2. deleters' = [deleters EXCEPT ![s] = [deleters[s] EXCEPT ![from] = @ - 1]]
            BY <2>3 DEF Retire
        <3> QED BY <3>1, <3>2 DEF TypeOK
    <2> QED BY <1>6, <2>1, <2>2, <2>3 DEF Deleter, DeleteAndVerify, DeleteExpires,
                                          RecordDeleted, RecordFailed
<1>7. ASSUME NEW e \in Exec, Handler(e)
      PROVE  deleters[r]["gone"] > 0
    <2>1. deleters' = deleters \/ BeginDeletion(hsb[e])
        BY <1>7 DEF Handler, VerifyClaim, RejectClaim, WakeDone, WakeFails, MarkExecuting,
                    FinishExecute, DeleteClaimed
    <2> QED BY <1>0, <2>1
<1>8. ASSUME NEW e \in Exec, ClientLeaves(e) \/ ClaimFails(e) \/ \E s \in Sandbox : Claim(e, s)
      PROVE  deleters[r]["gone"] > 0
    BY <1>8 DEF ClientLeaves, ClaimFails, Claim
<1> QED BY <1>1, <1>2, <1>3, <1>4, <1>5, <1>6, <1>7, <1>8 DEF Next

\* A leak is only ever undone by a deletion that succeeds.
LEMMA LeakedBy ==
    ASSUME TypeOK, Next, NEW r \in Sandbox, leaked[r]
    PROVE  leaked'[r] \/ remote'[r] = "gone"
<1>1. ASSUME NEW s \in Sandbox, CleanOrphan(s)
      PROVE  leaked'[r] \/ remote'[r] = "gone"
    BY <1>1 DEF CleanOrphan, DropOrphan, RecordOrphan, TypeOK
<1>2. CASE \A s \in Sandbox : ~CleanOrphan(s)
    BY <1>2 DEF Next, Scaler, Scale, ScaleDownList, ScaleDownNext, Reaper, ReapStale, ReapFailed,
           ReapNext, HealthChecker, HealthQuery, HealthGet, HealthDelete, workerUnchanged,
           Boot, BootStart, Reconcile, Adopt, BootDone, Crash,
           CreateFails, OutageBegins, OutageEnds, processUnchanged, Creator, Create, CreateLost,
           InsertRow, MarkWarming, CreatorStart, StartDone, StartFails, RecordUnstarted,
           DropUnstarted, MakeAvailable,
           creatorUnchanged, Deleter, DeleteAndVerify, DeleteExpires, RecordDeleted, RecordFailed,
           deleterUnchanged, Time, Cloud, Handler, VerifyClaim, RejectClaim, WakeDone, WakeFails,
           MarkExecuting, FinishExecute, ClientLeaves, ClaimFails, Claim, handlerUnchanged
<1> QED BY <1>1, <1>2

\* DestroyInv is inductive: a destroyed sandbox stays so.
LEMMA DestroyStep ==
    ASSUME TypeOK, HoldersHold, DestroyInv, [Next]_vars
    PROVE  DestroyInv'
<1>1. CASE UNCHANGED vars
    BY <1>1 DEF vars, DestroyInv, DeletedIsGone, VerifiedIsGone
<1>2. CASE Next
    <2>1. VerifiedIsGone'
        BY <1>2, VerifiedBy, GoneForGood DEF DestroyInv, VerifiedIsGone
    <2>2. DeletedIsGone'
        BY <1>2, DeletedBy, LeakedBy, GoneForGood DEF DestroyInv, VerifiedIsGone, DeletedIsGone
    <2> QED BY <2>1, <2>2 DEF DestroyInv
<1> QED BY <1>1, <1>2

\* The table never calls a sandbox deleted that Daytona still runs, unless
\* cleanupOrphans recorded a deletion that had failed (manager.go:242-248).
THEOREM DeletedIsGoneHolds == Spec => []DeletedIsGone
<1>1. Init => TypeOK /\ UseInv /\ DestroyInv
    BY TypeInit, UseInit
       DEF Init, DBInit, DestroyInv, DeletedIsGone, VerifiedIsGone
<1>2. TypeOK /\ UseInv /\ DestroyInv /\ [Next]_vars => (TypeOK /\ UseInv /\ DestroyInv)'
    BY TypeStep, UseStep, DestroyStep DEF UseInv
<1>3. DestroyInv => DeletedIsGone
    BY DEF DestroyInv
<1> QED BY <1>1, <1>2, <1>3, PTL DEF Spec

-----------------------------------------------------------------------------
(* Busy rows are owned, from the startup pass on.                          *)

Busy(s) == state[s] \in {"executing", "deleting"}

Owned(s) ==
    \/ \E e \in Exec : hpc[e] = "running" /\ hsb[e] = s
    \/ DeletersOf(s) > 0
    \/ forgot[s]
    \/ boot = "down"
    \/ boot = "orphans" /\ s \in todo

\* The second part is why an import never makes a forgotten busy row look
\* remembered: the startup pass imports and deletes what has no busy row.
OwnedInv ==
    /\ \A s \in Sandbox : Busy(s) => Owned(s)
    /\ boot = "reconcile" => \A s \in todo : ~Busy(s)

\* A deletion begun is counted, and takes no other one away.
LEMMA DeletionCounts ==
    ASSUME TypeOK, NEW s \in Sandbox, DeletionOf(s), NEW r \in Sandbox
    PROVE  r = s \/ DeletersOf(r) > 0 => DeletersOf(r)' > 0
<1>1. /\ deleters[s] \in [DeleterStage -> Nat]
      /\ deleters[r] \in [DeleterStage -> Nat]
    BY DEF TypeOK
<1>2. deleters' = [deleters EXCEPT ![s] = [deleters[s] EXCEPT !["calling"] = @ + 1]]
    BY DEF DeletionOf, BeginDeletion
<1> QED BY <1>1, <1>2 DEF DeletersOf, TypeOK

\* A deletion that goes on is still one deletion of the same sandbox.
LEMMA AdvanceCounts ==
    ASSUME TypeOK, NEW s \in Sandbox,
           NEW from \in DeleterStage, NEW to \in DeleterStage \ {from},
           Advance(s, from, to), NEW r \in Sandbox
    PROVE  DeletersOf(r)' = DeletersOf(r)
<1>1. /\ deleters[s] \in [DeleterStage -> Nat]
      /\ deleters[r] \in [DeleterStage -> Nat]
    BY DEF TypeOK
<1>2. /\ deleters[s][from] > 0
      /\ deleters' = [deleters EXCEPT ![s] =
                        [deleters[s] EXCEPT ![from] = @ - 1, ![to] = @ + 1]]
    BY DEF Advance, TypeOK
<1>3. CASE r = s
    <2>1. deleters'[s] = [deleters[s] EXCEPT ![from] = @ - 1, ![to] = @ + 1]
        BY <1>2 DEF TypeOK
    <2> QED BY <1>1, <1>3, <2>1 DEF DeletersOf
<1>4. CASE r # s
    BY <1>2, <1>4 DEF DeletersOf, TypeOK
<1> QED BY <1>3, <1>4

\* A deletion that ends leaves the deletions of other sandboxes alone.
LEMMA RetireCounts ==
    ASSUME TypeOK, NEW s \in Sandbox, NEW from \in DeleterStage, Retire(s, from),
           NEW r \in Sandbox \ {s}
    PROVE  DeletersOf(r)' = DeletersOf(r)
<1>1. deleters[r] \in [DeleterStage -> Nat] /\ deleters[s] \in [DeleterStage -> Nat]
    BY DEF TypeOK
<1>2. deleters' = [deleters EXCEPT ![s] = [deleters[s] EXCEPT ![from] = @ - 1]]
    BY DEF Retire
<1>3. deleters'[r] = deleters[r]
    BY <1>2 DEF TypeOK
<1> QED BY <1>3 DEF DeletersOf

\* What a step does that leaves the startup and the forgotten ones alone, lets
\* go of no busy row, and makes a row busy only with an owner.
OwnersKept ==
    /\ UNCHANGED bootVars
    /\ \A s \in Sandbox : forgot[s] => forgot'[s]
    /\ \A s \in Sandbox : DeletersOf(s) > 0 => DeletersOf(s)' > 0 \/ forgot'[s] \/ ~Busy(s)'
    /\ \A e \in Exec, s \in Sandbox : hpc[e] = "running" /\ hsb[e] = s =>
          (hpc'[e] = "running" /\ hsb'[e] = s) \/ DeletersOf(s)' > 0
    /\ \A s \in Sandbox : Busy(s)' => Busy(s) \/ Owned(s)'
    /\ boot = "reconcile" => \A s \in Sandbox : Busy(s)' => Busy(s)

\* A step that keeps owners keeps the invariant.
LEMMA OwnersKeptStep ==
    ASSUME TypeOK, OwnedInv, OwnersKept
    PROVE  OwnedInv'
<1>1. ASSUME NEW s \in Sandbox, Busy(s)'
      PROVE  Owned(s)'
    <2>1. CASE Owned(s)'
        BY <2>1
    <2>2. CASE Busy(s)
        <3>0. Owned(s)
            BY <2>2 DEF OwnedInv
        <3>1. ASSUME NEW e \in Exec, hpc[e] = "running", hsb[e] = s
              PROVE  Owned(s)'
            <4>1. (hpc'[e] = "running" /\ hsb'[e] = s) \/ DeletersOf(s)' > 0
                BY <3>1 DEF OwnersKept
            <4> QED BY <4>1 DEF Owned
        <3>2. CASE DeletersOf(s) > 0
            <4>1. DeletersOf(s)' > 0 \/ forgot'[s]
                BY <1>1, <3>2 DEF OwnersKept
            <4> QED BY <4>1 DEF Owned
        <3>3. CASE forgot[s] \/ boot = "down" \/ (boot = "orphans" /\ s \in todo)
            BY <3>3 DEF OwnersKept, Owned
        <3> QED BY <3>0, <3>1, <3>2, <3>3 DEF Owned
    <2> QED BY <1>1, <2>1, <2>2 DEF OwnersKept
<1>2. boot' = "reconcile" => \A s \in todo' : ~Busy(s)'
    BY DEF OwnedInv, OwnersKept, TypeOK
<1> QED BY <1>1, <1>2 DEF OwnedInv

\* A step that only changes rows to states that are not busy.
LEMMA NothingBusier ==
    ASSUME UNCHANGED <<bootVars, forgot, deleters, hpc, hsb>>,
           \A s \in Sandbox : Busy(s)' => Busy(s)
    PROVE  OwnersKept
BY DEF OwnersKept, DeletersOf

\* A worker or a handler that deletes a sandbox, possibly its own.
LEMMA DeletionOwns ==
    ASSUME TypeOK, NEW s \in Sandbox, DeletionOf(s), Up, UNCHANGED <<bootVars, forgot>>,
           \A e \in Exec : hpc[e] = "running" =>
               (hpc'[e] = "running" /\ hsb'[e] = hsb[e]) \/ hsb[e] = s
    PROVE  OwnersKept
<1>1. \A r \in Sandbox : r = s \/ DeletersOf(r) > 0 => DeletersOf(r)' > 0
    BY DeletionCounts
<1>2. \A r \in Sandbox : Busy(r)' => Busy(r) \/ r = s
    BY DEF DeletionOf, UpdateSandboxState, Busy, TypeOK, DBTypeOK
<1>3. \A r \in Sandbox : Busy(r)' => Busy(r) \/ Owned(r)'
    BY <1>1, <1>2 DEF Owned
<1> QED BY <1>1, <1>3 DEF OwnersKept, Up

\* A ticker that makes a row deleting starts the goroutine that deletes it.
LEMMA WorkerOwns ==
    ASSUME TypeOK, Scaler \/ Reaper \/ HealthChecker
    PROVE  OwnersKept
<1> USE DEF workerUnchanged
<1>1. CASE ScaleDownNext \/ ReapNext
    BY <1>1, DeletionOwns, DeletionCases DEF ScaleDownNext, ReapNext, TypeOK
<1>2. CASE HealthDelete
    BY <1>2, DeletionOwns, DeletionCases DEF HealthDelete, TypeOK
<1>3. CASE Scale \/ ScaleDownList \/ ReapStale \/ ReapFailed \/ HealthQuery \/ HealthGet
    BY <1>3, NothingBusier
       DEF Scale, ScaleDownList, ReapStale, ReapFailed, HealthQuery, HealthGet, Busy
<1> QED BY <1>1, <1>2, <1>3 DEF Scaler, Reaper, HealthChecker

\* A creator makes no row busy.
LEMMA CreatorOwns ==
    ASSUME TypeOK, NEW s \in Sandbox, Creator(s)
    PROVE  OwnersKept
<1>1. UNCHANGED <<bootVars, forgot, deleters, hpc, hsb>>
    BY DEF Creator, Create, CreateLost, InsertRow, MarkWarming, CreatorStart, StartDone,
           StartFails, RecordUnstarted, DropUnstarted, MakeAvailable, creatorUnchanged
<1>2. \A r \in Sandbox : Busy(r)' => Busy(r)
    BY DEF Creator, Create, CreateLost, InsertRow, MarkWarming, CreatorStart, StartDone,
           StartFails, RecordUnstarted, DropUnstarted, MakeAvailable, CreateSandbox,
           UpdateSandboxState, Busy, TypeOK, DBTypeOK
<1> QED BY <1>1, <1>2, NothingBusier

\* A handler owns the row it moves, or hands it to a deletion.
LEMMA HandlerOwns ==
    ASSUME TypeOK, UseInv, NEW e \in Exec, Handler(e)
    PROVE  OwnersKept
<1> USE DEF handlerUnchanged
<1>1. Up /\ hsb[e] \in Sandbox
    BY DEF Handler, VerifyClaim, RejectClaim, WakeDone, WakeFails, MarkExecuting, FinishExecute,
           UseInv, StartupAlone, HoldersHold
<1>2. CASE RejectClaim(e) \/ WakeFails(e) \/ FinishExecute(e)
    <2>1. \A f \in Exec : hpc[f] = "running" =>
              (hpc'[f] = "running" /\ hsb'[f] = hsb[f]) \/ hsb[f] = hsb[e]
        BY <1>2 DEF RejectClaim, WakeFails, FinishExecute, Retry, Finish, GoTo, TypeOK
    <2>2. DeletionOf(hsb[e]) /\ UNCHANGED <<bootVars, forgot>>
        BY <1>2, DeletionCases DEF RejectClaim, WakeFails, FinishExecute
    <2> QED BY <1>1, <2>1, <2>2, DeletionOwns
<1>3. CASE VerifyClaim(e) \/ WakeDone(e)
    <2>1. \A f \in Exec : hpc[f] = "running" => hpc'[f] = "running"
        BY <1>3 DEF VerifyClaim, WakeDone, GoTo, TypeOK
    <2> QED BY <1>3, <2>1 DEF VerifyClaim, WakeDone, OwnersKept, DeletersOf, Busy
<1>4. CASE MarkExecuting(e)
    <2>1. /\ hpc'[e] = "running" /\ UNCHANGED <<hsb, deleters, forgot, bootVars>>
          /\ \A f \in Exec : hpc[f] = "running" => hpc'[f] = "running"
        BY <1>4 DEF MarkExecuting, GoTo, TypeOK
    <2>2. \A r \in Sandbox : Busy(r)' => Busy(r) \/ r = hsb[e]
        BY <1>4 DEF MarkExecuting, UpdateSandboxState, Busy, TypeOK, DBTypeOK
    <2>3. \A r \in Sandbox : Busy(r)' => Busy(r) \/ Owned(r)'
        BY <2>1, <2>2 DEF Owned
    <2> QED BY <1>1, <2>1, <2>3 DEF OwnersKept, DeletersOf, Up
<1> QED BY <1>2, <1>3, <1>4 DEF Handler

\* A claim makes no row busy and takes none from its owner.
LEMMA ClaimOwns ==
    ASSUME TypeOK, NEW e \in Exec, ClaimFails(e) \/ \E s \in Sandbox : Claim(e, s)
    PROVE  OwnersKept
<1>1. UNCHANGED <<bootVars, forgot, deleters>>
    BY DEF ClaimFails, Claim, handlerUnchanged
<1>2. \A r \in Sandbox : Busy(r)' => Busy(r)
    BY DEF ClaimFails, Claim, ClaimAvailableSandbox, Busy, TypeOK, DBTypeOK
<1>3. \A f \in Exec : hpc[f] = "running" => hpc'[f] = "running" /\ hsb'[f] = hsb[f]
    BY DEF ClaimFails, Claim, Finish, GoTo, TypeOK
<1> QED BY <1>1, <1>2, <1>3 DEF OwnersKept, DeletersOf

\* Nor does the environment, crashes excepted.
LEMMA EnvironmentOwns ==
    ASSUME CreateFails \/ OutageBegins \/ OutageEnds
             \/ (\E s \in Sandbox : Time(s) \/ Cloud(s)) \/ \E e \in Exec : ClientLeaves(e)
    PROVE  OwnersKept
<1>1. UNCHANGED <<bootVars, forgot, deleters, hpc, hsb, state>>
    BY DEF CreateFails, OutageBegins, OutageEnds, Time, RowAges, Cloud, ClientLeaves,
           creatorUnchanged, processUnchanged
<1> QED BY <1>1, NothingBusier DEF Busy

\* A goroutine that ends records what became of the row, or forgets it.
LEMMA DeleterOwns ==
    ASSUME TypeOK, NEW s \in Sandbox, Deleter(s)
    PROVE  OwnersKept
<1>1. /\ UNCHANGED <<bootVars, hpc, hsb>>
      /\ \A r \in Sandbox : forgot[r] => forgot'[r]
    BY DEF Deleter, DeleteAndVerify, DeleteExpires, RecordDeleted, RecordFailed, Forget,
           deleterUnchanged, TypeOK
<1>2. \A r \in Sandbox : Busy(r)' => Busy(r)
    BY DEF Deleter, DeleteAndVerify, DeleteExpires, RecordDeleted, RecordFailed,
           UpdateSandboxState, Busy, TypeOK, DBTypeOK
<1>3. \A r \in Sandbox : DeletersOf(r) > 0 => DeletersOf(r)' > 0 \/ forgot'[r] \/ ~Busy(r)'
    <2>1. CASE DeleteAndVerify(s)
        BY <2>1, AdvanceCounts DEF DeleteAndVerify
    <2>2. CASE DeleteExpires(s) \/ RecordDeleted(s) \/ RecordFailed(s)
        <3>1. \A r \in Sandbox \ {s} : DeletersOf(r)' = DeletersOf(r)
            BY <2>2, RetireCounts DEF DeleteExpires, RecordDeleted, RecordFailed
        <3>2. forgot'[s] \/ ~Busy(s)'
            BY <2>2 DEF DeleteExpires, RecordDeleted, RecordFailed, Forget, UpdateSandboxState,
                        Busy, TypeOK, DBTypeOK
        <3> QED BY <3>1, <3>2
    <2> QED BY <2>1, <2>2 DEF Deleter
<1> QED BY <1>1, <1>2, <1>3 DEF OwnersKept

\* The startup pass takes over every busy row, deals with each or forgets it,
\* and imports nothing that has a busy row.
LEMMA BootOwned ==
    ASSUME TypeOK, OwnedInv, Boot
    PROVE  OwnedInv'
<1>1. UNCHANGED <<deleters, hpc, hsb>>
    BY DEF Boot, BootStart, CleanOrphan, DropOrphan, RecordOrphan, Reconcile, Adopt, BootDone,
           bootUnchanged
<1>2. CASE BootStart
    BY <1>1, <1>2 DEF BootStart, OrphanedSandboxes, ForgetAll, OwnedInv, Owned, Busy,
                      TypeOK, DBTypeOK
<1>7. ASSUME NEW s \in Sandbox, DropOrphan(s)
      PROVE  OwnedInv'
    BY <1>1, <1>7 DEF DropOrphan, OwnedInv, Owned, DeletersOf, Busy
<1>3. ASSUME NEW s \in Sandbox, RecordOrphan(s)
      PROVE  OwnedInv'
    <2>1. boot = "orphans" /\ boot' = "orphans" /\ todo' = todo \ {s}
        BY <1>3 DEF RecordOrphan
    <2>2. forgot'[s] \/ ~Busy(s)'
        BY <1>3 DEF RecordOrphan, Forget, UpdateSandboxState, Busy, TypeOK, DBTypeOK
    <2>3. \A r \in Sandbox \ {s} : (Busy(r)' => Busy(r)) /\ forgot'[r] = forgot[r]
        BY <1>3 DEF RecordOrphan, Forget, Remember, UpdateSandboxState, Busy, TypeOK, DBTypeOK
    <2> QED BY <1>1, <2>1, <2>2, <2>3 DEF OwnedInv, Owned, DeletersOf
<1>4. CASE Reconcile
    <2>1. /\ boot = "orphans" /\ todo = {} /\ boot' = "reconcile" /\ state' = state
          /\ \A r \in Sandbox : forgot[r] => forgot'[r]
        BY <1>4 DEF Reconcile, ForgetAll
    <2>2. \A r \in todo' : ~Busy(r)
        BY <1>4 DEF Reconcile, Untracked, KnownDaytonaIDs, Busy
    <2> QED BY <1>1, <2>1, <2>2 DEF OwnedInv, Owned, DeletersOf, Busy
<1>5. ASSUME NEW s \in Sandbox, Adopt(s)
      PROVE  OwnedInv'
    <2>1. boot = "reconcile" /\ boot' = "reconcile" /\ todo' = todo \ {s} /\ ~Busy(s)
        BY <1>5 DEF Adopt, OwnedInv
    <2>2. \A r \in Sandbox : Busy(r)' => Busy(r)
        BY <1>5 DEF Adopt, ImportSandbox, Busy, TypeOK, DBTypeOK
    <2>3. \A r \in Sandbox \ {s} : forgot'[r] = forgot[r]
        BY <1>5 DEF Adopt, Remember, Forget, TypeOK
    <2>4. ASSUME NEW r \in Sandbox, Busy(r)'
          PROVE  Owned(r)'
        <3>1. r \in Sandbox \ {s} /\ Busy(r) /\ Owned(r)
            BY <2>1, <2>2, <2>4 DEF OwnedInv
        <3> QED BY <1>1, <2>1, <2>3, <3>1 DEF Owned, DeletersOf
    <2>5. \A r \in todo' : ~Busy(r)'
        BY <2>1, <2>2 DEF OwnedInv, TypeOK
    <2> QED BY <2>4, <2>5 DEF OwnedInv
<1>6. CASE BootDone
    BY <1>1, <1>6 DEF BootDone, OwnedInv, Owned, DeletersOf, Busy
<1> QED BY <1>2, <1>3, <1>4, <1>5, <1>6, <1>7 DEF Boot, CleanOrphan

\* OwnedInv is inductive, given the types and UseInv.
LEMMA OwnedStep ==
    ASSUME TypeOK, UseInv, OwnedInv, [Next]_vars
    PROVE  OwnedInv'
<1>1. CASE UNCHANGED vars
    BY <1>1, NothingBusier, OwnersKeptStep DEF vars, Busy
<1>2. CASE Boot
    BY <1>2, BootOwned
<1>3. CASE Crash
    BY <1>3 DEF Crash, OwnedInv, Owned
<1>4. CASE Next /\ ~Boot /\ ~Crash
    BY <1>4, OwnersKeptStep, WorkerOwns, CreatorOwns, HandlerOwns, ClaimOwns, DeleterOwns,
       EnvironmentOwns DEF Next
<1> QED BY <1>1, <1>2, <1>3, <1>4

\* A row that no ticker looks at has a handler or a deletion at work on it, or
\* waits for a startup because a write failed (DeleteSandbox, cleanupOrphans).
THEOREM BusyIsOwnedHolds == Spec => []BusyIsOwned
<1>1. Init => TypeOK /\ UseInv /\ OwnedInv
    BY TypeInit, UseInit DEF Init, DBInit, OwnedInv, Busy
<1>2. TypeOK /\ UseInv /\ OwnedInv /\ [Next]_vars => (TypeOK /\ UseInv /\ OwnedInv)'
    BY TypeStep, UseStep, OwnedStep DEF UseInv
<1>3. OwnedInv => BusyIsOwned
    BY DEF OwnedInv, Owned, Busy, BusyIsOwned, Up
<1> QED BY <1>1, <1>2, <1>3, PTL DEF Spec

-----------------------------------------------------------------------------
(* Claimed rows are held, as long as no call has failed.                   *)

Quiet == outages = 0

Unbroken == outage = {} /\ \A e \in Exec : ~gone[e]

Held(s) == \E e \in Exec : hpc[e] \in Holding /\ hsb[e] = s

\* The second part says who deals with the rows a crash left claimed.
HeldInv ==
    Quiet =>
      /\ Unbroken
      /\ \A s \in Sandbox : state[s] = "claimed" =>
             Held(s) \/ boot = "down" \/ (boot = "orphans" /\ s \in todo)

\* What a step does that lets go of no claimed row and claims none.
ClaimsKept ==
    /\ UNCHANGED <<boot, todo, outage, outages>>
    /\ \A e \in Exec : gone'[e] => gone[e]
    /\ \A s \in Sandbox : state'[s] = "claimed" => state[s] = "claimed" /\ (Held(s) => Held(s)')

\* Such a step keeps the invariant.
LEMMA ClaimsKeptStep ==
    ASSUME HeldInv, ClaimsKept
    PROVE  HeldInv'
BY DEF HeldInv, ClaimsKept, Quiet, Unbroken

\* A step that leaves the handlers alone, and what they hold.
LEMMA HandlersAlone ==
    ASSUME UNCHANGED <<boot, todo, outage, outages, gone, hpc, hsb>>,
           \A s \in Sandbox : state'[s] = "claimed" => state[s] = "claimed"
    PROVE  ClaimsKept
BY DEF ClaimsKept, Held

\* Only ClaimAvailableSandbox writes "claimed": tickers, creators and deletions do not.
LEMMA OthersClaimNothing ==
    ASSUME TypeOK,
           \/ Scaler \/ Reaper \/ HealthChecker \/ CreateFails
           \/ \E s \in Sandbox : Creator(s) \/ Deleter(s) \/ Time(s) \/ Cloud(s)
    PROVE  ClaimsKept
<1>1. CASE Scaler \/ Reaper \/ HealthChecker
    <2>1. UNCHANGED <<boot, todo, outage, outages, gone, hpc, hsb>>
        BY <1>1 DEF Scaler, Scale, ScaleDownList, ScaleDownNext, Reaper, ReapStale, ReapFailed,
                    ReapNext, HealthChecker, HealthQuery, HealthGet, HealthDelete, workerUnchanged
    <2>2. \A s \in Sandbox : state'[s] = "claimed" => state[s] = "claimed"
        BY <1>1 DEF Scaler, Scale, ScaleDownList, ScaleDownNext, Reaper, ReapStale, ReapFailed,
                    ReapNext, HealthChecker, HealthQuery, HealthGet, HealthDelete, DeleteSandbox,
                    UpdateSandboxState, TypeOK, DBTypeOK
    <2> QED BY <2>1, <2>2, HandlersAlone
<1>2. ASSUME NEW s \in Sandbox, Creator(s)
      PROVE  ClaimsKept
    <2>1. UNCHANGED <<boot, todo, outage, outages, gone, hpc, hsb>>
        BY <1>2 DEF Creator, Create, CreateLost, InsertRow, MarkWarming, CreatorStart, StartDone,
                    StartFails, RecordUnstarted, DropUnstarted, MakeAvailable, creatorUnchanged
    <2>2. \A r \in Sandbox : state'[r] = "claimed" => state[r] = "claimed"
        BY <1>2 DEF Creator, Create, CreateLost, InsertRow, MarkWarming, CreatorStart, StartDone,
                    StartFails, RecordUnstarted, DropUnstarted, MakeAvailable, CreateSandbox,
                    UpdateSandboxState, TypeOK, DBTypeOK
    <2> QED BY <2>1, <2>2, HandlersAlone
<1>3. ASSUME NEW s \in Sandbox, Deleter(s)
      PROVE  ClaimsKept
    <2>1. UNCHANGED <<boot, todo, outage, outages, gone, hpc, hsb>>
        BY <1>3 DEF Deleter, DeleteAndVerify, DeleteExpires, RecordDeleted, RecordFailed,
                    deleterUnchanged
    <2>2. \A r \in Sandbox : state'[r] = "claimed" => state[r] = "claimed"
        BY <1>3 DEF Deleter, DeleteAndVerify, DeleteExpires, RecordDeleted, RecordFailed,
                    UpdateSandboxState, TypeOK, DBTypeOK
    <2> QED BY <2>1, <2>2, HandlersAlone
<1>4. CASE CreateFails \/ \E s \in Sandbox : Time(s) \/ Cloud(s)
    BY <1>4, HandlersAlone
       DEF CreateFails, Time, RowAges, Cloud, creatorUnchanged, processUnchanged
<1> QED BY <1>1, <1>2, <1>3, <1>4

\* A handler lets go of a sandbox only when it has marked its row deleting.
LEMMA HandlerLetsGo ==
    ASSUME TypeOK, UseInv, HeldInv, Quiet, NEW e \in Exec, Handler(e)
    PROVE  ClaimsKept
<1> USE DEF handlerUnchanged
<1>1. ~Broken(e, "db") /\ hsb[e] \in Sandbox
    BY DEF HeldInv, Unbroken, Broken, Fault, UseInv, HoldersHold, Handler, VerifyClaim, RejectClaim,
           WakeDone, WakeFails, MarkExecuting, FinishExecute
<1>2. UNCHANGED <<boot, todo, outage, outages>>
    BY DEF Handler, VerifyClaim, RejectClaim, WakeDone, WakeFails, MarkExecuting, FinishExecute
<1>3. CASE RejectClaim(e) \/ WakeFails(e) \/ FinishExecute(e)
    <2>1. UpdateSandboxState(hsb[e], "deleting")
        BY <1>1, <1>3 DEF RejectClaim, WakeFails, FinishExecute, DeleteClaimed
    <2>2. \A s \in Sandbox : state'[s] = "claimed" => state[s] = "claimed" /\ s # hsb[e]
        BY <1>1, <2>1 DEF UpdateSandboxState, TypeOK, DBTypeOK
    <2>3. \A f \in Exec \ {e} : hpc'[f] = hpc[f] /\ hsb'[f] = hsb[f]
        BY <1>3 DEF RejectClaim, WakeFails, FinishExecute, Retry, Finish, GoTo, TypeOK
    <2>4. \A f \in Exec : gone'[f] => gone[f]
        BY <1>3 DEF RejectClaim, WakeFails, FinishExecute, Retry, Finish, TypeOK
    <2>5. \A s \in Sandbox \ {hsb[e]} : Held(s) => Held(s)'
        BY <2>3 DEF Held
    <2> QED BY <1>2, <2>2, <2>4, <2>5 DEF ClaimsKept
<1>4. CASE VerifyClaim(e) \/ WakeDone(e) \/ MarkExecuting(e)
    <2>1. UNCHANGED <<hsb, gone>> /\ \A s \in Sandbox : state'[s] = "claimed" => state[s] = "claimed"
        BY <1>4 DEF VerifyClaim, WakeDone, MarkExecuting, UpdateSandboxState, TypeOK, DBTypeOK
    <2>2. \A f \in Exec : hpc[f] \in Holding => hpc'[f] \in Holding
        BY <1>4 DEF VerifyClaim, WakeDone, MarkExecuting, GoTo, TypeOK
    <2> QED BY <1>2, <2>1, <2>2 DEF ClaimsKept, Held
<1> QED BY <1>3, <1>4 DEF Handler

\* A claim whose answer arrives is held by the one who made it.
LEMMA ClaimHeld ==
    ASSUME TypeOK, HeldInv, Quiet, NEW e \in Exec, ClaimFails(e) \/ \E s \in Sandbox : Claim(e, s)
    PROVE  HeldInv'
<1> USE DEF handlerUnchanged
<1>1. ~Broken(e, "db") /\ Unbroken
    BY DEF HeldInv, Unbroken, Broken, Fault
<1>2. UNCHANGED <<boot, todo, outage, outages>> /\ hpc[e] \notin Holding
    BY DEF ClaimFails, Claim
<1>3. \A f \in Exec \ {e} : hpc'[f] = hpc[f] /\ hsb'[f] = hsb[f]
    BY DEF ClaimFails, Claim, Finish, GoTo, TypeOK
<1>4. \A s \in Sandbox : Held(s) => Held(s)'
    BY <1>2, <1>3 DEF Held
<1>5. Unbroken'
    BY <1>1, <1>2 DEF ClaimFails, Claim, Finish, Unbroken, TypeOK
<1>6. ASSUME NEW s \in Sandbox, Claim(e, s)
      PROVE  HeldInv'
    <2>1. hpc'[e] \in Holding /\ hsb'[e] = s
        BY <1>1, <1>6 DEF Claim, GoTo, TypeOK
    <2>2. Held(s)'
        BY <2>1 DEF Held
    <2>3. \A r \in Sandbox \ {s} : state'[r] = state[r]
        BY <1>6 DEF Claim, ClaimAvailableSandbox, TypeOK, DBTypeOK
    <2> QED BY <1>2, <1>4, <1>5, <2>2, <2>3 DEF HeldInv
<1>7. CASE ClaimFails(e)
    BY <1>2, <1>4, <1>5, <1>7 DEF ClaimFails, HeldInv
<1> QED BY <1>6, <1>7

\* The startup finds every claimed row, marks it deleted, and claims none.
LEMMA BootFreesClaims ==
    ASSUME TypeOK, HeldInv, Quiet, Boot
    PROVE  HeldInv'
<1>1. UNCHANGED <<hpc, hsb, gone, outage, outages>>
    BY DEF Boot, BootStart, CleanOrphan, DropOrphan, RecordOrphan, Reconcile, Adopt, BootDone,
           bootUnchanged
<1>2. Unbroken /\ Unbroken' /\ \A kind : ~Fault(kind)
    BY <1>1 DEF HeldInv, Unbroken, Fault
<1>3. \A s \in Sandbox : Held(s) => Held(s)'
    BY <1>1 DEF Held
<1>4. CASE BootStart
    BY <1>2, <1>4 DEF BootStart, OrphanedSandboxes, HeldInv
<1>8. ASSUME NEW s \in Sandbox, DropOrphan(s)
      PROVE  HeldInv'
    BY <1>2, <1>3, <1>8 DEF DropOrphan, HeldInv
<1>5. ASSUME NEW s \in Sandbox, RecordOrphan(s)
      PROVE  HeldInv'
    <2>1. boot = "orphans" /\ boot' = "orphans" /\ todo' = todo \ {s}
        BY <1>5 DEF RecordOrphan
    <2>2. UpdateSandboxState(s, "deleted")
        BY <1>2, <1>5 DEF RecordOrphan
    <2>3. /\ state'[s] # "claimed"
          /\ \A r \in Sandbox \ {s} : state'[r] = state[r]
        BY <2>2 DEF UpdateSandboxState, TypeOK, DBTypeOK
    <2> QED BY <1>2, <1>3, <2>1, <2>3 DEF HeldInv
<1>6. CASE Reconcile \/ BootDone
    BY <1>2, <1>3, <1>6 DEF Reconcile, BootDone, HeldInv
<1>7. ASSUME NEW s \in Sandbox, Adopt(s)
      PROVE  HeldInv'
    <2>1. boot = "reconcile" /\ boot' = "reconcile"
        BY <1>7 DEF Adopt
    <2>2. \A r \in Sandbox : state'[r] = "claimed" => state[r] = "claimed"
        BY <1>7 DEF Adopt, ImportSandbox, TypeOK, DBTypeOK
    <2> QED BY <1>2, <1>3, <2>1, <2>2 DEF HeldInv
<1> QED BY <1>4, <1>5, <1>6, <1>7, <1>8 DEF Boot, CleanOrphan

\* HeldInv is inductive, given the types and UseInv.
LEMMA HeldStep ==
    ASSUME TypeOK, UseInv, HeldInv, [Next]_vars
    PROVE  HeldInv'
<1>1. CASE UNCHANGED vars
    BY <1>1, HandlersAlone, ClaimsKeptStep DEF vars
<1>2. CASE Crash
    BY <1>2 DEF Crash, HeldInv, Quiet, Unbroken
<1>3. CASE OutageBegins \/ \E e \in Exec : ClientLeaves(e)
    BY <1>3 DEF OutageBegins, ClientLeaves, HeldInv, Quiet, TypeOK
<1>4. CASE OutageEnds
    BY <1>4 DEF OutageEnds, HeldInv, Quiet, Unbroken, Held, processUnchanged
<1>5. CASE \/ Scaler \/ Reaper \/ HealthChecker \/ CreateFails
           \/ \E s \in Sandbox : Creator(s) \/ Deleter(s) \/ Time(s) \/ Cloud(s)
    BY <1>5, OthersClaimNothing, ClaimsKeptStep
<1>6. CASE \/ Boot
           \/ \E e \in Exec : Handler(e) \/ ClaimFails(e) \/ \E s \in Sandbox : Claim(e, s)
    <2>1. CASE ~Quiet
        <3>1. UNCHANGED outages
            BY <1>6 DEF Boot, BootStart, CleanOrphan, DropOrphan, RecordOrphan, Reconcile, Adopt,
                        BootDone, bootUnchanged,
                        Handler, VerifyClaim, RejectClaim, WakeDone, WakeFails, MarkExecuting,
                        FinishExecute, ClaimFails, Claim, handlerUnchanged
        <3> QED BY <2>1, <3>1 DEF Quiet, HeldInv
    <2>2. CASE Quiet
        BY <1>6, <2>2, BootFreesClaims, HandlerLetsGo, ClaimHeld, ClaimsKeptStep
    <2> QED BY <2>1, <2>2
<1> QED BY <1>1, <1>2, <1>3, <1>4, <1>5, <1>6 DEF Next

\* Whatever ClaimSandbox claims it hands on or deletes: as long as no call has
\* failed, a claimed row has its handler, through crashes and restarts too.
THEOREM ClaimedIsHeldHolds == Spec => []ClaimedIsHeld
<1>1. Init => TypeOK /\ UseInv /\ HeldInv
    BY TypeInit, UseInit DEF Init, DBInit, HeldInv, Unbroken
<1>2. TypeOK /\ UseInv /\ HeldInv /\ [Next]_vars => (TypeOK /\ UseInv /\ HeldInv)'
    BY TypeStep, UseStep, HeldStep DEF UseInv
<1>3. HeldInv => ClaimedIsHeld
    BY DEF HeldInv, Held, Holds, ClaimedIsHeld, Quiet, Up
<1> QED BY <1>1, <1>2, <1>3, PTL DEF Spec

-----------------------------------------------------------------------------
(* The startup accounts for what Daytona still runs.                       *)

\* While reconcileWithDaytona works through its list, what is neither in the
\* table nor given up is still on the list.
TrackInv ==
    boot = "reconcile" => \A s \in Sandbox :
        Live(s) => s \in KnownDaytonaIDs \/ forgot[s] \/ leaked[s] \/ s \in todo

\* A step that takes nothing off the list and makes no sandbox live or unknown.
TrackKept ==
    /\ UNCHANGED <<boot, todo, leaked>>
    /\ \A s \in Sandbox : (Live(s)' => Live(s)) /\ (forgot[s] => forgot'[s])
    /\ \A s \in Sandbox :
          s \in KnownDaytonaIDs => s \in KnownDaytonaIDs' \/ remote'[s] = "gone"

\* Such a step keeps the invariant.
LEMMA TrackKeptStep ==
    ASSUME TrackInv, TrackKept
    PROVE  TrackInv'
BY DEF TrackInv, TrackKept, Live

\* During the startup the tickers, the creators and the handlers do nothing.
LEMMA NobodyElse ==
    ASSUME UseInv, ~Up
    PROVE  /\ ~(Scaler \/ Reaper \/ HealthChecker)
           /\ \A s \in Sandbox : ~Creator(s)
           /\ \A e \in Exec : ~Handler(e) /\ ~ClaimFails(e) /\ \A s \in Sandbox : ~Claim(e, s)
<1>1. ~(Scaler \/ Reaper \/ HealthChecker)
    BY DEF Scaler, Scale, ScaleDownList, ScaleDownNext, Reaper, ReapStale, ReapFailed, ReapNext,
           HealthChecker, HealthQuery, HealthGet, HealthDelete
<1>2. \A s \in Sandbox : ~Creator(s)
    BY DEF UseInv, StartupAlone, Creator, Create, CreateLost, InsertRow, MarkWarming, CreatorStart,
           StartDone, StartFails, RecordUnstarted, DropUnstarted, MakeAvailable
<1>3. \A e \in Exec : ~Handler(e)
    BY DEF UseInv, StartupAlone, Holding, Handler, VerifyClaim, RejectClaim, WakeDone, WakeFails,
           MarkExecuting, FinishExecute
<1>4. \A e \in Exec : ~ClaimFails(e) /\ \A s \in Sandbox : ~Claim(e, s)
    BY DEF ClaimFails, Claim
<1> QED BY <1>1, <1>2, <1>3, <1>4

\* A deletion left over takes a row off the table only when its sandbox is gone.
LEMMA DeleterTracks ==
    ASSUME TypeOK, DestroyInv, NEW s \in Sandbox, Deleter(s)
    PROVE  TrackKept
<1> USE DEF TypeOK, DBTypeOK, RemoteTypeOK
<1>1. UNCHANGED <<boot, todo, leaked>>
    BY DEF Deleter, DeleteAndVerify, DeleteExpires, RecordDeleted, RecordFailed, deleterUnchanged
<1>2. \A r \in Sandbox : (Live(r)' => Live(r)) /\ (forgot[r] => forgot'[r])
    BY DEF Deleter, DeleteAndVerify, DeleteExpires, RecordDeleted, RecordFailed, DeleteRemote,
           DeleteRemoteUnanswered, Forget, Live
<1>3. ASSUME NEW r \in Sandbox, r \in KnownDaytonaIDs
      PROVE  r \in KnownDaytonaIDs' \/ remote'[r] = "gone"
    <2>1. CASE DeleteAndVerify(s) \/ DeleteExpires(s)
        BY <1>3, <2>1 DEF DeleteAndVerify, DeleteExpires, KnownDaytonaIDs
    <2>2. CASE RecordDeleted(s)
        <3>1. remote[s] = "gone"
            BY <2>2 DEF RecordDeleted, Retire, DestroyInv, VerifiedIsGone
        <3> QED BY <1>3, <2>2, <3>1 DEF RecordDeleted, UpdateSandboxState, KnownDaytonaIDs
    <2>3. CASE RecordFailed(s)
        BY <1>3, <2>3 DEF RecordFailed, UpdateSandboxState, KnownDaytonaIDs
    <2> QED BY <2>1, <2>2, <2>3 DEF Deleter
<1> QED BY <1>1, <1>2, <1>3 DEF TrackKept

\* Time, the service and the environment take nothing off the table.
LEMMA EnvironmentTracks ==
    ASSUME TypeOK,
           \/ CreateFails \/ OutageBegins \/ OutageEnds
           \/ \E s \in Sandbox : Time(s) \/ Cloud(s)
           \/ \E e \in Exec : ClientLeaves(e)
    PROVE  TrackKept
<1>1. UNCHANGED <<boot, todo, forgot, leaked, state>>
    BY DEF CreateFails, OutageBegins, OutageEnds, Time, RowAges, Cloud, ClientLeaves,
           creatorUnchanged, processUnchanged
<1>2. \A r \in Sandbox : Live(r)' => Live(r)
    BY DEF CreateFails, OutageBegins, OutageEnds, Time, Cloud, ClientLeaves, RemoteStarts,
           RemoteAutoStops, RemoteBreaks, Live, TypeOK, RemoteTypeOK
<1> QED BY <1>1, <1>2 DEF TrackKept, KnownDaytonaIDs

\* A sandbox leaves the list by a row, by a deletion, or by a call that failed;
\* a row that was there before says "deleted" only of what is gone or leaked.
LEMMA AdoptTracks ==
    ASSUME TypeOK, DestroyInv, TrackInv, NEW s \in Sandbox, Adopt(s)
    PROVE  TrackInv'
<1> USE DEF TypeOK, DBTypeOK, RemoteTypeOK
<1>1. boot = "reconcile" /\ todo' = todo \ {s} /\ leaked' = leaked
    BY DEF Adopt
<1>2. \A r \in Sandbox : s # r =>
          state'[r] = state[r] /\ remote'[r] = remote[r] /\ forgot'[r] = forgot[r]
    BY DEF Adopt, ImportSandbox, Remember, Forget, DeleteRemote
<1>3. Live(s)' => s \in KnownDaytonaIDs' \/ forgot'[s] \/ leaked'[s]
    <2>1. CASE s \in seen /\ ImportSandbox(s) /\ UNCHANGED <<remote, leaked>>
        BY <2>1 DEF ImportSandbox, HasRow, KnownDaytonaIDs, DestroyInv, DeletedIsGone, Live
    <2>2. CASE Forget(s)
        BY <2>2 DEF Forget
    <2>3. CASE DeleteRemote(s)
        BY <2>3 DEF DeleteRemote, Live
    <2> QED BY <2>1, <2>2, <2>3 DEF Adopt
<1> QED BY <1>1, <1>2, <1>3 DEF TrackInv, Live, KnownDaytonaIDs

\* TrackInv is inductive, given the invariants it rests on.
LEMMA TrackStep ==
    ASSUME TypeOK, UseInv, DestroyInv, TrackInv, [Next]_vars
    PROVE  TrackInv'
<1>1. CASE UNCHANGED vars
    BY <1>1 DEF vars, dbVars, bootVars, ghostVars, TrackInv, Live, KnownDaytonaIDs
<1>2. CASE Reconcile
    BY <1>2 DEF Reconcile, Untracked, ForgetAll, TrackInv, Live, KnownDaytonaIDs
<1>3. CASE BootStart \/ BootDone \/ Crash \/ \E s \in Sandbox : CleanOrphan(s)
    BY <1>3 DEF BootStart, BootDone, Crash, CleanOrphan, DropOrphan, RecordOrphan, TrackInv
<1>4. CASE \E s \in Sandbox : Adopt(s)
    BY <1>4, AdoptTracks
<1>5. CASE \/ CreateFails \/ OutageBegins \/ OutageEnds
           \/ \E s \in Sandbox : Deleter(s) \/ Time(s) \/ Cloud(s)
           \/ \E e \in Exec : ClientLeaves(e)
    BY <1>5, DeleterTracks, EnvironmentTracks, TrackKeptStep
<1>6. CASE \/ Scaler \/ Reaper \/ HealthChecker \/ \E s \in Sandbox : Creator(s)
           \/ \E e \in Exec : Handler(e) \/ ClaimFails(e) \/ \E s \in Sandbox : Claim(e, s)
    <2>1. Up
        BY <1>6, NobodyElse
    <2>2. boot' = boot
        BY <1>6 DEF Scaler, Scale, ScaleDownList, ScaleDownNext, Reaper, ReapStale, ReapFailed,
                    ReapNext, HealthChecker, HealthQuery, HealthGet, HealthDelete, workerUnchanged,
                    Creator, Create, CreateLost, InsertRow, MarkWarming, CreatorStart, StartDone,
                    StartFails, RecordUnstarted, DropUnstarted, MakeAvailable, creatorUnchanged,
                    Handler, VerifyClaim, RejectClaim,
                    WakeDone, WakeFails, MarkExecuting, FinishExecute, ClaimFails, Claim,
                    handlerUnchanged
    <2> QED BY <2>1, <2>2 DEF Up, TrackInv
<1> QED BY <1>1, <1>2, <1>3, <1>4, <1>5, <1>6 DEF Next, Boot

\* The last step of the startup finds its list empty.
LEMMA StartReturns ==
    ASSUME TrackInv, UseInv, [Next]_vars, boot = "reconcile", boot' = "running"
    PROVE  Accounted'
<1>1. BootDone
    <2>1. ~Up /\ boot' # boot
        BY DEF Up
    <2>2. CASE \/ CreateFails \/ OutageBegins \/ OutageEnds
               \/ \E s \in Sandbox : Deleter(s) \/ Time(s) \/ Cloud(s)
               \/ \E e \in Exec : ClientLeaves(e)
        BY <2>1, <2>2 DEF CreateFails, OutageBegins, OutageEnds, Deleter, DeleteAndVerify,
           DeleteExpires, RecordDeleted, RecordFailed, deleterUnchanged, Time, Cloud, ClientLeaves,
           creatorUnchanged, processUnchanged
    <2>3. CASE Crash \/ BootStart \/ Reconcile \/ \E s \in Sandbox : CleanOrphan(s) \/ Adopt(s)
        BY <2>3 DEF Crash, BootStart, Reconcile, CleanOrphan, DropOrphan, RecordOrphan, Adopt
    <2> QED BY <2>1, <2>2, <2>3, NobodyElse DEF Next, Boot, vars, bootVars
<1> QED BY <1>1 DEF BootDone, TrackInv, Accounted, Live, KnownDaytonaIDs

\* When Start returns, every sandbox Daytona still runs has a row, or a call
\* failed that should have given it one (reconcileWithDaytona).
THEOREM ReconcileTracksHolds == Spec => ReconcileTracks
<1>1. Init => TypeOK /\ UseInv /\ DestroyInv /\ TrackInv
    BY TypeInit, UseInit
       DEF Init, DBInit, DestroyInv, DeletedIsGone, VerifiedIsGone, TrackInv
<1>2. TypeOK /\ UseInv /\ DestroyInv /\ TrackInv /\ [Next]_vars
          => (TypeOK /\ UseInv /\ DestroyInv /\ TrackInv)'
    BY TypeStep, UseStep, DestroyStep, TrackStep DEF UseInv
<1>3. UseInv /\ TrackInv /\ [Next]_vars
          => [boot = "reconcile" /\ boot' = "running" => Accounted']_vars
    BY StartReturns
<1> QED BY <1>1, <1>2, <1>3, PTL DEF Spec, ReconcileTracks

-----------------------------------------------------------------------------
(* cleanupOrphans leaves no row of an earlier life at work.                *)

Settled(s) == state[s] \in {"none", "available", "deleted"}

\* No goroutine of an earlier life deletes anything during a startup; what
\* the pass has not dealt with yet is on its list; and what reconciliation
\* takes up, and may stop calling forgotten, was settled before.
CleanInv ==
    /\ ~Up => \A s \in Sandbox, d \in DeleterStage : deleters[s][d] = 0
    /\ boot = "orphans" => \A s \in Sandbox : Settled(s) \/ forgot[s] \/ s \in todo
    /\ boot = "reconcile" => \A s \in Sandbox : Settled(s) \/ forgot[s]
    /\ boot = "reconcile" => \A s \in todo : Settled(s)

\* With no deletion in progress none takes a step.
LEMMA NoDeleter ==
    ASSUME CleanInv, ~Up, NEW s \in Sandbox
    PROVE  ~Deleter(s)
BY DEF CleanInv, Deleter, DeleteAndVerify, DeleteExpires, RecordDeleted, RecordFailed, Advance,
       Retire

\* The environment settles nothing and unsettles nothing.
LEMMA EnvironmentClean ==
    ASSUME CleanInv,
           \/ CreateFails \/ OutageBegins \/ OutageEnds
           \/ \E s \in Sandbox : Time(s) \/ Cloud(s)
           \/ \E e \in Exec : ClientLeaves(e)
    PROVE  CleanInv'
<1>1. UNCHANGED <<bootVars, forgot, state, deleters>>
    BY DEF CreateFails, OutageBegins, OutageEnds, Time, RowAges, Cloud, ClientLeaves,
           creatorUnchanged, processUnchanged
<1> QED BY <1>1 DEF CleanInv, Settled, Up

\* The startup takes every row at work on its list, and off it only when the
\* row says "deleted" or the statement failed.
LEMMA BootCleans ==
    ASSUME TypeOK, CleanInv, Boot
    PROVE  CleanInv'
<1> USE DEF TypeOK, DBTypeOK
<1>0. deleters' = deleters
    BY DEF Boot, BootStart, CleanOrphan, DropOrphan, RecordOrphan, Reconcile, Adopt, BootDone,
           bootUnchanged
<1>1. ~Up /\ \A s \in Sandbox, d \in DeleterStage : deleters[s][d] = 0
    BY DEF Boot, BootStart, CleanOrphan, DropOrphan, RecordOrphan, Reconcile, Adopt, BootDone,
           CleanInv, Up
<1>2. CASE BootStart
    BY <1>0, <1>1, <1>2 DEF BootStart, OrphanedSandboxes, ForgetAll, CleanInv, Settled
<1>7. ASSUME NEW s \in Sandbox, DropOrphan(s)
      PROVE  CleanInv'
    BY <1>0, <1>1, <1>7 DEF DropOrphan, CleanInv, Settled
<1>3. ASSUME NEW s \in Sandbox, RecordOrphan(s)
      PROVE  CleanInv'
    <2>1. boot = "orphans" /\ boot' = "orphans" /\ todo' = todo \ {s}
        BY <1>3 DEF RecordOrphan
    <2>2. Settled(s)' \/ forgot'[s]
        BY <1>3 DEF RecordOrphan, Forget, UpdateSandboxState, Settled
    <2>3. \A r \in Sandbox \ {s} : state'[r] = state[r] /\ forgot'[r] = forgot[r]
        BY <1>3 DEF RecordOrphan, Forget, Remember, UpdateSandboxState
    <2> QED BY <1>0, <1>1, <2>1, <2>2, <2>3 DEF CleanInv, Settled
<1>4. CASE Reconcile
    <2>1. /\ boot = "orphans" /\ todo = {} /\ boot' = "reconcile" /\ state' = state
          /\ \A r \in Sandbox : forgot[r] => forgot'[r]
        BY <1>4 DEF Reconcile, ForgetAll
    <2>2. \A r \in todo' : Settled(r)
        BY <1>4 DEF Reconcile, Untracked, KnownDaytonaIDs, Settled
    <2> QED BY <1>0, <1>1, <2>1, <2>2 DEF CleanInv, Settled
<1>5. ASSUME NEW s \in Sandbox, Adopt(s)
      PROVE  CleanInv'
    <2>1. boot = "reconcile" /\ boot' = "reconcile" /\ todo' = todo \ {s} /\ Settled(s)
        BY <1>5 DEF Adopt, CleanInv
    <2>2. Settled(s)'
        BY <1>5, <2>1 DEF Adopt, ImportSandbox, Settled
    <2>3. \A r \in Sandbox \ {s} : state'[r] = state[r] /\ forgot'[r] = forgot[r]
        BY <1>5 DEF Adopt, ImportSandbox, Forget, Remember
    <2> QED BY <1>0, <1>1, <2>1, <2>2, <2>3 DEF CleanInv, Settled
<1>6. CASE BootDone
    BY <1>6 DEF BootDone, CleanInv, Up
<1> QED BY <1>2, <1>3, <1>4, <1>5, <1>6, <1>7 DEF Boot, CleanOrphan

\* CleanInv is inductive, given UseInv: nobody else is up during the startup.
LEMMA CleanStep ==
    ASSUME TypeOK, UseInv, CleanInv, [Next]_vars
    PROVE  CleanInv'
<1>1. CASE UNCHANGED vars
    BY <1>1 DEF vars, CleanInv, Settled, Up
<1>2. CASE Boot
    BY <1>2, BootCleans
<1>3. CASE Crash
    BY <1>3 DEF Crash, CleanInv
<1>4. CASE \/ CreateFails \/ OutageBegins \/ OutageEnds
           \/ \E s \in Sandbox : Time(s) \/ Cloud(s)
           \/ \E e \in Exec : ClientLeaves(e)
    BY <1>4, EnvironmentClean
<1>5. CASE \/ Scaler \/ Reaper \/ HealthChecker
           \/ \E s \in Sandbox : Creator(s) \/ Deleter(s)
           \/ \E e \in Exec : Handler(e) \/ ClaimFails(e) \/ \E s \in Sandbox : Claim(e, s)
    <2>1. Up
        BY <1>5, NobodyElse, NoDeleter
    <2>2. boot' = boot
        BY <1>5 DEF Scaler, Scale, ScaleDownList, ScaleDownNext, Reaper, ReapStale, ReapFailed,
                    ReapNext, HealthChecker, HealthQuery, HealthGet, HealthDelete, workerUnchanged,
                    Creator, Create, CreateLost, InsertRow, MarkWarming, CreatorStart, StartDone,
                    StartFails, RecordUnstarted, DropUnstarted, MakeAvailable, creatorUnchanged,
                    Deleter, DeleteAndVerify,
                    DeleteExpires, RecordDeleted, RecordFailed, deleterUnchanged,
                    Handler, VerifyClaim, RejectClaim, WakeDone, WakeFails, MarkExecuting,
                    FinishExecute, ClaimFails, Claim, handlerUnchanged
    <2> QED BY <2>1, <2>2 DEF Up, CleanInv
<1> QED BY <1>1, <1>2, <1>3, <1>4, <1>5 DEF Next

\* When cleanupOrphans returns, every row that some life was at work on says
\* "deleted", however often the pass itself was cut off by a crash, except the
\* rows a failed statement gave up on (manager.go cleanupOrphans).
THEOREM StartupCleansHolds == Spec => []StartupCleans
<1>1. Init => TypeOK /\ UseInv /\ CleanInv
    BY TypeInit, UseInit DEF Init, CleanInv
<1>2. TypeOK /\ UseInv /\ CleanInv /\ [Next]_vars => (TypeOK /\ UseInv /\ CleanInv)'
    BY TypeStep, UseStep, CleanStep DEF UseInv
<1>3. CleanInv => StartupCleans
    BY DEF CleanInv, Settled, StartupCleans
<1> QED BY <1>1, <1>2, <1>3, PTL DEF Spec

-----------------------------------------------------------------------------
(* Used sandboxes are attended to.                                         *)

\* The safety half of "single-use and destroyed after execution": while the
\* process is up, a sandbox that was ever claimed is destroyed, or is in the
\* hands of the request that claimed it, or is being deleted, or its row is in
\* a state GetStaleSandboxes or GetFailedSandboxes returns, or it is one of
\* those the code leaves to a later startup or to nobody.
THEOREM UsedIsAttended ==
    Spec => [](Up => \A s \in Sandbox : claimedBy[s] # NoExec =>
                  \/ remote[s] = "gone" \/ DeletersOf(s) > 0
                  \/ Holds(claimedBy[s], s)
                  \/ state[s] \in {"claimed", "failed"}
                  \/ forgot[s] \/ leaked[s])
<1> DEFINE Attended(s) == \/ remote[s] = "gone" \/ DeletersOf(s) > 0
                          \/ Holds(claimedBy[s], s)
                          \/ state[s] \in {"claimed", "failed"}
                          \/ forgot[s] \/ leaked[s]
<1>1. TypeOK /\ HolderOwns /\ NeverReused /\ BusyIsOwned /\ DeletedIsGone
          => (Up => \A s \in Sandbox : claimedBy[s] # NoExec => Attended(s))
    <2> SUFFICES ASSUME TypeOK, HolderOwns, NeverReused, BusyIsOwned, DeletedIsGone, Up,
                        NEW s \in Sandbox, claimedBy[s] # NoExec
                 PROVE  Attended(s)
        OBVIOUS
    <2>1. state[s] \in {"claimed", "executing", "deleting", "deleted", "failed"}
        BY DEF NeverReused, TypeOK, DBTypeOK, SandboxState
    <2>2. CASE state[s] = "deleted"
        BY <2>2 DEF DeletedIsGone
    <2>3. CASE state[s] \in {"executing", "deleting"}
        BY <2>3 DEF BusyIsOwned, HolderOwns, Holds
    <2> QED BY <2>1, <2>2, <2>3
<1> HIDE DEF Attended
<1>2. Spec => [](Up => \A s \in Sandbox : claimedBy[s] # NoExec => Attended(s))
    BY <1>1, TypeCorrect, HolderOwnsHolds, NeverReusedHolds, BusyIsOwnedHolds, DeletedIsGoneHolds,
       PTL
<1> QED BY <1>2 DEF Attended

-----------------------------------------------------------------------------
(* A request makes progress with every step of its handler.                *)

\* An upper bound on the steps the handler of e still takes in the pool: each
\* attempt of ClaimSandbox is worth five, the way through it counted down.
StepsLeft(e) ==
    IF hpc[e] = "done" THEN 0
    ELSE 5 * (MaxAttempts - hatt[e]) +
         CASE hpc[e] = "claiming"  -> 4
           [] hpc[e] = "verifying" -> 3
           [] hpc[e] = "waking"    -> 2
           [] hpc[e] = "claimed"   -> 1
           [] OTHER                -> 0

\* The handler of e stands still, or comes closer to its end.
Progresses(e) ==
    \/ UNCHANGED <<hpc[e], StepsLeft(e)>>
    \/ StepsLeft(e)' < StepsLeft(e)

\* The measure is a number that only a finished handler has at zero.
LEMMA StepsLeftNat ==
    ASSUME TypeOK, NEW e \in Exec
    PROVE  /\ StepsLeft(e) \in 0..5 * MaxAttempts + 4
           /\ hpc[e] # "done" => StepsLeft(e) >= 5
<1>1. MaxAttempts \in Nat \ {0} /\ hatt[e] \in 0..MaxAttempts - 1 /\ hpc[e] \in HandlerPC
    BY BoundsAssumption DEF TypeOK
<1> QED BY <1>1 DEF StepsLeft

\* What the handler of e does when it continues its loop or ends.
LEMMA RetryProgresses ==
    ASSUME TypeOK, NEW e \in Exec, hpc[e] \in {"verifying", "waking"}, Retry(e)
    PROVE  StepsLeft(e)' < StepsLeft(e)
<1>0. MaxAttempts \in Nat \ {0} /\ hatt[e] \in 0..MaxAttempts - 1
    BY BoundsAssumption DEF TypeOK
<1>1. \/ hpc'[e] = "claiming" /\ hatt'[e] = hatt[e] + 1
      \/ hpc'[e] = "done"
    BY DEF Retry, Finish, GoTo, TypeOK
<1> QED BY <1>0, <1>1 DEF StepsLeft

\* Steps of the handlers: each is a step of one request, and brings it closer.
LEMMA HandlerProgresses ==
    ASSUME TypeOK, NEW e \in Exec,
           Handler(e) \/ ClaimFails(e) \/ \E s \in Sandbox : Claim(e, s)
    PROVE  StepsLeft(e)' < StepsLeft(e)
<1>0. /\ MaxAttempts \in Nat \ {0} /\ hatt[e] \in 0..MaxAttempts - 1
      /\ hpc \in [Exec -> HandlerPC] /\ hatt \in [Exec -> 0..MaxAttempts - 1]
    BY BoundsAssumption DEF TypeOK
<1>1. CASE RejectClaim(e) \/ WakeFails(e)
    BY <1>1, RetryProgresses DEF RejectClaim, WakeFails
<1>2. CASE VerifyClaim(e)
    <2>1. hpc[e] = "verifying" /\ hpc'[e] \in {"waking", "claimed"} /\ hatt' = hatt
        BY <1>0, <1>2 DEF VerifyClaim, GoTo
    <2> QED BY <1>0, <2>1 DEF StepsLeft
<1>3. CASE WakeDone(e) \/ MarkExecuting(e)
    <2>1. /\ \/ hpc[e] = "waking" /\ hpc'[e] = "claimed"
             \/ hpc[e] = "claimed" /\ hpc'[e] = "running"
          /\ hatt' = hatt
        BY <1>0, <1>3 DEF WakeDone, MarkExecuting, GoTo
    <2> QED BY <1>0, <2>1 DEF StepsLeft
<1>4. CASE FinishExecute(e) \/ ClaimFails(e)
    <2>1. hpc[e] # "done" /\ hpc'[e] = "done"
        BY <1>0, <1>4 DEF FinishExecute, ClaimFails, Finish, GoTo
    <2> QED BY <2>1, StepsLeftNat DEF StepsLeft
<1>5. ASSUME NEW s \in Sandbox, Claim(e, s)
      PROVE  StepsLeft(e)' < StepsLeft(e)
    <2>1. /\ hpc[e] = "claiming"
          /\ \/ hpc'[e] = "verifying" /\ hatt' = hatt
             \/ hpc'[e] = "done"
        BY <1>0, <1>5 DEF Claim, Finish, GoTo
    <2> QED BY <1>0, <2>1 DEF StepsLeft
<1> QED BY <1>1, <1>2, <1>3, <1>4, <1>5 DEF Handler

\* No other actor moves a handler.
LEMMA OthersWait ==
    ASSUME \/ Scaler \/ Reaper \/ HealthChecker \/ Boot
           \/ CreateFails \/ OutageBegins \/ OutageEnds
           \/ \E s \in Sandbox : Creator(s) \/ Deleter(s) \/ Time(s) \/ Cloud(s)
           \/ \E e \in Exec : ClientLeaves(e)
    PROVE  UNCHANGED <<hpc, hatt>>
<1>1. CASE Scaler \/ Reaper \/ HealthChecker
    BY <1>1 DEF Scaler, Scale, ScaleDownList, ScaleDownNext, Reaper, ReapStale, ReapFailed,
                ReapNext, HealthChecker, HealthQuery, HealthGet, HealthDelete, workerUnchanged
<1>2. CASE Boot
    BY <1>2 DEF Boot, BootStart, CleanOrphan, DropOrphan, RecordOrphan, Reconcile, Adopt, BootDone,
                bootUnchanged
<1>3. CASE \E s \in Sandbox : Creator(s) \/ Deleter(s)
    BY <1>3 DEF Creator, Create, CreateLost, InsertRow, MarkWarming, CreatorStart, StartDone,
           StartFails, RecordUnstarted, DropUnstarted, MakeAvailable, creatorUnchanged, Deleter,
           DeleteAndVerify, DeleteExpires,
           RecordDeleted, RecordFailed, deleterUnchanged
<1>4. CASE \/ CreateFails \/ OutageBegins \/ OutageEnds
           \/ \E s \in Sandbox : Time(s) \/ Cloud(s)
           \/ \E e \in Exec : ClientLeaves(e)
    BY <1>4 DEF CreateFails, OutageBegins, OutageEnds, Time, Cloud, ClientLeaves,
                creatorUnchanged, processUnchanged
<1> QED BY <1>1, <1>2, <1>3, <1>4

\* No request goes round in circles: each step of its handler, a retry of
\* ClaimSandbox (manager.go:101-162) or a crash in the middle included, lowers
\* a bound that starts at 5 * MaxAttempts + 4, and no step of any other actor
\* raises it.
THEOREM RequestsProgress == Spec => [][\A e \in Exec : Progresses(e)]_vars
<1>1. Init => TypeOK /\ UseInv
    BY TypeInit, UseInit
<1>2. TypeOK /\ UseInv /\ [Next]_vars => (TypeOK /\ UseInv)'
    BY TypeStep, UseStep DEF UseInv
<1>3. TypeOK /\ UseInv /\ [Next]_vars => [\A e \in Exec : Progresses(e)]_vars
    <2> SUFFICES ASSUME TypeOK, UseInv, Next, NEW e \in Exec
                 PROVE  Progresses(e)
        OBVIOUS
    <2>1. ASSUME NEW f \in Exec, Handler(f) \/ ClaimFails(f) \/ \E s \in Sandbox : Claim(f, s)
          PROVE  Progresses(e)
        <3>1. CASE e = f
            BY <2>1, <3>1, HandlerProgresses DEF Progresses
        <3>2. CASE e # f
            <4>1. UNCHANGED <<hpc[e], hatt[e]>>
                BY <2>1, <3>2 DEF Handler, VerifyClaim, RejectClaim, WakeDone, WakeFails,
                   MarkExecuting, FinishExecute, ClaimFails, Claim, Retry, Finish, GoTo, TypeOK
            <4> QED BY <4>1 DEF Progresses, StepsLeft
        <3> QED BY <3>1, <3>2
    <2>2. CASE Crash
        <3>1. \/ hpc[e] = "claiming" /\ hatt[e] = 0 /\ hpc'[e] = "claiming" /\ hatt'[e] = 0
              \/ hpc'[e] = "done" /\ hatt'[e] = 0
            BY <2>2 DEF Crash
        <3>2. CASE hpc[e] = "claiming" /\ hatt[e] = 0 /\ hpc'[e] = "claiming"
            BY <3>1, <3>2 DEF Progresses, StepsLeft
        <3>3. CASE hpc'[e] = "done" /\ hpc[e] # "done"
            BY <3>3, StepsLeftNat DEF Progresses, StepsLeft
        <3>4. CASE hpc'[e] = "done" /\ hpc[e] = "done"
            BY <3>4 DEF Progresses, StepsLeft
        <3> QED BY <3>1, <3>2, <3>3, <3>4
    <2>3. CASE \/ Scaler \/ Reaper \/ HealthChecker \/ Boot
               \/ CreateFails \/ OutageBegins \/ OutageEnds
               \/ \E s \in Sandbox : Creator(s) \/ Deleter(s) \/ Time(s) \/ Cloud(s)
               \/ \E f \in Exec : ClientLeaves(f)
        BY <2>3, OthersWait DEF Progresses, StepsLeft
    <2> QED BY <2>1, <2>2, <2>3 DEF Next
<1> QED BY <1>1, <1>2, <1>3, PTL DEF Spec

-----------------------------------------------------------------------------
(* What the pool promises without exceptions, as long as nothing fails.    *)

Calm == outages = 0 /\ crashes = 0

\* The first startup finds nothing; nobody forgets or leaks a sandbox; and
\* each one that Daytona runs has its row, or the goroutine that inserts it.
CalmInv ==
    Calm =>
      /\ \A s \in Sandbox : ~forgot[s] /\ ~leaked[s]
      /\ ~Up => todo = {} /\ \A s \in Sandbox : state[s] = "none" /\ remote[s] = "absent"
      /\ \A s \in Sandbox : Live(s) => HasRow(s) \/ creator[s] = "created"

\* What a step does that loses no sandbox while the process is up.
CalmKept ==
    /\ Up
    /\ UNCHANGED <<bootVars, ghostVars>>
    /\ \A s \in Sandbox : Live(s)' => Live(s) \/ creator'[s] = "created"
    /\ \A s \in Sandbox : HasRow(s) => HasRow(s)'
    /\ \A s \in Sandbox : creator[s] = "created" => creator'[s] = "created" \/ HasRow(s)'

\* Such a step keeps the invariant.
LEMMA CalmKeptStep ==
    ASSUME CalmInv, CalmKept, UNCHANGED <<outages, crashes>>
    PROVE  CalmInv'
BY DEF CalmInv, CalmKept, Calm, Up

\* The tickers and the handlers delete rows only by their state.
LEMMA UsersCalm ==
    ASSUME TypeOK, UseInv,
           \/ Scaler \/ Reaper \/ HealthChecker
           \/ \E e \in Exec : Handler(e) \/ ClaimFails(e) \/ \E s \in Sandbox : Claim(e, s)
    PROVE  CalmKept /\ UNCHANGED <<outages, crashes>>
<1> USE DEF TypeOK, DBTypeOK, RemoteTypeOK, UpdateSandboxState
<1>1. Up
    BY NobodyElse
<1>2. CASE Scaler \/ Reaper \/ HealthChecker
    <2>1. UNCHANGED <<bootVars, ghostVars, outages, crashes, remote>>
        BY <1>2 DEF Scaler, Scale, ScaleDownList, ScaleDownNext, Reaper, ReapStale, ReapFailed,
           ReapNext, HealthChecker, HealthQuery, HealthGet, HealthDelete, workerUnchanged
    <2>2. creator' = creator
        BY <1>2 DEF Scaler, Scale, ScaleDownList, ScaleDownNext, Reaper, ReapStale, ReapFailed,
           ReapNext, HealthChecker, HealthQuery, HealthGet, HealthDelete
    <2>3. \A s \in Sandbox : HasRow(s) => HasRow(s)'
        BY <1>2 DEF HasRow, Scaler, Scale, ScaleDownList, ScaleDownNext, Reaper, ReapStale,
           ReapFailed, ReapNext, HealthChecker, HealthQuery, HealthGet, HealthDelete, DeleteSandbox
    <2> QED BY <1>1, <2>1, <2>2, <2>3 DEF CalmKept, Live
<1>3. ASSUME NEW e \in Exec, Handler(e) \/ ClaimFails(e) \/ \E s \in Sandbox : Claim(e, s)
      PROVE  CalmKept /\ UNCHANGED <<outages, crashes>>
    <2>1. UNCHANGED <<bootVars, ghostVars, outages, crashes, creator>>
        BY <1>3 DEF Handler, VerifyClaim, RejectClaim, WakeDone, WakeFails, MarkExecuting,
           FinishExecute, ClaimFails, Claim, handlerUnchanged
    <2>2. \A s \in Sandbox : Live(s)' => Live(s)
        BY <1>3 DEF Live, StartRemote, Handler, VerifyClaim, RejectClaim, WakeDone, WakeFails,
           MarkExecuting, FinishExecute, ClaimFails, Claim
    <2>3. \A s \in Sandbox : HasRow(s) => HasRow(s)'
        BY <1>3 DEF HasRow, Handler, VerifyClaim, RejectClaim, WakeDone, WakeFails, MarkExecuting,
           FinishExecute, ClaimFails, Claim, DeleteClaimed, ClaimAvailableSandbox
    <2> QED BY <1>1, <2>1, <2>2, <2>3 DEF CalmKept
<1> QED BY <1>2, <1>3

\* As long as no statement fails, what Daytona creates gets its row.
LEMMA CreatorCalm ==
    ASSUME TypeOK, UseInv, outage = {}, NEW s \in Sandbox, Creator(s)
    PROVE  CalmKept /\ UNCHANGED <<outages, crashes>>
<1> USE DEF TypeOK, DBTypeOK, RemoteTypeOK
<1>0. Up /\ ~Fault("db") /\ ~Fault("daytona")
    BY NobodyElse DEF Fault
<1>1. UNCHANGED <<bootVars, ghostVars, outages, crashes>>
    BY DEF Creator, Create, CreateLost, InsertRow, MarkWarming, CreatorStart, StartDone,
           StartFails, RecordUnstarted, DropUnstarted,
       MakeAvailable, creatorUnchanged
<1>2. \A r \in Sandbox : Live(r)' => Live(r) \/ creator'[r] = "created"
    BY <1>0 DEF Live, Creator, Create, CreateLost, InsertRow, MarkWarming, CreatorStart, StartDone,
       StartFails, RecordUnstarted, DropUnstarted, MakeAvailable, CreateRemote, StartRemote,
       TryDeleteRemote, DeleteRemote, Becomes
<1>3. \A r \in Sandbox : HasRow(r) => HasRow(r)'
    BY DEF HasRow, Creator, Create, CreateLost, InsertRow, MarkWarming, CreatorStart, StartDone,
       StartFails, RecordUnstarted, DropUnstarted, MakeAvailable, CreateSandbox, UpdateSandboxState
<1>4. \A r \in Sandbox : creator[r] = "created" => creator'[r] = "created" \/ HasRow(r)'
    BY <1>0 DEF HasRow, Creator, Create, CreateLost, InsertRow, MarkWarming, CreatorStart,
       StartDone, StartFails, RecordUnstarted, DropUnstarted, MakeAvailable, CreateSandbox, Becomes
<1> QED BY <1>0, <1>1, <1>2, <1>3, <1>4 DEF CalmKept

\* As long as no call fails, a deletion records what became of it.
LEMMA DeleterCalm ==
    ASSUME TypeOK, UseInv, CleanInv, outage = {}, NEW s \in Sandbox, Deleter(s)
    PROVE  CalmKept /\ UNCHANGED <<outages, crashes>>
<1> USE DEF TypeOK, DBTypeOK, RemoteTypeOK
<1>0. Up /\ \A kind : ~Fault(kind)
    BY NoDeleter DEF Fault
<1>1. UNCHANGED <<bootVars, ghostVars, outages, crashes, creator>>
    BY <1>0 DEF Deleter, DeleteAndVerify, DeleteExpires, RecordDeleted, RecordFailed,
       deleterUnchanged
<1>2. \A r \in Sandbox : Live(r)' => Live(r)
    BY DEF Live, Deleter, DeleteAndVerify, DeleteExpires, RecordDeleted, RecordFailed,
       DeleteRemote, DeleteRemoteUnanswered
<1>3. \A r \in Sandbox : HasRow(r) => HasRow(r)'
    BY DEF HasRow, Deleter, DeleteAndVerify, DeleteExpires, RecordDeleted, RecordFailed,
       UpdateSandboxState
<1> QED BY <1>0, <1>1, <1>2, <1>3 DEF CalmKept

\* The first startup has nothing to clean and nothing to adopt.
LEMMA BootCalm ==
    ASSUME TypeOK, CalmInv, Calm, outage = {}, Boot
    PROVE  CalmInv'
<1>0. /\ ~Up /\ todo = {} /\ \A kind : ~Fault(kind)
      /\ \A s \in Sandbox : state[s] = "none" /\ remote[s] = "absent"
    BY DEF Boot, BootStart, CleanOrphan, DropOrphan, RecordOrphan, Reconcile, Adopt, BootDone,
           CalmInv, Up, Fault
<1>1. OrphanedSandboxes = {} /\ Untracked = {}
    BY <1>0 DEF OrphanedSandboxes, Untracked, Live
<1>2. BootStart \/ Reconcile \/ BootDone
    BY <1>0 DEF Boot, CleanOrphan, DropOrphan, RecordOrphan, Adopt
<1>3. UNCHANGED <<state, remote, creator, forgot, leaked, outages, crashes>> /\ todo' = {}
    BY <1>0, <1>1, <1>2 DEF BootStart, Reconcile, BootDone, bootUnchanged
<1> QED BY <1>0, <1>3 DEF CalmInv, Calm, Live, HasRow, Up

\* Time and the service lose nothing.
LEMMA TimeCalm ==
    ASSUME TypeOK, CalmInv, CreateFails \/ OutageEnds \/ \E s \in Sandbox : Time(s) \/ Cloud(s)
    PROVE  CalmInv'
<1>1. UNCHANGED <<state, creator, forgot, leaked, outages, crashes, boot, todo>>
    BY DEF CreateFails, OutageEnds, Time, RowAges, Cloud, creatorUnchanged, processUnchanged
<1>2. \A s \in Sandbox : (Live(s)' => Live(s)) /\ (remote[s] = "absent" => remote'[s] = "absent")
    BY DEF CreateFails, OutageEnds, Time, Cloud, RemoteStarts, RemoteAutoStops, RemoteBreaks,
       Live, TypeOK, RemoteTypeOK
<1> QED BY <1>1, <1>2 DEF CalmInv, Calm, HasRow, Up

\* CalmInv is inductive, given the invariants it rests on.
LEMMA CalmStep ==
    ASSUME TypeOK, UseInv, HeldInv, CleanInv, CalmInv, [Next]_vars
    PROVE  CalmInv'
<1>1. CASE UNCHANGED vars
    BY <1>1 DEF vars, CalmInv, Calm, Live, HasRow, Up
<1>2. CASE Crash \/ OutageBegins \/ \E e \in Exec : ClientLeaves(e)
    BY <1>2 DEF Crash, OutageBegins, ClientLeaves, CalmInv, Calm, TypeOK
<1>3. CASE CreateFails \/ OutageEnds \/ \E s \in Sandbox : Time(s) \/ Cloud(s)
    BY <1>3, TimeCalm
<1>4. CASE \/ Scaler \/ Reaper \/ HealthChecker
           \/ \E e \in Exec : Handler(e) \/ ClaimFails(e) \/ \E s \in Sandbox : Claim(e, s)
    BY <1>4, UsersCalm, CalmKeptStep
<1>5. CASE Boot \/ \E s \in Sandbox : Creator(s) \/ Deleter(s)
    <2>1. UNCHANGED <<outages, crashes>>
        BY <1>5 DEF Boot, BootStart, CleanOrphan, DropOrphan, RecordOrphan, Reconcile, Adopt,
                    BootDone, bootUnchanged,
           Creator, Create, CreateLost, InsertRow, MarkWarming, CreatorStart, StartDone,
           StartFails, RecordUnstarted, DropUnstarted, MakeAvailable, creatorUnchanged, Deleter,
           DeleteAndVerify, DeleteExpires,
           RecordDeleted, RecordFailed, deleterUnchanged
    <2>2. CASE ~Calm
        BY <2>1, <2>2 DEF CalmInv, Calm
    <2>3. CASE Calm
        <3>1. outage = {}
            BY <2>3 DEF Calm, HeldInv, Quiet, Unbroken
        <3> QED BY <1>5, <2>3, <3>1, BootCalm, CreatorCalm, DeleterCalm, CalmKeptStep
    <2> QED BY <2>2, <2>3
<1> QED BY <1>1, <1>2, <1>3, <1>4, <1>5 DEF Next

\* In a life in which no call has failed and no client has left, the pool keeps
\* its books without any of the exceptions the other theorems name: a row says
\* "deleted" only of a destroyed sandbox, every sandbox Daytona runs has a row
\* that is not deleted or is about to get one, and every row that is executing
\* or being deleted has its handler or its deletion at work.
THEOREM UndisturbedPool ==
    Spec => [](outages = 0 /\ crashes = 0 =>
                 \A s \in Sandbox :
                    /\ state[s] = "deleted" => remote[s] = "gone"
                    /\ Live(s) => s \in KnownDaytonaIDs \/ creator[s] = "created"
                    /\ Up /\ state[s] \in {"executing", "deleting"} =>
                          (\E e \in Exec : Holds(e, s)) \/ DeletersOf(s) > 0)
<1> DEFINE Kept(s) == /\ state[s] = "deleted" => remote[s] = "gone"
                      /\ Live(s) => s \in KnownDaytonaIDs \/ creator[s] = "created"
                      /\ Up /\ state[s] \in {"executing", "deleting"} =>
                            (\E e \in Exec : Holds(e, s)) \/ DeletersOf(s) > 0
<1>1. Init => TypeOK /\ UseInv /\ HeldInv /\ CleanInv /\ CalmInv
    BY TypeInit, UseInit
       DEF Init, DBInit, RemoteInit, HeldInv, Unbroken, CleanInv, CalmInv, Live, HasRow
<1>2. TypeOK /\ UseInv /\ HeldInv /\ CleanInv /\ CalmInv /\ [Next]_vars
          => (TypeOK /\ UseInv /\ HeldInv /\ CleanInv /\ CalmInv)'
    BY TypeStep, UseStep, HeldStep, CleanStep, CalmStep DEF UseInv
<1>3. BusyIsOwned /\ DeletedIsGone /\ CalmInv
          => (outages = 0 /\ crashes = 0 => \A s \in Sandbox : Kept(s))
    BY DEF CalmInv, Calm, DeletedIsGone, BusyIsOwned, KnownDaytonaIDs, HasRow, Live, Holds
<1> HIDE DEF Kept
<1>4. Spec => [](outages = 0 /\ crashes = 0 => \A s \in Sandbox : Kept(s))
    BY <1>1, <1>2, <1>3, BusyIsOwnedHolds, DeletedIsGoneHolds, PTL DEF Spec
<1> QED BY <1>4 DEF Kept

=============================================================================
