----------------------------- MODULE SandboxPool -----------------------------
(***************************************************************************)
(* pool/manager.go and its one caller, server/handlers.go handleExecute.   *)
(* The actors are the startup pass (cleanupOrphans, reconcileWithDaytona), *)
(* the scaler, the reaper, the health checker, one goroutine per sandbox   *)
(* being created, one per deletion, and one request handler per execution. *)
(* They meet in the table (SandboxDB) and in the service (DaytonaCloud);   *)
(* a step is what an actor does up to its next database or Daytona call.   *)
(*                                                                         *)
(* A call fails only while its kind is out, an outage being a span of time *)
(* the environment opens and closes.  "deadline" is the outage in which a  *)
(* Daytona call outlives the 60 seconds of its deletion's context.  The    *)
(* calls of a handler may also fail when its client has gone away, which   *)
(* cancels the context of the request ("cancel").                          *)
(***************************************************************************)
EXTENDS SandboxDB

CONSTANTS NoSandbox,
          MinWarm, MaxWarm, ScaleDownThreshold,   \* config.Config
          MaxAttempts,                            \* maxAttempts of ClaimSandbox
          HealthBatch,                            \* limit of checkHealth's query
          Faults,                                 \* kinds of outage considered
          MaxOutages, MaxCrashes,                 \* bounds: what may go wrong
          MaxSpawned, MaxDeleters                 \* bounds: goroutines counted

ASSUME NoSandboxAssumption == NoSandbox \notin Sandbox
ASSUME FaultsAssumption == Faults \subseteq {"daytona", "db", "deadline", "cancel"}
ASSUME BoundsAssumption ==
    /\ {MinWarm, MaxWarm, ScaleDownThreshold, HealthBatch,
        MaxOutages, MaxCrashes, MaxSpawned} \subseteq Nat
    /\ {MaxAttempts, MaxDeleters} \subseteq Nat \ {0}

VARIABLES
    remote,     \* what Daytona reports of each sandbox
    spawned,    \* createSandbox goroutines that have no sandbox yet
    creator,    \* creator[s]: where the goroutine that created s is
    deleters,   \* deleters[s]: DeleteSandbox goroutines of s, counted by stage
    hpc,        \* hpc[e]: where the handler of e is
    hsb,        \* hsb[e]: the sandbox ClaimSandbox works on or returned
    hatt,       \* hatt[e]: attempts ClaimSandbox has used up
    gone,       \* gone[e]: the context of the request is cancelled
    reapNext,   \* the query reap makes next
    reapList,   \* what its last query returned and is not yet dealt with
    scaleQuota, \* toDelete of the tick in progress
    scaleList,  \* old available sandboxes the scaler still has to delete
    healthList, \* sandboxes checkHealth still has to look at
    condemned,  \* the sandbox IsUsable has just answered false for
    boot,       \* how far Start has come; "down" between two lives
    todo,       \* sandboxes the startup pass still has to deal with
    seen,       \* those of them that List reported as usable
    dropped,    \* those of them whose Delete has returned
    outage,     \* the kinds of call that may fail now
    outages, crashes,   \* how many there have been
    forgot,     \* history: a failed call left s to no one but the next startup
    leaked      \* history: cleanupOrphans recorded a deletion that had failed

INSTANCE DaytonaCloud

creatorVars == <<spawned, creator>>
handlerVars == <<hpc, hsb, hatt, gone>>
reapVars    == <<reapNext, reapList>>
scaleVars   == <<scaleQuota, scaleList>>
healthVars  == <<healthList, condemned>>
workerVars  == <<reapVars, scaleVars, healthVars>>
bootVars    == <<boot, todo, seen, dropped>>
envVars     == <<outage, outages, crashes>>
ghostVars   == <<forgot, leaked>>

vars == <<dbVars, remote, creatorVars, deleters, handlerVars, workerVars,
          bootVars, envVars, ghostVars>>

CreatorStage == {"idle", "created", "inserted", "warming", "waiting", "ready", "failing"}
DeleterStage == {"calling", "gone", "kept"}
Holding      == {"verifying", "waking", "claimed", "running"}
HandlerPC    == Holding \cup {"claiming", "done"}

Fault(kind) == kind \in outage
Forget(s)   == forgot' = [forgot EXCEPT ![s] = TRUE]
Up          == boot = "running"

DeleteMayFail(s) == Fault("daytona") \/ StateChangeInProgress(s)

\* Delete where the caller drops the error.
TryDeleteRemote(s) == DeleteRemote(s) \/ (DeleteMayFail(s) /\ UNCHANGED remote)

Init ==
    /\ DBInit
    /\ RemoteInit
    /\ spawned = 0
    /\ creator = [s \in Sandbox |-> "idle"]
    /\ deleters = [s \in Sandbox |-> [d \in DeleterStage |-> 0]]
    /\ hpc = [e \in Exec |-> "claiming"]
    /\ hsb = [e \in Exec |-> NoSandbox]
    /\ hatt = [e \in Exec |-> 0]
    /\ gone = [e \in Exec |-> FALSE]
    /\ reapNext = "stale" /\ reapList = {}
    /\ scaleQuota = 0 /\ scaleList = {}
    /\ healthList = {} /\ condemned = NoSandbox
    /\ boot = "down" /\ todo = {} /\ seen = {} /\ dropped = {}
    /\ outage = {} /\ outages = 0 /\ crashes = 0
    /\ forgot = [s \in Sandbox |-> FALSE]
    /\ leaked = [s \in Sandbox |-> FALSE]

-----------------------------------------------------------------------------
(* DeleteSandbox: an UPDATE whose error is ignored, then a goroutine.      *)

DeletersOf(s) == deleters[s]["calling"] + deleters[s]["gone"] + deleters[s]["kept"]

BeginDeletion(s) ==
    /\ DeletersOf(s) < MaxDeleters
    /\ deleters' = [deleters EXCEPT ![s]["calling"] = @ + 1]

DeleteSandbox(s) ==
    /\ BeginDeletion(s)
    /\ \/ UpdateSandboxState(s, "deleting")
       \/ Fault("db") /\ UNCHANGED dbVars

Advance(s, from, to) ==
    /\ deleters[s][from] > 0
    /\ deleters' = [deleters EXCEPT ![s][from] = @ - 1, ![s][to] = @ + 1]

Retire(s, from) ==
    /\ deleters[s][from] > 0
    /\ deleters' = [deleters EXCEPT ![s][from] = @ - 1]

deleterUnchanged == <<creatorVars, handlerVars, workerVars, bootVars, envVars, leaked>>

\* Mutation: an error of the DELETE call is taken for "already gone".
DeleteAndVerifyTrusting(s) ==
    /\ Advance(s, "calling", "gone")
    /\ TryDeleteRemote(s)
    /\ UNCHANGED <<dbVars, forgot, deleterUnchanged>>

DeleteAndVerify(s) ==
    /\ \/ Advance(s, "calling", "gone") /\ DeleteRemote(s)
       \/ /\ DeleteMayFail(s)
          /\ Advance(s, "calling", "kept") /\ DeleteRemoteUnanswered(s)
    /\ UNCHANGED <<dbVars, forgot, deleterUnchanged>>

\* The error is deleteCtx's own expiry: the UPDATE that should record the
\* failure runs under the same context and fails too.
DeleteExpires(s) ==
    /\ Fault("deadline")
    /\ Retire(s, "calling") /\ DeleteRemoteUnanswered(s)
    /\ Forget(s)
    /\ UNCHANGED <<dbVars, deleterUnchanged>>

RecordDeleted(s) ==
    /\ Retire(s, "gone")
    /\ \/ UpdateSandboxState(s, "deleted") /\ UNCHANGED forgot
       \/ Fault("db") /\ Forget(s) /\ UNCHANGED dbVars
    /\ UNCHANGED <<remote, deleterUnchanged>>

RecordFailed(s) ==
    /\ Retire(s, "kept")
    /\ \/ UpdateSandboxState(s, "failed") /\ UNCHANGED forgot
       \/ Fault("db") /\ Forget(s) /\ UNCHANGED dbVars
    /\ UNCHANGED <<remote, deleterUnchanged>>

Deleter(s) == DeleteAndVerify(s) \/ DeleteExpires(s) \/ RecordDeleted(s) \/ RecordFailed(s)

-----------------------------------------------------------------------------
(* createSandbox.                                                          *)

creatorUnchanged == <<deleters, handlerVars, workerVars, bootVars, envVars, ghostVars>>

Becomes(s, stage) == creator' = [creator EXCEPT ![s] = stage]

\* Rate limited, refused, or failed with nothing created.
CreateFails ==
    /\ spawned > 0
    /\ spawned' = spawned - 1
    /\ UNCHANGED <<dbVars, remote, creator, creatorUnchanged>>

Create(s) ==
    /\ spawned > 0
    /\ CreateRemote(s)
    /\ spawned' = spawned - 1
    /\ Becomes(s, "created")
    /\ UNCHANGED <<dbVars, creatorUnchanged>>

\* The answer is lost: doWithRetry asks for another sandbox, or gives up.
CreateLost(s) ==
    /\ spawned > 0 /\ Fault("daytona")
    /\ CreateRemote(s)
    /\ spawned' \in {spawned, spawned - 1}
    /\ UNCHANGED <<dbVars, creator, creatorUnchanged>>

InsertRow(s) ==
    /\ creator[s] = "created"
    /\ \/ /\ CreateSandbox(s) /\ Becomes(s, "inserted")
          /\ UNCHANGED remote
       \/ /\ Fault("db") /\ Becomes(s, "idle")
          /\ CreateSandbox(s) \/ UNCHANGED dbVars    \* its answer may be what is lost
          /\ TryDeleteRemote(s)
    /\ UNCHANGED <<spawned, creatorUnchanged>>

MarkWarming(s) ==
    /\ creator[s] = "inserted"
    /\ \/ UpdateSandboxState(s, "warming") /\ Becomes(s, "warming")
       \/ /\ Fault("db") /\ Becomes(s, "idle")
          /\ UpdateSandboxState(s, "warming") \/ UNCHANGED dbVars
    /\ UNCHANGED <<remote, spawned, creatorUnchanged>>

\* The Start call of StartAndWait; StartFails has the case that it fails.
CreatorStart(s) ==
    /\ creator[s] = "warming"
    /\ StartRemote(s)
    /\ Becomes(s, "waiting")
    /\ UNCHANGED <<dbVars, spawned, creatorUnchanged>>

StartDone(s) ==
    /\ creator[s] = "waiting" /\ IsHealthy(s)
    /\ Becomes(s, "ready")
    /\ UNCHANGED <<dbVars, remote, spawned, creatorUnchanged>>

\* An error answer, the error state, a sandbox that is gone, or two minutes
\* without seeing it started.
RecordUnstarted(s) ==
    /\ creator[s] \in {"warming", "waiting"}
    /\ ~IsHealthy(s) \/ Fault("daytona")
    /\ Becomes(s, "failing")
    /\ \/ UpdateSandboxState(s, "failed")
       \/ Fault("db") /\ UNCHANGED dbVars
    /\ UNCHANGED <<remote, spawned, creatorUnchanged>>

DropUnstarted(s) ==
    /\ creator[s] = "failing"
    /\ Becomes(s, "idle")
    /\ TryDeleteRemote(s)
    /\ UNCHANGED <<dbVars, spawned, creatorUnchanged>>

StartFails(s) == RecordUnstarted(s) \/ DropUnstarted(s)

MakeAvailable(s) ==
    /\ creator[s] = "ready"
    /\ Becomes(s, "idle")
    /\ \/ UpdateSandboxState(s, "available")
       \/ Fault("db") /\ UNCHANGED dbVars
    /\ UNCHANGED <<remote, spawned, creatorUnchanged>>

Creator(s) ==
    \/ Create(s) \/ CreateLost(s) \/ InsertRow(s) \/ MarkWarming(s)
    \/ CreatorStart(s) \/ StartDone(s) \/ StartFails(s) \/ MakeAvailable(s)

-----------------------------------------------------------------------------
(* handleExecute: ClaimSandbox, MarkExecuting, Execute, DeleteSandbox.     *)

handlerUnchanged == <<creatorVars, workerVars, bootVars, envVars, ghostVars>>

GoTo(e, pc) == hpc' = [hpc EXCEPT ![e] = pc]

\* A call of e's handler may fail.
Broken(e, kind) == Fault(kind) \/ gone[e]

\* DeleteSandbox, called with the context of the request.
DeleteClaimed(e) ==
    /\ BeginDeletion(hsb[e])
    /\ \/ UpdateSandboxState(hsb[e], "deleting")
       \/ Broken(e, "db") /\ UNCHANGED dbVars

Finish(e) ==
    /\ GoTo(e, "done")
    /\ hsb' = [hsb EXCEPT ![e] = NoSandbox]
    /\ hatt' = [hatt EXCEPT ![e] = 0]
    /\ gone' = [gone EXCEPT ![e] = FALSE]

\* Mutation: the loop of ClaimSandbox has no bound.
RetryForever(e) ==
    /\ hsb' = [hsb EXCEPT ![e] = NoSandbox]
    /\ hatt' = [hatt EXCEPT ![e] = @ + 1]
    /\ GoTo(e, "claiming")
    /\ UNCHANGED gone

\* continue, or the end of the loop: ErrNoAvailableSandbox.
Retry(e) ==
    \/ /\ hatt[e] + 1 < MaxAttempts
       /\ GoTo(e, "claiming")
       /\ hsb' = [hsb EXCEPT ![e] = NoSandbox]
       /\ hatt' = [hatt EXCEPT ![e] = @ + 1]
       /\ UNCHANGED gone
    \/ hatt[e] + 1 >= MaxAttempts /\ Finish(e)

Claim(e, s) ==
    /\ Up /\ hpc[e] = "claiming"
    /\ ClaimAvailableSandbox(s, e)
    /\ \/ /\ GoTo(e, "verifying") /\ hsb' = [hsb EXCEPT ![e] = s]
          /\ UNCHANGED <<hatt, gone>>
       \/ Broken(e, "db") /\ Finish(e)    \* committed, but the answer is lost
    /\ UNCHANGED <<remote, deleters, handlerUnchanged>>

ClaimFails(e) ==
    /\ Up /\ hpc[e] = "claiming"
    /\ AvailableSandboxes = {} \/ Broken(e, "db")
    /\ Finish(e)
    /\ UNCHANGED <<dbVars, remote, deleters, handlerUnchanged>>

\* Get answers; a stopped sandbox is sent Start at once.
VerifyClaim(e) ==
    LET s == hsb[e] IN
    /\ hpc[e] = "verifying"
    /\ IsUsable(s)
    /\ StartRemote(s)
    /\ GoTo(e, IF IsStopped(s) THEN "waking" ELSE "claimed")
    /\ UNCHANGED <<dbVars, deleters, hsb, hatt, gone, handlerUnchanged>>

\* Mutation: "continue" before DeleteSandbox.
RejectClaimKeeping(e) ==
    /\ hpc[e] = "verifying"
    /\ ~IsUsable(hsb[e]) \/ Broken(e, "daytona")
    /\ Retry(e)
    /\ UNCHANGED <<dbVars, deleters, remote, handlerUnchanged>>

\* Any error of Get, a transient one too, condemns the sandbox.
RejectClaim(e) ==
    /\ hpc[e] = "verifying"
    /\ ~IsUsable(hsb[e]) \/ Broken(e, "daytona")
    /\ DeleteClaimed(e)
    /\ Retry(e)
    /\ UNCHANGED <<remote, handlerUnchanged>>

WakeDone(e) ==
    /\ hpc[e] = "waking" /\ IsHealthy(hsb[e])
    /\ GoTo(e, "claimed")
    /\ UNCHANGED <<dbVars, remote, deleters, hsb, hatt, gone, handlerUnchanged>>

WakeFails(e) ==
    /\ hpc[e] = "waking"
    /\ ~IsHealthy(hsb[e]) \/ Broken(e, "daytona")
    /\ DeleteClaimed(e)
    /\ Retry(e)
    /\ UNCHANGED <<remote, handlerUnchanged>>

\* The error is logged and the execution goes on.
MarkExecuting(e) ==
    /\ hpc[e] = "claimed"
    /\ \/ UpdateSandboxState(hsb[e], "executing")
       \/ Broken(e, "db") /\ UNCHANGED dbVars
    /\ GoTo(e, "running")
    /\ UNCHANGED <<remote, deleters, hsb, hatt, gone, handlerUnchanged>>

\* Whether Execute returned a result or an error, the sandbox is deleted.
FinishExecute(e) ==
    /\ hpc[e] = "running"
    /\ DeleteClaimed(e)
    /\ Finish(e)
    /\ UNCHANGED <<remote, handlerUnchanged>>

Handler(e) ==
    \/ VerifyClaim(e) \/ RejectClaim(e) \/ WakeDone(e) \/ WakeFails(e)
    \/ MarkExecuting(e) \/ FinishExecute(e)

-----------------------------------------------------------------------------
(* The three tickers.                                                      *)

workerUnchanged == <<remote, handlerVars, bootVars, envVars, ghostVars>>

\* One tick: GetPoolStats, the goroutines it starts, and the excess it finds.
Scale ==
    /\ Up /\ scaleQuota = 0 /\ scaleList = {}
    /\ LET available == PoolStats("available")
           pending   == PoolStats("creating") + PoolStats("warming")
           wanted    == IF available + pending < MinWarm
                        THEN spawned + MinWarm - (available + pending) ELSE spawned
       IN /\ spawned' = IF wanted > MaxSpawned THEN MaxSpawned ELSE wanted
          /\ scaleQuota' = IF available > ScaleDownThreshold /\ available > MaxWarm
                           THEN available - MaxWarm ELSE 0
    /\ UNCHANGED <<dbVars, creator, deleters, reapVars, scaleList, healthVars, workerUnchanged>>

\* GetOldAvailableSandboxes with its LIMIT, or its error.
ScaleDownList ==
    /\ Up /\ scaleQuota > 0
    /\ \E old \in SUBSET OldAvailableSandboxes :
          /\ \/ Cardinality(old) = scaleQuota
             \/ old = OldAvailableSandboxes /\ Cardinality(old) < scaleQuota
             \/ old = {} /\ Fault("db")
          /\ scaleList' = old
    /\ scaleQuota' = 0
    /\ UNCHANGED <<dbVars, creatorVars, deleters, reapVars, healthVars, workerUnchanged>>

ScaleDownNext ==
    /\ Up
    /\ \E s \in scaleList : DeleteSandbox(s) /\ scaleList' = scaleList \ {s}
    /\ UNCHANGED <<creatorVars, scaleQuota, reapVars, healthVars, workerUnchanged>>

\* A query that fails ends the tick, as one that returns nothing does.
ReapStale ==
    /\ Up /\ reapNext = "stale" /\ reapList = {}
    /\ ~Fault("db")
    /\ reapList' = StaleSandboxes
    /\ reapNext' = "failed"
    /\ UNCHANGED <<dbVars, creatorVars, deleters, scaleVars, healthVars, workerUnchanged>>

ReapFailed ==
    /\ Up /\ reapNext = "failed" /\ reapList = {}
    /\ reapList' \in {FailedSandboxes} \cup (IF Fault("db") THEN {{}} ELSE {})
    /\ reapNext' = "stale"
    /\ UNCHANGED <<dbVars, creatorVars, deleters, scaleVars, healthVars, workerUnchanged>>

ReapNext ==
    /\ Up
    /\ \E s \in reapList : DeleteSandbox(s) /\ reapList' = reapList \ {s}
    /\ UNCHANGED <<creatorVars, reapNext, scaleVars, healthVars, workerUnchanged>>

HealthQuery ==
    /\ Up /\ healthList = {} /\ condemned = NoSandbox
    /\ \E batch \in SUBSET AvailableSandboxes :
          /\ \/ Cardinality(batch) = HealthBatch
             \/ batch = AvailableSandboxes /\ Cardinality(batch) < HealthBatch
          /\ healthList' = batch
    /\ UNCHANGED <<dbVars, creatorVars, deleters, condemned, reapVars, scaleVars, workerUnchanged>>

\* An unusable sandbox is condemned; an error of IsUsable skips it.
HealthGet ==
    /\ Up /\ condemned = NoSandbox
    /\ \E s \in healthList :
          /\ healthList' = healthList \ {s}
          /\ \/ condemned' = IF IsUsable(s) THEN NoSandbox ELSE s
             \/ Fault("daytona") /\ UNCHANGED condemned
    /\ UNCHANGED <<dbVars, creatorVars, deleters, reapVars, scaleVars, workerUnchanged>>

HealthDelete ==
    /\ Up /\ condemned # NoSandbox
    /\ DeleteSandbox(condemned)
    /\ condemned' = NoSandbox
    /\ UNCHANGED <<creatorVars, healthList, reapVars, scaleVars, workerUnchanged>>

Reaper == ReapStale \/ ReapFailed \/ ReapNext
Scaler == Scale \/ ScaleDownList \/ ScaleDownNext
HealthChecker == HealthQuery \/ HealthGet \/ HealthDelete

-----------------------------------------------------------------------------
(* Start: cleanupOrphans, then reconcileWithDaytona, then the tickers.     *)

bootUnchanged == <<creatorVars, deleters, handlerVars, workerVars, envVars>>

ForgetAll(S) == forgot' = [s \in Sandbox |-> forgot[s] \/ s \in S]

BootStart ==
    /\ boot = "down"
    /\ boot' = "orphans"
    /\ \/ todo' = OrphanedSandboxes /\ UNCHANGED forgot
       \/ Fault("db") /\ todo' = {} /\ ForgetAll(OrphanedSandboxes)
    /\ UNCHANGED <<dbVars, remote, seen, dropped, leaked, bootUnchanged>>

Remember(s) == forgot' = [forgot EXCEPT ![s] = FALSE]

\* One goroutine per orphan: the error of Delete is logged.
DropOrphan(s) ==
    /\ boot = "orphans" /\ s \in todo \ dropped
    /\ dropped' = dropped \cup {s}
    /\ TryDeleteRemote(s)
    /\ UNCHANGED <<dbVars, boot, todo, seen, ghostVars, bootUnchanged>>

\* The row is marked deleted all the same.
RecordOrphan(s) ==
    /\ boot = "orphans" /\ s \in todo \cap dropped
    /\ todo' = todo \ {s} /\ dropped' = dropped \ {s}
    /\ \/ /\ UpdateSandboxState(s, "deleted") /\ Remember(s)
          /\ leaked' = [leaked EXCEPT ![s] = remote[s] # "gone"]
       \/ Fault("db") /\ Forget(s) /\ UNCHANGED <<dbVars, leaked>>
    /\ UNCHANGED <<remote, boot, seen, bootUnchanged>>

CleanOrphan(s) == DropOrphan(s) \/ RecordOrphan(s)

\* Mutation: sandboxes that cannot be imported are not looked at.
UntrackedUsable == {s \in Sandbox : IsUsable(s) /\ s \notin KnownDaytonaIDs}

Untracked == {s \in Sandbox : Live(s) /\ s \notin KnownDaytonaIDs}

\* List and GetAllDaytonaIDs; an error of either ends the reconciliation.
Reconcile ==
    /\ boot = "orphans" /\ todo = {}
    /\ boot' = "reconcile"
    /\ \/ /\ todo' = Untracked
          /\ seen' = {s \in Untracked : IsUsable(s)}
          /\ UNCHANGED forgot
       \/ /\ Fault("daytona") \/ Fault("db")
          /\ todo' = {} /\ seen' = {}
          /\ ForgetAll(Untracked)
    /\ UNCHANGED <<dbVars, remote, dropped, leaked, bootUnchanged>>

Adopt(s) ==
    /\ boot = "reconcile" /\ s \in todo
    /\ todo' = todo \ {s}
    /\ \/ /\ s \in seen
          /\ \/ ImportSandbox(s) /\ Remember(s)
             \/ Fault("db") /\ UNCHANGED dbVars /\ Forget(s)
          /\ UNCHANGED remote
       \/ /\ s \notin seen
          /\ \/ DeleteRemote(s) /\ Remember(s)
             \/ DeleteMayFail(s) /\ UNCHANGED remote /\ Forget(s)
          /\ UNCHANGED dbVars
    /\ UNCHANGED <<boot, seen, dropped, leaked, bootUnchanged>>

BootDone ==
    /\ boot = "reconcile" /\ todo = {}
    /\ boot' = "running" /\ seen' = {}
    /\ UNCHANGED <<dbVars, remote, todo, dropped, ghostVars, bootUnchanged>>

Boot == BootStart \/ Reconcile \/ BootDone \/ \E s \in Sandbox : CleanOrphan(s) \/ Adopt(s)

\* The process dies: every goroutine with its list is gone, the requests in
\* progress are lost, and the table and the service stay as they are.  A
\* shutdown is one too: Stop waits for the tickers only.
Crash ==
    /\ boot # "down" /\ crashes < MaxCrashes
    /\ crashes' = crashes + 1
    /\ spawned' = 0
    /\ creator' = [s \in Sandbox |-> "idle"]
    /\ deleters' = [s \in Sandbox |-> [d \in DeleterStage |-> 0]]
    /\ hpc' = [e \in Exec |-> IF hpc[e] = "claiming" /\ hatt[e] = 0 THEN "claiming" ELSE "done"]
    /\ hsb' = [e \in Exec |-> NoSandbox]
    /\ hatt' = [e \in Exec |-> 0]
    /\ gone' = [e \in Exec |-> FALSE]
    /\ reapNext' = "stale" /\ reapList' = {}
    /\ scaleQuota' = 0 /\ scaleList' = {}
    /\ healthList' = {} /\ condemned' = NoSandbox
    /\ boot' = "down" /\ todo' = {} /\ seen' = {} /\ dropped' = {}
    /\ UNCHANGED <<dbVars, remote, outage, outages, ghostVars>>

-----------------------------------------------------------------------------
(* The environment.                                                        *)

processUnchanged == <<creatorVars, deleters, handlerVars, workerVars, bootVars, ghostVars>>

OutageBegins ==
    /\ outages < MaxOutages
    /\ outages' = outages + 1
    /\ \E kind \in Faults \ (outage \cup {"cancel"}) : outage' = outage \cup {kind}
    /\ UNCHANGED <<dbVars, remote, crashes, processUnchanged>>

OutageEnds ==
    /\ outage # {} /\ outage' = {}
    /\ UNCHANGED <<dbVars, remote, outages, crashes, processUnchanged>>

ClientLeaves(e) ==
    /\ "cancel" \in Faults /\ outages < MaxOutages
    /\ hpc[e] # "done" /\ ~gone[e]
    /\ outages' = outages + 1
    /\ gone' = [gone EXCEPT ![e] = TRUE]
    /\ UNCHANGED <<dbVars, remote, creatorVars, deleters, hpc, hsb, hatt, workerVars, bootVars,
                   outage, crashes, ghostVars>>

Time(s) == RowAges(s) /\ UNCHANGED <<remote, envVars, processUnchanged>>

Cloud(s) ==
    /\ RemoteStarts(s) \/ RemoteAutoStops(s) \/ RemoteBreaks(s)
    /\ UNCHANGED <<dbVars, envVars, processUnchanged>>

-----------------------------------------------------------------------------
Next ==
    \/ Scaler \/ Reaper \/ HealthChecker \/ Boot \/ Crash
    \/ CreateFails \/ OutageBegins \/ OutageEnds
    \/ \E s \in Sandbox : Creator(s) \/ Deleter(s) \/ Time(s) \/ Cloud(s)
    \/ \E e \in Exec :
          Handler(e) \/ ClientLeaves(e) \/ ClaimFails(e) \/ \E s \in Sandbox : Claim(e, s)

Spec == Init /\ [][Next]_vars

\* The scheduler runs every goroutine and every ticker; the process is
\* restarted when it dies; an outage ends; time passes; a start that Daytona
\* has begun comes to an end, good or bad.  Nobody has to call the service,
\* and Daytona's Create may fail for ever.
Fairness ==
    /\ WF_vars(Scaler) /\ WF_vars(Reaper) /\ WF_vars(HealthChecker) /\ WF_vars(Boot)
    /\ WF_vars(OutageEnds)
    /\ \A s \in Sandbox :
          /\ WF_vars(InsertRow(s) \/ MarkWarming(s) \/ CreatorStart(s)
                       \/ StartDone(s) \/ StartFails(s) \/ MakeAvailable(s))
          /\ WF_vars(Deleter(s)) /\ WF_vars(Time(s))
          /\ WF_vars(StateChangeInProgress(s) /\ Cloud(s))
    /\ \A e \in Exec : WF_vars(Handler(e))

FairSpec == Spec /\ Fairness

-----------------------------------------------------------------------------
(* Properties.                                                             *)

TypeOK ==
    /\ DBTypeOK /\ RemoteTypeOK
    /\ spawned \in 0..MaxSpawned
    /\ creator \in [Sandbox -> CreatorStage]
    /\ deleters \in [Sandbox -> [DeleterStage -> Nat]]
    /\ hpc \in [Exec -> HandlerPC]
    /\ hsb \in [Exec -> Sandbox \cup {NoSandbox}]
    /\ hatt \in [Exec -> 0..MaxAttempts - 1] /\ gone \in [Exec -> BOOLEAN]
    /\ reapNext \in {"stale", "failed"} /\ reapList \subseteq Sandbox
    /\ scaleQuota \in Nat /\ scaleList \subseteq Sandbox
    /\ healthList \subseteq Sandbox /\ condemned \in Sandbox \cup {NoSandbox}
    /\ boot \in {"down", "orphans", "reconcile", "running"}
    /\ todo \subseteq Sandbox /\ seen \subseteq Sandbox /\ dropped \subseteq Sandbox
    /\ outage \subseteq Faults /\ outages \in 0..MaxOutages
    /\ crashes \in 0..MaxCrashes
    /\ forgot \in [Sandbox -> BOOLEAN] /\ leaked \in [Sandbox -> BOOLEAN]

Holds(e, s) == hpc[e] \in Holding /\ hsb[e] = s

\* A handler works in no sandbox but the one whose row names its execution:
\* a claim is never granted twice (queries.go ClaimAvailableSandbox).
HolderOwns == \A e \in Exec : hpc[e] \in Holding => claimedBy[hsb[e]] = e

\* "Each sandbox is single-use": no writer, not even the import of what a
\* crash left behind, brings a sandbox that was claimed back to the pool.
NeverReused ==
    \A s \in Sandbox :
        state[s] \in {"none", "creating", "warming", "available"} => claimedBy[s] = NoExec

\* The parts that make the two inductive.  A handler that holds a sandbox has
\* a real one; the sandbox a goroutine is still creating was never claimed
\* and has no row before its INSERT; what Daytona never created has no row;
\* nobody else runs during the startup pass, and it deals with real sandboxes.
HoldersHold == \A e \in Exec : hpc[e] \in Holding => hsb[e] \in Sandbox
CreatorsClean ==
    \A s \in Sandbox : creator[s] # "idle" =>
        /\ claimedBy[s] = NoExec /\ state[s] # "available" /\ remote[s] # "absent"
        /\ creator[s] = "created" => ~HasRow(s)
AbsentHasNoRow == \A s \in Sandbox : remote[s] = "absent" => ~HasRow(s)
StartupAlone ==
    ~Up => /\ spawned = 0
           /\ \A s \in Sandbox : creator[s] = "idle"
           /\ \A e \in Exec : hpc[e] \notin Holding
StartupReal == boot = "reconcile" => \A s \in todo : remote[s] # "absent"

UseInv ==
    /\ HoldersHold /\ HolderOwns /\ NeverReused
    /\ CreatorsClean /\ AbsentHasNoRow /\ StartupAlone /\ StartupReal

\* A row no query of the tickers looks at has somebody who will move it on:
\* the handler that uses the sandbox or a goroutine that deletes it, unless
\* the write that should have recorded the outcome failed.
BusyIsOwned ==
    Up => \A s \in Sandbox :
        state[s] \in {"executing", "deleting"} =>
            \/ \E e \in Exec : hpc[e] = "running" /\ hsb[e] = s
            \/ DeletersOf(s) > 0
            \/ forgot[s]

\* A claimed row has its handler at work on it, however many sandboxes
\* ClaimSandbox went through, as long as no claim's answer was lost.
ClaimedIsHeld ==
    Up /\ outages = 0 => \A s \in Sandbox :
        state[s] = "claimed" => \E e \in Exec : Holds(e, s)

\* The table calls a sandbox deleted only when Daytona has destroyed it; the
\* exception is cleanupOrphans, which records what it could not delete.
DeletedIsGone ==
    \A s \in Sandbox : state[s] = "deleted" => remote[s] = "gone" \/ leaked[s]

\* When Start returns, every sandbox Daytona still runs has a row that is not
\* "deleted", whatever the crash interrupted, unless a call failed meanwhile.
Accounted ==
    \A s \in Sandbox : Live(s) => s \in KnownDaytonaIDs \/ forgot[s] \/ leaked[s]
ReconcileTracks == [][boot = "reconcile" /\ boot' = "running" => Accounted']_vars

\* When cleanupOrphans returns, no row is left in a state some earlier life was
\* at work on, wherever the crash cut it off, except those that a failed
\* statement gave up on.
StartupCleans ==
    boot = "reconcile" =>
        \A s \in Sandbox : state[s] \in {"none", "available", "deleted"} \/ forgot[s]

\* The pool implements the single-use lease: the row's claimed_by is the
\* holder, the handler's progress the stage of the use.
leaseOf == [s \in Sandbox |->
    IF claimedBy[s] = NoExec THEN "fresh"
    ELSE IF ~Holds(claimedBy[s], s) THEN "spent"
    ELSE IF hpc[claimedBy[s]] = "running" THEN "inside" ELSE "leased"]

Use == INSTANCE SandboxLease WITH lease <- leaseOf, holder <- claimedBy
SingleUse == Use!LeaseSpec

\* A sandbox that was claimed is destroyed in the end, through crashes, lost
\* claims and failed deletions; the exceptions are the two the code leaves to
\* the next startup or to nobody.
UsedIsDestroyed ==
    \A s \in Sandbox :
        claimedBy[s] # NoExec ~> remote[s] = "gone" \/ forgot[s] \/ leaked[s]

\* Every row in a transient state gets out of it: nothing is stuck half
\* created, half claimed or half deleted while the process lives.
RowSettles ==
    \A s \in Sandbox :
        state[s] \notin {"none", "available", "deleted"}
            ~> state[s] \in {"available", "deleted"} \/ forgot[s]

\* README.md "How it works": "Each sandbox is single-use and destroyed after
\* execution".  DeleteSandbox promises it with no startup in between.
DestroyedAfterUse ==
    \A s \in Sandbox : claimedBy[s] # NoExec ~> remote[s] = "gone"

\* "GetStaleSandboxes returns sandboxes stuck in transient states"
\* (queries.go:179): one that a live handler works on is not stuck.
StaleIsStuck ==
    [][\A s \in reapList' \ reapList : ~\E e \in Exec : Holds(e, s)]_vars

=============================================================================
