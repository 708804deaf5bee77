------------------------------- MODULE Boxbox -------------------------------
(***************************************************************************)
(* The process: cmd/boxbox/main.go and server/server.go with what they     *)
(* start and stop.  The queue is module ExecQueue, whose actions are taken *)
(* as they are; the pool is its promise, module SandboxLease; a handler is *)
(* the life of its execution, module ExecutionLife, between Acquire and    *)
(* Release; the pool's tickers matter here for when they end.              *)
(***************************************************************************)
EXTENDS ExecQueue

CONSTANTS
    Sandbox,
    NoRequest,
    Worker      \* runScaler, runReaper, runHealthChecker

VARIABLES
    stage,      \* stage[r]: how far handleExecute is while it holds a slot
    row,        \* row[r]: the execution's row in the database
    unsaved,    \* history: r's last write failed, the database open or closed
    lease, holder,
    main,       \* where run and Server.Start are
    cancelled,  \* the context that a signal cancels
    stopCh,     \* m.stopCh is closed
    worker,     \* worker[w]: where a ticker's goroutine is
    dbOpen,
    hasty       \* history: the handlers were not waited for to the end

Lease == INSTANCE SandboxLease WITH Exec <- Request, NoExec <- NoRequest

handlers == <<stage, row, unsaved, lease, holder>>
process == <<main, cancelled, stopCh, worker, dbOpen, hasty>>
boxVars == <<pc, sem, counters, closing, closed, late, handlers, process>>

Stage == {"none", "created", "unlucky", "leased", "inside", "completed", "finished"}
MainAt == {"serving", "closing", "draining", "drained", "waiting", "stopped", "exited"}

BoxInit ==
    /\ Init
    /\ stage = [r \in Request |-> "none"]
    /\ row = [r \in Request |-> "none"]
    /\ unsaved = [r \in Request |-> "no"]
    /\ Lease!LeaseInit
    /\ main = "serving" /\ cancelled = FALSE /\ stopCh = FALSE
    /\ worker = [w \in Worker |-> "waiting"]
    /\ dbOpen = TRUE /\ hasty = FALSE

Alive == main # "exited"

Handling == At(PC \ {"arriving", "done"})

-----------------------------------------------------------------------------
(* handleExecute.                                                          *)

\* Shutdown that has returned without an error has closed every connection.
Connected(r) == main \in {"drained", "waiting", "stopped"} => hasty \/ r \in Handling

AcquireStep(r) ==
    /\ Alive /\ Connected(r)
    /\ Acquire(r)
    /\ UNCHANGED <<handlers, process>>

StageStep(r, from, to) ==
    /\ Alive /\ pc[r] = "holding" /\ stage[r] = from
    /\ stage' = [stage EXCEPT ![r] = to]
    /\ UNCHANGED <<vars, process>>

\* A statement fails; while the database is open it may have been obeyed.
WriteFails(r, st) ==
    /\ unsaved' = [unsaved EXCEPT ![r] = IF dbOpen THEN "failed" ELSE "closed"]
    /\ \/ UNCHANGED row
       \/ dbOpen /\ row' = [row EXCEPT ![r] = st]

CreateExecution(r) ==
    /\ StageStep(r, "none", "created")
    /\ dbOpen
    /\ row' = [row EXCEPT ![r] = "open"]
    /\ UNCHANGED <<unsaved, lease, holder>>

CreateExecutionFails(r) ==
    /\ StageStep(r, "none", "finished")
    /\ WriteFails(r, "open")
    /\ UNCHANGED <<lease, holder>>

ClaimSandbox(r) ==
    /\ StageStep(r, "created", "leased")
    /\ dbOpen
    /\ \E s \in Sandbox : Lease!Lease(s, r) /\ lease'[s] = "leased"
    /\ UNCHANGED <<row, unsaved>>

\* No sandbox is available, a statement fails, or the claim's answer is lost.
ClaimSandboxFails(r) ==
    /\ StageStep(r, "created", "unlucky")
    /\ \/ UNCHANGED <<lease, holder>>
       \/ dbOpen /\ \E s \in Sandbox : Lease!Lease(s, r) /\ lease'[s] = "spent"
    /\ UNCHANGED <<row, unsaved>>

Leased(r) == {s \in Sandbox : holder[s] = r /\ lease[s] \in {"leased", "inside"}}

Execute(r) ==
    /\ StageStep(r, "leased", "inside")
    /\ \E s \in Leased(r) : Lease!Enter(s)
    /\ UNCHANGED <<row, unsaved>>

\* CompleteExecution, at the end of Execute or after a failed claim.  Execute
\* that fails at its first statement skips it.
CompleteExecution(r) ==
    /\ \/ StageStep(r, "inside", "completed")
       \/ StageStep(r, "unlucky", "finished")
    /\ \/ /\ dbOpen
          /\ row' = [row EXCEPT ![r] = "ended"]
          /\ UNCHANGED unsaved
       \/ WriteFails(r, "ended")
    /\ UNCHANGED <<lease, holder>>

DeleteSandbox(r) ==
    /\ StageStep(r, "completed", "finished")
    /\ Lease!Spend(Leased(r))
    /\ UNCHANGED <<row, unsaved>>

\* Mutation: Release is called before the sandbox is given up.
ReleaseEarly(r) ==
    /\ Alive /\ stage[r] \in {"completed", "finished"}
    /\ Receive(r) \/ Release(r)
    /\ UNCHANGED <<handlers, process>>

\* The deferred q.Release().
ReleaseStep(r) ==
    /\ Alive /\ stage[r] = "finished"
    /\ Receive(r) \/ Release(r)
    /\ UNCHANGED <<handlers, process>>

-----------------------------------------------------------------------------
(* The tickers of the pool.                                                *)

WorkerStep(w, from, to) ==
    /\ Alive /\ worker[w] = from
    /\ worker' = [worker EXCEPT ![w] = to]
    /\ UNCHANGED <<vars, handlers, main, cancelled, stopCh, dbOpen, hasty>>

\* case <-ticker.C, which the select may prefer to the others
TickerFires(w) == WorkerStep(w, "waiting", "working")

PassEnds(w) == WorkerStep(w, "working", "waiting")

\* case <-ctx.Done(), case <-m.stopCh
WorkerReturns(w) == (cancelled \/ stopCh) /\ WorkerStep(w, "waiting", "stopped")

-----------------------------------------------------------------------------
(* run and Server.Start.                                                   *)

Signal ==
    /\ Alive /\ ~cancelled
    /\ cancelled' = TRUE
    /\ UNCHANGED <<vars, handlers, main, stopCh, worker, dbOpen, hasty>>

MainStep(from, to) ==
    /\ main = from
    /\ main' = to
    /\ UNCHANGED <<handlers, worker>>

\* case <-ctx.Done()
ShutDown ==
    /\ MainStep("serving", "closing") /\ cancelled
    /\ UNCHANGED <<vars, cancelled, stopCh, dbOpen, hasty>>

\* case err := <-errChan: Start returns and closes neither queue nor server.
ServeFails ==
    /\ MainStep("serving", "drained")
    /\ hasty' = TRUE
    /\ UNCHANGED <<vars, cancelled, stopCh, dbOpen>>

\* s.queue.Close()
CloseQueue ==
    \/ /\ main = "closing" /\ CloseStore
       /\ UNCHANGED <<handlers, process>>
    \/ /\ MainStep("closing", "draining") /\ CloseChannel
       /\ UNCHANGED <<cancelled, stopCh, dbOpen, hasty>>

\* Mutation: the server is closed at once.
DrainNothing ==
    /\ MainStep("draining", "drained")
    /\ UNCHANGED <<vars, cancelled, stopCh, dbOpen, hasty>>

\* srv.Shutdown returns when no request is left ...
Drain ==
    /\ MainStep("draining", "drained") /\ Handling = {}
    /\ UNCHANGED <<vars, cancelled, stopCh, dbOpen, hasty>>

\* Mutation: Shutdown under a context without a deadline.
DrainNoTimeout == FALSE

\* Nobody is between two steps of the queue: that takes no 30 seconds, whereas
\* the calls of a handler may, and so may waiting.
Settled ==
    \A r \in Request :
      \/ pc[r] \in {"arriving", "holding", "done"}
      \/ pc[r] = "selecting" /\ ~CanSend(r) /\ ~CanRefuse(r)

\* ... or after 30 seconds.
DrainTimeout ==
    /\ MainStep("draining", "drained") /\ Settled
    /\ hasty' = TRUE
    /\ UNCHANGED <<vars, cancelled, stopCh, dbOpen>>

\* close(m.stopCh)
StopPool ==
    /\ MainStep("drained", "waiting")
    /\ stopCh' = TRUE
    /\ UNCHANGED <<vars, cancelled, dbOpen, hasty>>

\* Mutation: Stop closes the channel and returns.
WaitNothing ==
    /\ MainStep("waiting", "stopped")
    /\ UNCHANGED <<vars, cancelled, stopCh, dbOpen, hasty>>

\* m.wg.Wait()
WaitWorkers ==
    /\ MainStep("waiting", "stopped")
    /\ \A w \in Worker : worker[w] = "stopped"
    /\ UNCHANGED <<vars, cancelled, stopCh, dbOpen, hasty>>

\* database.Close(), cancel(), and main returns or exits.
CloseDatabase ==
    /\ main = "stopped" /\ dbOpen
    /\ dbOpen' = FALSE
    /\ UNCHANGED <<vars, handlers, main, cancelled, stopCh, worker, hasty>>

Exit ==
    /\ MainStep("stopped", "exited") /\ ~dbOpen
    /\ cancelled' = TRUE
    /\ UNCHANGED <<vars, stopCh, dbOpen, hasty>>

-----------------------------------------------------------------------------
Handler(r) ==
    \/ CreateExecution(r) \/ CreateExecutionFails(r)
    \/ ClaimSandbox(r) \/ ClaimSandboxFails(r)
    \/ Execute(r) \/ CompleteExecution(r) \/ DeleteSandbox(r)
    \/ ReleaseStep(r)

Run ==
    \/ ShutDown \/ CloseQueue \/ Drain \/ DrainTimeout
    \/ StopPool \/ WaitWorkers \/ CloseDatabase \/ Exit

BoxNext ==
    \/ Signal \/ ServeFails \/ Run
    \/ \E r \in Request : AcquireStep(r) \/ Handler(r)
    \/ \E w \in Worker : TickerFires(w) \/ PassEnds(w) \/ WorkerReturns(w)

BoxSpec == BoxInit /\ [][BoxNext]_boxVars

\* Goroutines run; the 30 seconds of Shutdown pass; a pass of a ticker ends, as
\* each of its calls has a timeout; a select that finds its channel closed again
\* and again takes that case at last.  Nothing is assumed of the code that an
\* execution runs, of clients, or of maxWait.
BoxFairness ==
    /\ WF_boxVars(Run)
    /\ \A r \in Request :
          /\ WF_boxVars(AcquireStep(r) /\ (Enter(r) \/ Grant(r) \/ Leave(r)))
          /\ WF_boxVars(AcquireStep(r) /\ (Send(r) \/ Refuse(r)))
          /\ WF_boxVars(ReleaseStep(r) /\ Release(r))
    /\ \A w \in Worker : WF_boxVars(PassEnds(w)) /\ SF_boxVars(WorkerReturns(w))

FairBoxSpec == BoxSpec /\ BoxFairness

\* How far the work on r's execution has come, for module ExecutionLife.
lifeOf == [r \in Request |->
    CASE stage[r] = "none" -> "new" [] stage[r] \in {"created", "unlucky"} -> "started"
      [] stage[r] \in {"leased", "inside"} -> "working" [] OTHER -> "over"]
shortOf == [r \in Request |-> unsaved[r] # "no"]

Lives == INSTANCE ExecutionLife WITH Exec <- Request, life <- lifeOf, short <- shortOf

-----------------------------------------------------------------------------
(* Properties.                                                             *)

BoxTypeOK ==
    /\ TypeOK
    /\ stage \in [Request -> Stage]
    /\ row \in [Request -> {"none", "open", "ended"}]
    /\ unsaved \in [Request -> {"no", "failed", "closed"}]
    /\ lease \in [Sandbox -> Lease!LeaseStage]
    /\ holder \in [Sandbox -> Request \cup {NoRequest}]
    /\ main \in MainAt /\ cancelled \in BOOLEAN /\ stopCh \in BOOLEAN
    /\ worker \in [Worker -> {"waiting", "working", "stopped"}]
    /\ dbOpen \in BOOLEAN /\ hasty \in BOOLEAN

InUse == {s \in Sandbox : lease[s] \in {"leased", "inside"}}

\* QUEUE_MAX_CONCURRENT bounds the sandboxes in use, not just the requests let
\* through: each is given up before the slot it was claimed under is released.
SlotsBoundLeases == Cardinality(InUse) <= MaxConcurrent

\* A shutdown that waits for its requests ends every execution: no row is left
\* open and no sandbox in use, but for a row whose own last write failed while
\* the database was there to take it.
GracefulIsClean ==
    main = "exited" /\ ~hasty =>
      /\ \A r \in Request : row[r] = "open" => unsaved[r] = "failed"
      /\ InUse = {}

\* No ticker is at work on a database that has been closed under it.
WorkersStopped == dbOpen \/ \A w \in Worker : worker[w] = "stopped"

\* After a signal the process ends, though the code it runs for a client may not.
ShutdownEnds == cancelled ~> main = "exited"

\* Close turns everybody away who waits for a slot, or lets them run: when the
\* server stops waiting for its requests, all that are left are executions.
NobodyLeftWaiting ==
    closing = "closed" /\ main # "draining" => At({"entering", "selecting"}) = {}

=============================================================================
