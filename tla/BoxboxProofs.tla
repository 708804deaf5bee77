---------------------------- MODULE BoxboxProofs ----------------------------
(***************************************************************************)
(* For any requests, sandboxes, tickers and capacity: the process uses the *)
(* queue and the pool as their modules say, so that what is proved of them *)
(* holds here, and it ends what it has started before it closes what that  *)
(* needs.                                                                  *)
(***************************************************************************)
EXTENDS Boxbox, ExecQueueProofs

\* The process does with the queue only what module ExecQueue describes.
LEMMA QueueOrStutter == ASSUME [BoxNext]_boxVars PROVE [Next]_vars
<1>1. ASSUME NEW r \in Request, AcquireStep(r) \/ ReleaseStep(r) PROVE Next
    BY <1>1 DEF AcquireStep, ReleaseStep, Next
<1>2. ASSUME NEW r \in Request, NEW a, NEW b, StageStep(r, a, b) PROVE UNCHANGED vars
    BY <1>2 DEF StageStep
<1>3. ASSUME NEW r \in Request, Handler(r) PROVE [Next]_vars
    BY <1>1, <1>2, <1>3 DEF Handler, CreateExecution, CreateExecutionFails, ClaimSandbox,
       ClaimSandboxFails, Execute, CompleteExecution, DeleteSandbox
<1>4. ASSUME Run PROVE [Next]_vars
    BY <1>4 DEF Run, ShutDown, CloseQueue, Drain, DrainTimeout, StopPool, WaitWorkers,
       CloseDatabase, Exit, Next
<1>5. ASSUME NEW w \in Worker, TickerFires(w) \/ PassEnds(w) \/ WorkerReturns(w)
      PROVE  UNCHANGED vars
    BY <1>5 DEF TickerFires, PassEnds, WorkerReturns, WorkerStep
<1> QED
    BY <1>1, <1>3, <1>4, <1>5 DEF BoxNext, Signal, ServeFails, boxVars, vars

\* So every theorem about ExecQueue is one about the process.
THEOREM UsesQueue == BoxSpec => Spec
<1>1. BoxInit => Init
    BY DEF BoxInit
<1> QED BY <1>1, QueueOrStutter, PTL DEF BoxSpec, Spec

\* The handlers take, enter and give up sandboxes as the pool promises.
THEOREM UsesLeases == BoxSpec => Lease!LeaseSpec
<1>1. BoxInit => Lease!LeaseInit
    BY DEF BoxInit
<1>2. ASSUME [BoxNext]_boxVars PROVE [Lease!LeaseNext]_(Lease!leaseVars)
    <2> USE DEF Lease!LeaseNext, Lease!leaseVars
    <2>1. ASSUME NEW r \in Request, Handler(r)
          PROVE  [Lease!LeaseNext]_(Lease!leaseVars)
        <3>1. CASE ClaimSandbox(r)
            BY <3>1 DEF ClaimSandbox
        <3>2. CASE ClaimSandboxFails(r)
            BY <3>2 DEF ClaimSandboxFails
        <3>3. CASE Execute(r)
            BY <3>3 DEF Execute, Leased
        <3>4. CASE DeleteSandbox(r)
            BY <3>4 DEF DeleteSandbox, Leased
        <3>5. CASE CreateExecution(r) \/ CreateExecutionFails(r) \/ CompleteExecution(r)
                     \/ ReleaseStep(r)
            BY <3>5 DEF CreateExecution, CreateExecutionFails, CompleteExecution,
               ReleaseStep, handlers
        <3> QED BY <2>1, <3>1, <3>2, <3>3, <3>4, <3>5 DEF Handler
    <2>2. ASSUME NEW r \in Request, AcquireStep(r) PROVE UNCHANGED <<lease, holder>>
        BY <2>2 DEF AcquireStep, handlers
    <2>3. ASSUME NEW w \in Worker, TickerFires(w) \/ PassEnds(w) \/ WorkerReturns(w)
          PROVE  UNCHANGED <<lease, holder>>
        BY <2>3 DEF TickerFires, PassEnds, WorkerReturns, WorkerStep, handlers
    <2>4. ASSUME Run \/ Signal \/ ServeFails PROVE UNCHANGED <<lease, holder>>
        BY <2>4 DEF Run, ShutDown, CloseQueue, Drain, DrainTimeout, StopPool, WaitWorkers,
           CloseDatabase, Exit, Signal, ServeFails, MainStep, handlers
    <2> QED
        BY <1>2, <2>1, <2>2, <2>3, <2>4 DEF BoxNext, boxVars, handlers
<1> QED BY <1>1, <1>2, PTL DEF BoxSpec, Lease!LeaseSpec

-----------------------------------------------------------------------------
(* The types of what Boxbox adds to the queue.                             *)

BoxTypes ==
    /\ stage \in [Request -> Stage]
    /\ row \in [Request -> {"none", "open", "ended"}]
    /\ unsaved \in [Request -> {"no", "failed", "closed"}]
    /\ lease \in [Sandbox -> Lease!LeaseStage]
    /\ holder \in [Sandbox -> Request \cup {NoRequest}]
    /\ main \in MainAt /\ cancelled \in BOOLEAN /\ stopCh \in BOOLEAN
    /\ worker \in [Worker -> {"waiting", "working", "stopped"}]
    /\ dbOpen \in BOOLEAN /\ hasty \in BOOLEAN

\* A handler changes stages, rows and leases within their types.
LEMMA HandlerTypes ==
    ASSUME BoxTypes, NEW r \in Request, Handler(r)
    PROVE  BoxTypes'
<1> USE DEF BoxTypes, Stage
<1>0. ASSUME NEW a, NEW b \in Stage, StageStep(r, a, b)
      PROVE  stage' \in [Request -> Stage] /\ UNCHANGED process
    BY <1>0 DEF StageStep
<1>1. CASE CreateExecution(r)
    <2>1. StageStep(r, "none", "created") /\ UNCHANGED <<unsaved, lease, holder>>
          /\ row' = [row EXCEPT ![r] = "open"]
        BY <1>1 DEF CreateExecution
    <2> QED BY <2>1, <1>0 DEF process
<1>w. ASSUME NEW st \in {"open", "ended"}, WriteFails(r, st)
      PROVE  /\ row' \in [Request -> {"none", "open", "ended"}]
             /\ unsaved' \in [Request -> {"no", "failed", "closed"}]
    <2>1. unsaved' \in [Request -> {"no", "failed", "closed"}]
        BY <1>w DEF WriteFails
    <2>2. row' \in [Request -> {"none", "open", "ended"}]
        BY <1>w DEF WriteFails
    <2> QED BY <2>1, <2>2
<1>2. CASE CreateExecutionFails(r)
    BY <1>2, <1>0, <1>w DEF CreateExecutionFails, process
<1>3. ASSUME NEW s \in Sandbox, Lease!Lease(s, r)
      PROVE  /\ lease' \in [Sandbox -> Lease!LeaseStage]
             /\ holder' \in [Sandbox -> Request \cup {NoRequest}]
    BY <1>3 DEF Lease!Lease, Lease!LeaseStage
<1>4. CASE ClaimSandbox(r)
    BY <1>4, <1>0, <1>3 DEF ClaimSandbox, process
<1>5. CASE ClaimSandboxFails(r)
    BY <1>5, <1>0, <1>3 DEF ClaimSandboxFails, process
<1>6. CASE Execute(r)
    <2>1. PICK s \in Leased(r) : Lease!Enter(s)
        BY <1>6 DEF Execute
    <2>2. lease' \in [Sandbox -> Lease!LeaseStage] /\ holder' = holder
        BY <2>1 DEF Leased, Lease!Enter, Lease!LeaseStage
    <2> QED BY <1>6, <2>2, <1>0 DEF Execute, process
<1>7. CASE CompleteExecution(r)
    <2>1. stage' \in [Request -> Stage] /\ UNCHANGED process
        BY <1>7, <1>0 DEF CompleteExecution
    <2>2. /\ row' \in [Request -> {"none", "open", "ended"}]
          /\ unsaved' \in [Request -> {"no", "failed", "closed"}]
          /\ UNCHANGED <<lease, holder>>
        BY <1>7, <1>w DEF CompleteExecution
    <2> QED BY <2>1, <2>2 DEF process
<1>8. CASE DeleteSandbox(r)
    <2>1. lease' \in [Sandbox -> Lease!LeaseStage] /\ holder' = holder
        BY <1>8 DEF DeleteSandbox, Lease!Spend, Lease!LeaseStage
    <2> QED BY <1>8, <2>1, <1>0 DEF DeleteSandbox, process
<1>9. CASE ReleaseStep(r)
    BY <1>9 DEF ReleaseStep, handlers, process
<1> QED
    BY <1>1, <1>2, <1>4, <1>5, <1>6, <1>7, <1>8, <1>9 DEF Handler

\* So do the other steps.
LEMMA BoxTypesStep ==
    ASSUME BoxTypes, [BoxNext]_boxVars
    PROVE  BoxTypes'
<1> USE DEF BoxTypes
<1>1. ASSUME NEW r \in Request, AcquireStep(r) PROVE BoxTypes'
    BY <1>1 DEF AcquireStep, handlers, process
<1>2. ASSUME NEW w \in Worker, TickerFires(w) \/ PassEnds(w) \/ WorkerReturns(w)
      PROVE  BoxTypes'
    BY <1>2 DEF TickerFires, PassEnds, WorkerReturns, WorkerStep, handlers
<1>3. CASE Run \/ Signal \/ ServeFails
    BY <1>3 DEF Run, ShutDown, CloseQueue, Drain, DrainTimeout, StopPool, WaitWorkers,
       CloseDatabase, Exit, Signal, ServeFails, MainStep, MainAt, handlers, process
<1>4. CASE UNCHANGED boxVars
    BY <1>4 DEF boxVars, handlers, process
<1> QED
    BY <1>1, <1>2, <1>3, <1>4, HandlerTypes DEF BoxNext

\* Every variable of the process keeps its type.
THEOREM BoxTypeCorrect == BoxSpec => []BoxTypeOK
<1>1. BoxInit => BoxTypes
    <2> SUFFICES ASSUME BoxInit PROVE BoxTypes
        OBVIOUS
    <2>1. /\ lease \in [Sandbox -> Lease!LeaseStage]
          /\ holder \in [Sandbox -> Request \cup {NoRequest}]
        BY DEF BoxInit, Lease!LeaseInit, Lease!LeaseStage
    <2>2. /\ stage \in [Request -> Stage]
          /\ row \in [Request -> {"none", "open", "ended"}]
          /\ unsaved \in [Request -> {"no", "failed", "closed"}]
        BY DEF BoxInit, Stage
    <2> QED BY <2>1, <2>2 DEF BoxInit, BoxTypes, MainAt
<1>2. BoxTypes /\ TypeOK => BoxTypeOK
    BY DEF BoxTypes, BoxTypeOK
<1>3. BoxTypes /\ [BoxNext]_boxVars => BoxTypes'
    BY BoxTypesStep
<1> QED
    BY <1>1, <1>2, <1>3, UsesQueue, QueueTypeCorrect, PTL DEF BoxSpec

-----------------------------------------------------------------------------
(* The inductive invariant.                                                *)

Over == main \in {"drained", "waiting", "stopped", "exited"}

\* The order in which the process takes things down.
ProcessInv ==
    /\ main = "serving" => closing = "open"
    /\ main = "closing" => closing # "closed"
    /\ main = "draining" => closing = "closed"
    /\ Over /\ ~hasty => Handling = {}
    /\ Over /\ closing # "open" => closing = "closed" /\ At({"entering", "selecting"}) = {}
    /\ main \in {"stopped", "exited"} => \A w \in Worker : worker[w] = "stopped"
    /\ ~dbOpen => main \in {"stopped", "exited"}

Busy == {"created", "unlucky", "leased", "inside"}

\* What a request has done is undone before its slot is released.
HandlerInv ==
    \A r \in Request :
      /\ stage[r] \notin {"none", "finished"} => pc[r] = "holding"
      /\ stage[r] = "finished" => pc[r] \in {"holding", "releasing", "done"}
      /\ pc[r] = "releasing" => stage[r] = "finished"
      /\ row[r] = "open" => unsaved[r] = "failed" \/ hasty \/ stage[r] \in Busy

\* A sandbox in use belongs to a request that has claimed just that one.
HeldInv ==
    /\ \A s \in InUse : /\ holder[s] \in Request
                        /\ stage[holder[s]] \in {"leased", "inside", "completed"}
    /\ \A s, t \in InUse : holder[s] = holder[t] => s = t

BoxInv == QueueInv /\ BoxTypes /\ ProcessInv /\ HandlerInv /\ HeldInv

USE DEF At

\* Requests come, wait and leave: those that come after the drain are refused.
LEMMA AcquireBox ==
    ASSUME BoxInv, NEW r \in Request, AcquireStep(r)
    PROVE  ProcessInv' /\ HandlerInv' /\ HeldInv'
<1>1. /\ UNCHANGED <<stage, row, unsaved, lease, holder, main, cancelled, stopCh, worker,
                     dbOpen, hasty>>
      /\ main # "exited"
      /\ Over /\ ~hasty => pc[r] \in PC \ {"arriving", "done"}
    BY DEF AcquireStep, Alive, Connected, Handling, handlers, process, Over, MainAt, BoxInv,
       BoxTypes
<1>2. /\ pc \in [Request -> PC] /\ closing \in {"open", "stored", "closed"}
      /\ closed = (closing # "open")
    BY DEF BoxInv, QueueInv, TypeOK
<1>3. \E p \in PC :
         /\ Goto(r, p) /\ closing' = closing
         /\ pc[r] \notin {"holding", "releasing", "done"} /\ p # "releasing"
         /\ p = "entering" => pc[r] = "arriving" /\ closing = "open"
         /\ p = "selecting" => pc[r] = "entering"
    BY <1>2 DEF AcquireStep, Acquire, Check, Enter, Send, CanSend, Grant, Timeout, Cancel,
       Refuse, CanRefuse, Leave, PC, counters
<1>4. PICK p \in PC :
         /\ pc' = [pc EXCEPT ![r] = p] /\ closing' = closing
         /\ pc[r] \notin {"holding", "releasing", "done"} /\ p # "releasing"
         /\ p = "entering" => pc[r] = "arriving" /\ closing = "open"
         /\ p = "selecting" => pc[r] = "entering"
    BY <1>3 DEF Goto
<1>5. ProcessInv'
    <2>1. ~(Over /\ ~hasty)
        BY <1>1 DEF BoxInv, ProcessInv, Handling
    <2>2. Over /\ closing # "open" => At({"entering", "selecting"})' = {}
        BY <1>2, <1>4 DEF BoxInv, ProcessInv
    <2> QED BY <1>1, <1>4, <2>1, <2>2 DEF BoxInv, ProcessInv, Over
<1>6. HandlerInv'
    BY <1>1, <1>2, <1>4 DEF BoxInv, HandlerInv
<1>7. HeldInv'
    BY <1>1 DEF BoxInv, HeldInv, InUse
<1> QED BY <1>5, <1>6, <1>7

\* A handler changes its own stage, row and sandbox, and nothing of the process.
LEMMA HandlerBox ==
    ASSUME BoxInv, NEW r \in Request, Handler(r)
    PROVE  ProcessInv' /\ HandlerInv' /\ HeldInv'
<1> USE DEF BoxInv
<1>0. /\ pc \in [Request -> PC] /\ stage \in [Request -> Stage]
      /\ row \in [Request -> {"none", "open", "ended"}] /\ unsaved \in [Request -> {"no", "failed", "closed"}]
      /\ lease \in [Sandbox -> Lease!LeaseStage]
      /\ holder \in [Sandbox -> Request \cup {NoRequest}]
    BY DEF QueueInv, TypeOK, BoxTypes
<1>a. ASSUME NEW a, NEW b, StageStep(r, a, b)
      PROVE  /\ pc[r] = "holding" /\ stage[r] = a /\ stage' = [stage EXCEPT ![r] = b]
             /\ UNCHANGED <<pc, closing, main, worker, dbOpen, hasty>>
    BY <1>a DEF StageStep, vars, process
<1>b. ASSUME NEW a, NEW b, StageStep(r, a, b) PROVE ProcessInv'
    BY <1>a, <1>b DEF ProcessInv, Over, Handling
<1>c. ASSUME NEW a, NEW b \in Busy \cup {"completed", "finished"}, StageStep(r, a, b),
             row[r] = "open" => b \in Busy,
             UNCHANGED <<row, unsaved>>
      PROVE  HandlerInv'
    BY <1>0, <1>a, <1>c DEF HandlerInv, Busy
<1>d. ASSUME NEW a, NEW b, StageStep(r, a, b), UNCHANGED <<lease, holder>>,
             a \in {"leased", "inside", "completed"} => b \in {"leased", "inside", "completed"}
      PROVE  HeldInv'
    BY <1>0, <1>a, <1>d DEF HeldInv, InUse
<1>e. ASSUME NEW a, NEW b \in {"completed", "finished"}, StageStep(r, a, b),
             NEW st \in {"open", "ended"}, WriteFails(r, st)
      PROVE  HandlerInv'
    <2>1. dbOpen \/ hasty
        <3>1. r \in Handling
            BY <1>a, <1>e DEF Handling, PC
        <3> QED BY <3>1 DEF ProcessInv, Over
    <2>2. /\ unsaved' = [unsaved EXCEPT ![r] = IF dbOpen THEN "failed" ELSE "closed"]
          /\ \A q \in Request : q # r => row'[q] = row[q]
        BY <1>0, <1>e DEF WriteFails
    <2> QED BY <1>0, <1>a, <1>e, <2>1, <2>2 DEF HandlerInv, Busy
<1>1. CASE CreateExecution(r)
    <2>1. StageStep(r, "none", "created") /\ UNCHANGED <<unsaved, lease, holder>>
          /\ row' = [row EXCEPT ![r] = "open"]
        BY <1>1 DEF CreateExecution
    <2>2. HandlerInv'
        BY <1>0, <1>a, <2>1 DEF HandlerInv, Busy
    <2> QED BY <1>b, <1>d, <2>1, <2>2
<1>2. CASE CreateExecutionFails(r)
    <2>1. StageStep(r, "none", "finished") /\ WriteFails(r, "open")
          /\ UNCHANGED <<lease, holder>>
        BY <1>2 DEF CreateExecutionFails
    <2>2. HandlerInv'
        BY <1>e, <2>1
    <2> QED BY <1>b, <1>d, <2>1, <2>2
<1>3. CASE ClaimSandbox(r)
    <2>1. StageStep(r, "created", "leased") /\ UNCHANGED <<row, unsaved>>
        BY <1>3 DEF ClaimSandbox
    <2>2. PICK s \in Sandbox : Lease!Lease(s, r) /\ lease'[s] = "leased"
        BY <1>3 DEF ClaimSandbox
    <2>3. /\ lease' = [lease EXCEPT ![s] = "leased"] /\ holder' = [holder EXCEPT ![s] = r]
          /\ stage[r] = "created" /\ stage' = [stage EXCEPT ![r] = "leased"]
        BY <1>0, <1>a, <2>1, <2>2 DEF Lease!Lease
    <2>4. InUse' = InUse \cup {s} /\ \A t \in InUse : holder[t] # r
        BY <1>0, <2>3 DEF InUse, HeldInv
    <2>5. HeldInv'
        BY <1>0, <2>3, <2>4 DEF HeldInv, InUse
    <2>6. HandlerInv'
        BY <2>1, <1>c DEF Busy
    <2> QED BY <1>b, <2>1, <2>5, <2>6
<1>4. CASE ClaimSandboxFails(r)
    <2>1. StageStep(r, "created", "unlucky") /\ UNCHANGED <<row, unsaved>>
        BY <1>4 DEF ClaimSandboxFails
    <2>2. HeldInv'
        <3>1. CASE UNCHANGED <<lease, holder>>
            BY <1>d, <2>1, <3>1
        <3>2. ASSUME NEW s \in Sandbox, Lease!Lease(s, r) /\ lease'[s] = "spent"
              PROVE  HeldInv'
            <4>1. /\ lease[s] = "fresh" /\ lease' = [lease EXCEPT ![s] = "spent"]
                  /\ holder' = [holder EXCEPT ![s] = r]
                  /\ stage[r] = "created" /\ stage' = [stage EXCEPT ![r] = "unlucky"]
                BY <1>0, <1>a, <2>1, <3>2 DEF Lease!Lease
            <4>2. InUse' = InUse /\ s \notin InUse /\ \A t \in InUse : holder[t] # r
                BY <1>0, <4>1 DEF InUse, HeldInv
            <4> QED BY <1>0, <4>1, <4>2 DEF HeldInv, InUse
        <3> QED BY <1>4, <3>1, <3>2 DEF ClaimSandboxFails
    <2>3. HandlerInv'
        BY <2>1, <1>c DEF Busy
    <2> QED BY <1>b, <2>1, <2>2, <2>3
<1>5. CASE Execute(r)
    <2>1. StageStep(r, "leased", "inside") /\ UNCHANGED <<row, unsaved>>
        BY <1>5 DEF Execute
    <2>2. PICK s \in Leased(r) : Lease!Enter(s)
        BY <1>5 DEF Execute
    <2>3. InUse' = InUse /\ holder' = holder
        BY <1>0, <2>2 DEF Lease!Enter, InUse, Leased
    <2>4. HeldInv'
        BY <1>0, <1>a, <2>1, <2>3 DEF HeldInv, InUse
    <2>5. HandlerInv'
        BY <2>1, <1>c DEF Busy
    <2> QED BY <1>b, <2>1, <2>4, <2>5
<1>6. CASE CompleteExecution(r)
    <2>1. PICK a \in {"inside", "unlucky"}, b \in {"completed", "finished"} :
              StageStep(r, a, b) /\ (a = "inside" => b = "completed")
        BY <1>6 DEF CompleteExecution
    <2>2. UNCHANGED <<lease, holder>>
        BY <1>6 DEF CompleteExecution
    <2>3. HeldInv'
        BY <1>d, <2>1, <2>2
    <2>4. HandlerInv'
        <3>1. CASE row' = [row EXCEPT ![r] = "ended"] /\ UNCHANGED unsaved
            BY <1>0, <1>a, <2>1, <3>1 DEF HandlerInv, Busy
        <3>2. CASE WriteFails(r, "ended")
            BY <1>e, <2>1, <3>2
        <3> QED BY <1>6, <3>1, <3>2 DEF CompleteExecution
    <2> QED BY <1>b, <2>1, <2>3, <2>4
<1>7. CASE DeleteSandbox(r)
    <2>1. StageStep(r, "completed", "finished") /\ UNCHANGED <<row, unsaved>>
        BY <1>7 DEF DeleteSandbox
    <2>2. InUse' = InUse \ Leased(r) /\ holder' = holder
        BY <1>7 DEF DeleteSandbox, Lease!Spend, InUse, Leased
    <2>3. HeldInv'
        <3>1. /\ stage' = [stage EXCEPT ![r] = "finished"]
              /\ \A s \in InUse' : s \in InUse /\ holder[s] # r
            BY <1>a, <2>1, <2>2 DEF InUse, Leased
        <3> QED BY <1>0, <2>2, <3>1 DEF HeldInv
    <2>4. HandlerInv'
        BY <1>0, <1>a, <2>1 DEF HandlerInv, Busy
    <2> QED BY <1>b, <2>1, <2>3, <2>4
<1>8. CASE ReleaseStep(r)
    <2>1. PICK p \in {"releasing", "done"} :
              /\ pc' = [pc EXCEPT ![r] = p] /\ pc[r] \in {"holding", "releasing"}
              /\ stage[r] = "finished" /\ closing' = closing
              /\ UNCHANGED <<handlers, process>>
        BY <1>8 DEF ReleaseStep, Receive, Release, Goto, counters
    <2>2. ProcessInv'
        BY <1>0, <2>1 DEF ProcessInv, Over, Handling, PC, process
    <2>3. HandlerInv'
        BY <1>0, <2>1 DEF HandlerInv, Busy, handlers, process
    <2>4. HeldInv'
        BY <2>1 DEF HeldInv, InUse, handlers
    <2> QED BY <2>2, <2>3, <2>4
<1> QED
    BY <1>1, <1>2, <1>3, <1>4, <1>5, <1>6, <1>7, <1>8 DEF Handler

\* The steps of the process leave the handlers alone and keep their order.
LEMMA ProcessBox ==
    ASSUME BoxInv,
           \/ Run \/ Signal \/ ServeFails \/ UNCHANGED boxVars
           \/ \E w \in Worker : TickerFires(w) \/ PassEnds(w) \/ WorkerReturns(w)
    PROVE  ProcessInv' /\ HandlerInv' /\ HeldInv'
<1> USE DEF BoxInv
<1>0. /\ pc \in [Request -> PC] /\ closing \in {"open", "stored", "closed"}
      /\ worker \in [Worker -> {"waiting", "working", "stopped"}]
    BY DEF QueueInv, TypeOK, BoxTypes
<1>1. UNCHANGED <<pc, handlers>> /\ (hasty => hasty')
    BY DEF Run, ShutDown, CloseQueue, CloseStore, CloseChannel, Drain, DrainTimeout, StopPool,
       WaitWorkers, CloseDatabase, Exit, Signal, ServeFails, MainStep, TickerFires, PassEnds,
       WorkerReturns, WorkerStep, boxVars, vars, process
<1>2. HandlerInv' /\ HeldInv'
    BY <1>1 DEF HandlerInv, HeldInv, InUse, handlers
<1>3. At({"entering", "selecting"})' = At({"entering", "selecting"}) /\ Handling' = Handling
    BY <1>1 DEF Handling
<1>4. CASE ShutDown \/ ServeFails \/ Signal \/ UNCHANGED boxVars
    BY <1>2, <1>3, <1>4 DEF ShutDown, ServeFails, Signal, MainStep, boxVars, vars, process,
       ProcessInv, Over
<1>5. CASE CloseQueue
    BY <1>2, <1>3, <1>5 DEF CloseQueue, CloseStore, CloseChannel, MainStep, process,
       ProcessInv, Over
<1>6. CASE Drain
    <2>1. At({"entering", "selecting"}) = {}
        BY <1>6 DEF Drain, Handling, PC
    <2> QED BY <1>2, <1>3, <1>6, <2>1 DEF Drain, MainStep, vars, ProcessInv, Over
<1>7. CASE DrainTimeout
    <2>1. closing = "closed"
        BY <1>7 DEF DrainTimeout, MainStep, ProcessInv
    <2>2. At({"entering", "selecting"}) = {}
        BY <1>7, <2>1 DEF DrainTimeout, Settled, CanRefuse
    <2> QED BY <1>2, <1>3, <1>7, <2>1, <2>2 DEF DrainTimeout, MainStep, vars, ProcessInv, Over
<1>8. CASE StopPool \/ WaitWorkers \/ CloseDatabase \/ Exit
    BY <1>2, <1>3, <1>8 DEF StopPool, WaitWorkers, CloseDatabase, Exit, MainStep, vars,
       ProcessInv, Over
<1>9. ASSUME NEW w \in Worker, TickerFires(w) \/ PassEnds(w) \/ WorkerReturns(w)
      PROVE  ProcessInv'
    <2>1. PICK a \in {"waiting", "working"}, b \in {"waiting", "working", "stopped"} :
              WorkerStep(w, a, b)
        BY <1>9 DEF TickerFires, PassEnds, WorkerReturns
    <2> QED BY <1>0, <1>3, <2>1 DEF WorkerStep, vars, ProcessInv, Over
<1> QED
    BY <1>2, <1>4, <1>5, <1>6, <1>7, <1>8, <1>9 DEF Run

\* The invariant the theorems rest on.
LEMMA BoxInvariant == BoxSpec => []BoxInv
<1>1. BoxInit => BoxInv
    <2> SUFFICES ASSUME BoxInit PROVE BoxInv
        OBVIOUS
    <2>1. QueueInv
        BY QueueInit DEF BoxInit
    <2>2. /\ lease = [s \in Sandbox |-> "fresh"] /\ holder = [s \in Sandbox |-> NoRequest]
        BY DEF BoxInit, Lease!LeaseInit
    <2>3. InUse = {}
        BY <2>2 DEF InUse
    <2>4. BoxTypes
        BY <2>2 DEF BoxInit, BoxTypes, Stage, MainAt, Lease!LeaseStage
    <2> QED BY <2>1, <2>3, <2>4
            DEF BoxInit, Init, BoxInv, ProcessInv, HandlerInv, HeldInv, Over
<1>2. BoxInv /\ [BoxNext]_boxVars => BoxInv'
    <2> SUFFICES ASSUME BoxInv, [BoxNext]_boxVars PROVE BoxInv'
        OBVIOUS
    <2>1. QueueInv' /\ BoxTypes'
        BY QueueOrStutter, QueueStep, BoxTypesStep DEF BoxInv
    <2>2. ProcessInv' /\ HandlerInv' /\ HeldInv'
        BY AcquireBox, HandlerBox, ProcessBox DEF BoxNext
    <2> QED BY <2>1, <2>2 DEF BoxInv
<1> QED BY <1>1, <1>2, PTL DEF BoxSpec

\* The sandboxes in use map one to one to requests that hold a slot.
LEMMA LeasesFit ==
    ASSUME BoxInv
    PROVE  SlotsBoundLeases
<1> DEFINE f == [s \in InUse |-> holder[s]]
<1>1. \A s \in InUse : holder[s] \in Executing
    BY DEF BoxInv, HandlerInv, HeldInv, Executing
<1>2. f \in Injection(InUse, Executing)
    BY <1>1 DEF BoxInv, HeldInv, Injection, IsInjective
<1>3. IsFiniteSet(Executing) /\ Cardinality(Executing) \in Nat
    BY AtFinite DEF Executing
<1>4. IsFiniteSet(InUse) /\ Cardinality(InUse) <= Cardinality(Executing)
    BY <1>2, <1>3, FS_Injection
<1>5. Cardinality(InUse) \in Nat
    BY <1>4, FS_CardinalityType
<1>6. Cardinality(Executing) <= MaxConcurrent
    BY DEF BoxInv, QueueInv, SlotsMatch
<1> QED
    BY <1>3, <1>4, <1>5, <1>6, MaxConcurrentAssumption DEF SlotsBoundLeases

\* The queue's limit is a limit on sandboxes in use.
THEOREM SlotsBoundLeasesHolds == BoxSpec => []SlotsBoundLeases
BY BoxInvariant, LeasesFit, PTL

\* A shutdown that was not cut short leaves nothing unfinished behind.
THEOREM GracefulIsCleanHolds == BoxSpec => []GracefulIsClean
<1>1. BoxInv => GracefulIsClean
    <2> SUFFICES ASSUME BoxInv, main = "exited", ~hasty
                 PROVE  /\ \A r \in Request : row[r] = "open" => unsaved[r] = "failed"
                        /\ InUse = {}
        BY DEF GracefulIsClean
    <2>1. \A r \in Request : pc[r] \in {"arriving", "done"}
        BY DEF BoxInv, ProcessInv, Over, Handling, QueueInv, TypeOK
    <2>2. \A r \in Request : stage[r] \in {"none", "finished"}
        BY <2>1 DEF BoxInv, HandlerInv
    <2> QED BY <2>2 DEF BoxInv, HandlerInv, HeldInv, Busy
<1> QED BY <1>1, BoxInvariant, PTL

\* The database is closed after the last ticker has ended.
THEOREM WorkersStoppedHolds == BoxSpec => []WorkersStopped
<1>1. BoxInv => WorkersStopped
    BY DEF BoxInv, ProcessInv, WorkersStopped
<1> QED BY <1>1, BoxInvariant, PTL

\* Once Shutdown has returned, nobody waits for a slot of the closed queue.
THEOREM NobodyLeftWaitingHolds == BoxSpec => []NobodyLeftWaiting
<1>1. BoxInv => NobodyLeftWaiting
    BY DEF BoxInv, BoxTypes, MainAt, ProcessInv, Over, NobodyLeftWaiting
<1> QED BY <1>1, BoxInvariant, PTL

-----------------------------------------------------------------------------
(* The promise about an execution's row.                                   *)

\* Each step of a handler is one of the life of its execution, or none.
LEMMA LifeOfHandler ==
    ASSUME BoxTypes, NEW r \in Request, Handler(r)
    PROVE  [Lives!LifeNext]_(Lives!lifeVars)
<1> USE DEF BoxTypes, Stage
<1>0. ASSUME NEW a \in Stage, NEW b \in Stage, StageStep(r, a, b)
      PROVE  /\ stage[r] = a /\ stage' = [stage EXCEPT ![r] = b]
             /\ stage'[r] = b /\ \A q \in Request : q # r => stage'[q] = stage[q]
    BY <1>0 DEF StageStep
<1>s. ASSUME UNCHANGED unsaved PROVE UNCHANGED shortOf
    BY <1>s DEF shortOf
<1>1. CASE CreateExecution(r)
    <2>1. StageStep(r, "none", "created") /\ UNCHANGED unsaved
          /\ row' = [row EXCEPT ![r] = "open"]
        BY <1>1 DEF CreateExecution
    <2>2. lifeOf[r] = "new" /\ lifeOf' = [lifeOf EXCEPT ![r] = "started"]
        BY <1>0, <2>1 DEF lifeOf
    <2>3. Lives!Begin(r)
        BY <1>s, <2>1, <2>2 DEF Lives!Begin, Lives!Reaches, Lives!Shows
    <2> QED BY <2>3 DEF Lives!LifeNext
<1>w. ASSUME NEW st, WriteFails(r, st)
      PROVE  /\ shortOf' = [shortOf EXCEPT ![r] = TRUE]
             /\ row' = [row EXCEPT ![r] = st] \/ UNCHANGED row
    <2>1. unsaved'[r] # "no" /\ \A q \in Request : q # r => unsaved'[q] = unsaved[q]
        BY <1>w DEF WriteFails
    <2> QED BY <1>w, <2>1 DEF WriteFails, shortOf
<1>2. CASE CreateExecutionFails(r)
    <2>1. StageStep(r, "none", "finished") /\ WriteFails(r, "open")
        BY <1>2 DEF CreateExecutionFails
    <2>2. lifeOf[r] = "new" /\ lifeOf' = [lifeOf EXCEPT ![r] = "over"]
        BY <1>0, <2>1 DEF lifeOf
    <2>3. Lives!Begin(r)
        BY <1>w, <2>1, <2>2 DEF Lives!Begin, Lives!Reaches, Lives!Shows, Lives!FallsShort
    <2> QED BY <2>3 DEF Lives!LifeNext
<1>3. CASE ClaimSandbox(r)
    <2>1. StageStep(r, "created", "leased") /\ UNCHANGED <<row, unsaved>>
        BY <1>3 DEF ClaimSandbox
    <2>2. stage[r] = "created" /\ stage' = [stage EXCEPT ![r] = "leased"]
        BY <1>0, <2>1
    <2>3. lifeOf[r] = "started"
        BY <2>2 DEF lifeOf
    <2>4. lifeOf' = [lifeOf EXCEPT ![r] = "working"]
        BY <2>2 DEF lifeOf
    <2>5. Lives!Work(r)
        BY <1>s, <2>1, <2>3, <2>4 DEF Lives!Work, Lives!Reaches
    <2> QED BY <2>5 DEF Lives!LifeNext
<1>4. CASE ClaimSandboxFails(r) \/ Execute(r) \/ DeleteSandbox(r) \/ ReleaseStep(r)
    <2>1. UNCHANGED <<row, unsaved>>
        BY <1>4 DEF ClaimSandboxFails, Execute, DeleteSandbox, ReleaseStep, handlers
    <2>2. UNCHANGED lifeOf
        <3>1. CASE ClaimSandboxFails(r)
            BY <1>0, <3>1 DEF ClaimSandboxFails, lifeOf
        <3>2. CASE Execute(r)
            BY <1>0, <3>2 DEF Execute, lifeOf
        <3>3. CASE DeleteSandbox(r)
            BY <1>0, <3>3 DEF DeleteSandbox, lifeOf
        <3>4. CASE ReleaseStep(r)
            BY <3>4 DEF ReleaseStep, handlers, lifeOf
        <3> QED BY <1>4, <3>1, <3>2, <3>3, <3>4
    <2> QED BY <1>s, <2>1, <2>2 DEF Lives!lifeVars
<1>5. CASE CompleteExecution(r)
    <2>1. \/ StageStep(r, "inside", "completed")
          \/ StageStep(r, "unlucky", "finished")
        BY <1>5 DEF CompleteExecution
    <2>2. lifeOf[r] \in {"started", "working"} /\ lifeOf' = [lifeOf EXCEPT ![r] = "over"]
        BY <1>0, <2>1 DEF lifeOf
    <2>3. \/ row' = [row EXCEPT ![r] = "ended"] /\ UNCHANGED unsaved
          \/ WriteFails(r, "ended")
        BY <1>5 DEF CompleteExecution
    <2>4. Lives!End(r)
        BY <1>s, <1>w, <2>2, <2>3
           DEF Lives!End, Lives!Reaches, Lives!Shows, Lives!FallsShort
    <2> QED BY <2>4 DEF Lives!LifeNext
<1> QED BY <1>1, <1>2, <1>3, <1>4, <1>5 DEF Handler

\* A handler of the process keeps the promise about its execution's row that
\* KeepsLife of module Execution says the executor keeps.
THEOREM UsesLives == BoxSpec => Lives!LifeSpec
<1>1. BoxInit => Lives!LifeInit
    <2> SUFFICES ASSUME BoxInit PROVE Lives!LifeInit
        OBVIOUS
    <2>1. lifeOf = [r \in Request |-> "new"] /\ shortOf = [r \in Request |-> FALSE]
        BY DEF BoxInit, lifeOf, shortOf
    <2> QED BY <2>1 DEF BoxInit, Lives!LifeInit
<1>2. BoxTypes /\ [BoxNext]_boxVars => [Lives!LifeNext]_(Lives!lifeVars)
    <2> SUFFICES ASSUME BoxTypes, [BoxNext]_boxVars
                 PROVE  [Lives!LifeNext]_(Lives!lifeVars)
        OBVIOUS
    <2>1. ASSUME UNCHANGED handlers PROVE UNCHANGED Lives!lifeVars
        BY <2>1 DEF handlers, Lives!lifeVars, lifeOf, shortOf
    <2>2. \/ UNCHANGED handlers
          \/ \E r \in Request : Handler(r)
        BY DEF BoxNext, boxVars, AcquireStep, TickerFires, PassEnds, WorkerReturns,
           WorkerStep, Run, ShutDown, CloseQueue, Drain, DrainTimeout, StopPool, WaitWorkers,
           CloseDatabase, Exit, Signal, ServeFails, MainStep
    <2> QED BY <2>1, <2>2, LifeOfHandler
<1> QED BY <1>1, <1>2, BoxInvariant, PTL DEF BoxSpec, Lives!LifeSpec, BoxInv

=============================================================================
