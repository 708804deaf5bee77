------------------------------ MODULE ExecQueue ------------------------------
(***************************************************************************)
(* queue/queue.go, with the requests that call Acquire and Release and the *)
(* shutdown that calls Close.  A step is one channel operation or one      *)
(* atomic load, store or add; the adds at the two ends of Acquire that no  *)
(* decision reads are taken together with the step before them.            *)
(***************************************************************************)
EXTENDS Naturals, FiniteSets

CONSTANTS Request,        \* each calls Acquire once, as handleExecute does
          MaxConcurrent   \* QUEUE_MAX_CONCURRENT, the capacity of q.sem

ASSUME RequestAssumption == IsFiniteSet(Request)
ASSUME MaxConcurrentAssumption == MaxConcurrent \in Nat

VARIABLES
    pc,         \* pc[r]: where request r is
    sem,        \* len(q.sem)
    active, waiting, timeouts, total,   \* the four counters of Metrics
    closing,    \* where Close is
    closed,     \* q.closed
    late        \* history: r called Acquire after Close had returned

counters == <<active, waiting, timeouts, total>>
vars == <<pc, sem, counters, closing, closed, late>>

PC == {"arriving", "entering", "selecting", "granted", "holding", "releasing",
       "timedout", "cancelled", "refused", "done"}

Goto(r, p) == pc' = [pc EXCEPT ![r] = p]

Init ==
    /\ pc = [r \in Request |-> "arriving"]
    /\ sem = 0
    /\ active = 0 /\ waiting = 0 /\ timeouts = 0 /\ total = 0
    /\ closing = "open" /\ closed = FALSE
    /\ late = [r \in Request |-> FALSE]

-----------------------------------------------------------------------------
(* Acquire.                                                                *)

\* Mutation: the flag is not looked at.
CheckNothing(r) ==
    /\ pc[r] = "arriving"
    /\ late' = [late EXCEPT ![r] = closing = "closed"]
    /\ Goto(r, "entering")
    /\ UNCHANGED <<sem, counters, closing, closed>>

\* if q.closed.Load() { return ErrQueueClosed }
Check(r) ==
    /\ pc[r] = "arriving"
    /\ late' = [late EXCEPT ![r] = closing = "closed"]
    /\ Goto(r, IF closed THEN "done" ELSE "entering")
    /\ UNCHANGED <<sem, counters, closing, closed>>

Enter(r) ==
    /\ pc[r] = "entering"
    /\ total' = total + 1
    /\ waiting' = waiting + 1
    /\ Goto(r, "selecting")
    /\ UNCHANGED <<sem, active, timeouts, closing, closed, late>>

\* Mutation: the channel is one longer.
CanSendOneMore(r) == pc[r] = "selecting" /\ sem <= MaxConcurrent

CanSend(r) == pc[r] = "selecting" /\ sem < MaxConcurrent

\* case q.sem <- struct{}{}
Send(r) ==
    /\ CanSend(r)
    /\ sem' = sem + 1
    /\ Goto(r, "granted")
    /\ UNCHANGED <<counters, closing, closed, late>>

\* q.activeCount.Add(1), and the deferred q.waitingCount.Add(-1)
Grant(r) ==
    /\ pc[r] = "granted"
    /\ active' = active + 1
    /\ waiting' = waiting - 1
    /\ Goto(r, "holding")
    /\ UNCHANGED <<sem, timeouts, total, closing, closed, late>>

\* Mutation: the case gives up its place itself, and the defer does it again.
TimeoutTwice(r) ==
    /\ pc[r] = "selecting"
    /\ timeouts' = timeouts + 1
    /\ waiting' = waiting - 1
    /\ Goto(r, "timedout")
    /\ UNCHANGED <<sem, active, total, closing, closed, late>>

\* case <-timer.C
Timeout(r) ==
    /\ pc[r] = "selecting"
    /\ timeouts' = timeouts + 1
    /\ Goto(r, "timedout")
    /\ UNCHANGED <<sem, active, waiting, total, closing, closed, late>>

\* case <-ctx.Done(): the client has gone away
Cancel(r) ==
    /\ pc[r] = "selecting"
    /\ Goto(r, "cancelled")
    /\ UNCHANGED <<sem, counters, closing, closed, late>>

\* Mutation: the select has no case for closedCh.
CanRefuseNever(r) == FALSE

CanRefuse(r) == pc[r] = "selecting" /\ closing = "closed"

\* case <-q.closedCh
Refuse(r) ==
    /\ CanRefuse(r)
    /\ Goto(r, "refused")
    /\ UNCHANGED <<sem, counters, closing, closed, late>>

\* Mutation: an error return that skips the deferred decrement.
LeaveCounting(r) ==
    /\ pc[r] \in {"timedout", "cancelled", "refused"}
    /\ waiting' = IF pc[r] = "cancelled" THEN waiting ELSE waiting - 1
    /\ Goto(r, "done")
    /\ UNCHANGED <<sem, active, timeouts, total, closing, closed, late>>

\* The deferred q.waitingCount.Add(-1) of a return without a slot.
Leave(r) ==
    /\ pc[r] \in {"timedout", "cancelled", "refused"}
    /\ waiting' = waiting - 1
    /\ Goto(r, "done")
    /\ UNCHANGED <<sem, active, timeouts, total, closing, closed, late>>

-----------------------------------------------------------------------------
(* Release, deferred by handleExecute, and Close.                          *)

\* Mutation: the handler returns early without releasing.
ReceiveNothing(r) ==
    /\ pc[r] = "holding"
    /\ Goto(r, "releasing")
    /\ UNCHANGED <<sem, counters, closing, closed, late>>

\* <-q.sem
Receive(r) ==
    /\ pc[r] = "holding"
    /\ sem' = sem - 1
    /\ Goto(r, "releasing")
    /\ UNCHANGED <<counters, closing, closed, late>>

Release(r) ==
    /\ pc[r] = "releasing"
    /\ active' = active - 1
    /\ Goto(r, "done")
    /\ UNCHANGED <<sem, waiting, timeouts, total, closing, closed, late>>

\* q.closed.Store(true), then close(q.closedCh)
CloseStore ==
    /\ closing = "open"
    /\ closed' = TRUE /\ closing' = "stored"
    /\ UNCHANGED <<pc, sem, counters, late>>

CloseChannel ==
    /\ closing = "stored"
    /\ closing' = "closed"
    /\ UNCHANGED <<pc, sem, counters, closed, late>>

-----------------------------------------------------------------------------
Acquire(r) ==
    Check(r) \/ Enter(r) \/ Send(r) \/ Grant(r) \/ Timeout(r) \/ Cancel(r)
      \/ Refuse(r) \/ Leave(r)

Next ==
    \/ CloseStore \/ CloseChannel
    \/ \E r \in Request : Acquire(r) \/ Receive(r) \/ Release(r)

Spec == Init /\ [][Next]_vars

-----------------------------------------------------------------------------
(* Properties.                                                             *)

TypeOK ==
    /\ pc \in [Request -> PC]
    /\ sem \in Nat
    /\ active \in Nat /\ waiting \in Nat /\ timeouts \in Nat /\ total \in Nat
    /\ closing \in {"open", "stored", "closed"} /\ closed \in BOOLEAN
    /\ late \in [Request -> BOOLEAN]

At(S) == {r \in Request : pc[r] \in S}

Executing == At({"granted", "holding"})

\* Never more executions at once than QUEUE_MAX_CONCURRENT, and no slot is lost
\* or invented however Acquire returns: the tokens are those of the executing.
SlotsMatch == sem = Cardinality(Executing) /\ sem <= MaxConcurrent

\* The metrics count what they name, up to the add a goroutine is about to do,
\* on every path out of Acquire: none goes negative and none drifts.
MetricsMatch ==
    /\ active = Cardinality(At({"holding", "releasing"}))
    /\ waiting = Cardinality(At({"selecting", "granted", "timedout", "cancelled", "refused"}))

\* Close rejects new requests: one that calls Acquire after Close has returned
\* never gets a slot, however many are free.
LateRefused == \A r \in Request : late[r] => pc[r] \in {"arriving", "done"}

\* The queue implements the semaphore that can be shut, with one token for each
\* who is inside: the flag is the door, and the place of a request is its own.
placeOf == [r \in Request |->
    CASE pc[r] = "arriving" -> "outside"
      [] pc[r] \in {"entering", "selecting"} -> "waiting"
      [] pc[r] \in {"granted", "holding"} -> "inside"
      [] OTHER -> "gone"]

Slots == INSTANCE SlotSemaphore
             WITH Caller <- Request, Capacity <- MaxConcurrent, place <- placeOf, shut <- closed
BoundedSlots == Slots!SlotSpec

=============================================================================
