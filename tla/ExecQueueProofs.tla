--------------------------- MODULE ExecQueueProofs ---------------------------
(***************************************************************************)
(* What holds of ExecQueue for any number of requests and any capacity.    *)
(***************************************************************************)
EXTENDS ExecQueue, FiniteSetTheorems, TLAPS

-----------------------------------------------------------------------------
(* How one request's move changes the number of those that are in S.       *)

\* The requests at a set of places can be counted.
LEMMA AtFinite == \A S : IsFiniteSet(At(S)) /\ Cardinality(At(S)) \in Nat
BY RequestAssumption, FS_Subset, FS_CardinalityType, \A S : At(S) \subseteq Request DEF At

\* A request that arrives at one of the places adds one.
LEMMA MoveIn ==
    ASSUME pc \in [Request -> PC], NEW r \in Request, NEW p \in PC, Goto(r, p),
           NEW S, pc[r] \notin S, p \in S
    PROVE  Cardinality(At(S))' = Cardinality(At(S)) + 1
<1>1. At(S)' = At(S) \cup {r} /\ r \notin At(S)
    BY DEF At, Goto
<1> QED BY <1>1, AtFinite, FS_AddElement

\* A request that leaves them was counted, and takes one away.
LEMMA MoveOut ==
    ASSUME pc \in [Request -> PC], NEW r \in Request, NEW p \in PC, Goto(r, p),
           NEW S, pc[r] \in S, p \notin S
    PROVE  Cardinality(At(S))' = Cardinality(At(S)) - 1 /\ Cardinality(At(S)) > 0
<1>1. At(S)' = At(S) \ {r} /\ r \in At(S)
    BY DEF At, Goto
<1>2. Cardinality(At(S))' = Cardinality(At(S)) - 1
    BY <1>1, AtFinite, FS_RemoveElement
<1>3. Cardinality(At(S)) # 0
    BY <1>1, AtFinite, FS_EmptySet
<1> QED BY <1>2, <1>3, AtFinite

\* Any other move leaves the count alone.
LEMMA MoveAside ==
    ASSUME pc \in [Request -> PC], NEW r \in Request, NEW p \in PC, Goto(r, p),
           NEW S, pc[r] \in S <=> p \in S
    PROVE  Cardinality(At(S))' = Cardinality(At(S))
<1>1. At(S)' = At(S)
    BY DEF At, Goto
<1> QED BY <1>1

-----------------------------------------------------------------------------
(* The inductive invariant.                                                *)

Running  == {"granted", "holding"}
Counted  == {"holding", "releasing"}
Queueing == {"selecting", "granted", "timedout", "cancelled", "refused"}

\* The counters are numbers because they count the requests at some places; a
\* late request is sent away because the flag is set before the channel closes.
QueueInv ==
    /\ TypeOK /\ SlotsMatch /\ MetricsMatch /\ LateRefused
    /\ closed = (closing # "open")

\* All that the steps of a request have in common.
LEMMA CountersStep ==
    ASSUME QueueInv, NEW r \in Request, NEW p \in PC, Goto(r, p),
           sem' = Cardinality(At(Running))', sem' <= MaxConcurrent,
           active' = Cardinality(At(Counted))',
           waiting' = Cardinality(At(Queueing))',
           timeouts' \in Nat, total' \in Nat,
           UNCHANGED <<closing, closed, late>>,
           late[r] => p \in {"arriving", "done"}
    PROVE  QueueInv'
<1>1. pc' \in [Request -> PC]
    BY DEF QueueInv, TypeOK, Goto
<1>2. sem' \in Nat /\ active' \in Nat /\ waiting' \in Nat
    BY RequestAssumption, FS_Subset, FS_CardinalityType, \A S : At(S)' \subseteq Request DEF At
<1>3. TypeOK'
    BY <1>1, <1>2 DEF QueueInv, TypeOK
<1>4. SlotsMatch' /\ MetricsMatch'
    BY DEF SlotsMatch, MetricsMatch, Executing, Running, Counted, Queueing
<1>5. LateRefused'
    BY DEF QueueInv, TypeOK, LateRefused, Goto
<1> QED BY <1>3, <1>4, <1>5 DEF QueueInv

\* An empty queue satisfies the invariant.
LEMMA QueueInit == Init => QueueInv
<1> SUFFICES ASSUME Init PROVE QueueInv
    OBVIOUS
<1>1. TypeOK
    BY DEF Init, TypeOK, PC
<1>2. At(Running) = {} /\ At(Counted) = {} /\ At(Queueing) = {}
    BY DEF Init, At, Running, Counted, Queueing
<1>3. SlotsMatch /\ MetricsMatch
    BY <1>2, FS_EmptySet, MaxConcurrentAssumption
       DEF Init, SlotsMatch, MetricsMatch, Executing, Running, Counted, Queueing
<1> QED BY <1>1, <1>3 DEF Init, QueueInv, LateRefused

\* QueueInv is inductive: every way out of Acquire undoes what the way in did.
LEMMA QueueStep ==
    ASSUME QueueInv, [Next]_vars
    PROVE  QueueInv'
<1> USE DEF Running, Counted, Queueing, PC
<1>0. /\ pc \in [Request -> PC] /\ sem \in Nat
      /\ active \in Nat /\ waiting \in Nat /\ timeouts \in Nat /\ total \in Nat
      /\ sem = Cardinality(At(Running)) /\ sem <= MaxConcurrent
      /\ active = Cardinality(At(Counted))
      /\ waiting = Cardinality(At(Queueing))
    BY DEF QueueInv, TypeOK, SlotsMatch, MetricsMatch, Executing
<1>1. ASSUME NEW r \in Request, Check(r)
      PROVE  QueueInv'
    <2>1. PICK p \in {"done", "entering"} :
              /\ pc[r] = "arriving" /\ Goto(r, p)
              /\ closing = "closed" => p = "done"
        BY <1>1 DEF Check, QueueInv
    <2>2. /\ UNCHANGED <<sem, counters, closing, closed>>
          /\ late' = [late EXCEPT ![r] = closing = "closed"]
        BY <1>1 DEF Check
    <2>3. Cardinality(At(Running))' = Cardinality(At(Running))
        BY <1>0, <2>1, MoveAside
    <2>4. Cardinality(At(Counted))' = Cardinality(At(Counted))
        BY <1>0, <2>1, MoveAside
    <2>5. Cardinality(At(Queueing))' = Cardinality(At(Queueing))
        BY <1>0, <2>1, MoveAside
    <2>6. TypeOK'
        BY <1>0, <2>1, <2>2 DEF QueueInv, TypeOK, Goto, counters
    <2>7. SlotsMatch' /\ MetricsMatch'
        BY <1>0, <2>2, <2>3, <2>4, <2>5 DEF SlotsMatch, MetricsMatch, Executing, counters
    <2>8. LateRefused'
        BY <1>0, <2>1, <2>2 DEF QueueInv, TypeOK, LateRefused, Goto
    <2> QED BY <2>2, <2>6, <2>7, <2>8 DEF QueueInv
<1>2. ASSUME NEW r \in Request, Enter(r)
      PROVE  QueueInv'
    <2>1. /\ pc[r] = "entering" /\ Goto(r, "selecting")
          /\ UNCHANGED <<closing, closed, late>> /\ ~late[r]
          /\ timeouts' \in Nat /\ total' \in Nat
        BY <1>0, <1>2 DEF Enter, QueueInv, LateRefused, counters
    <2>2. Cardinality(At(Running))' = Cardinality(At(Running))
        BY <1>0, <2>1, MoveAside
    <2>3. Cardinality(At(Counted))' = Cardinality(At(Counted))
        BY <1>0, <2>1, MoveAside
    <2>4. Cardinality(At(Queueing))' = Cardinality(At(Queueing)) + 1
        BY <1>0, <2>1, MoveIn
    <2> QED BY <1>0, <1>2, <2>1, <2>2, <2>3, <2>4, CountersStep DEF Enter, counters
<1>3. ASSUME NEW r \in Request, Send(r)
      PROVE  QueueInv'
    <2>1. /\ pc[r] = "selecting" /\ Goto(r, "granted")
          /\ UNCHANGED <<closing, closed, late>> /\ ~late[r]
          /\ timeouts' \in Nat /\ total' \in Nat
        BY <1>0, <1>3 DEF Send, CanSend, QueueInv, LateRefused, counters
    <2>2. Cardinality(At(Running))' = Cardinality(At(Running)) + 1
        BY <1>0, <2>1, MoveIn
    <2>3. Cardinality(At(Counted))' = Cardinality(At(Counted))
        BY <1>0, <2>1, MoveAside
    <2>4. Cardinality(At(Queueing))' = Cardinality(At(Queueing))
        BY <1>0, <2>1, MoveAside
    <2> QED BY <1>0, <1>3, <2>1, <2>2, <2>3, <2>4, MaxConcurrentAssumption, CountersStep
            DEF Send, CanSend, counters
<1>4. ASSUME NEW r \in Request, Grant(r)
      PROVE  QueueInv'
    <2>1. /\ pc[r] = "granted" /\ Goto(r, "holding")
          /\ UNCHANGED <<closing, closed, late>> /\ ~late[r]
          /\ timeouts' \in Nat /\ total' \in Nat
        BY <1>0, <1>4 DEF Grant, QueueInv, LateRefused, counters
    <2>2. Cardinality(At(Running))' = Cardinality(At(Running))
        BY <1>0, <2>1, MoveAside
    <2>3. Cardinality(At(Counted))' = Cardinality(At(Counted)) + 1
        BY <1>0, <2>1, MoveIn
    <2>4. Cardinality(At(Queueing))' = Cardinality(At(Queueing)) - 1
        BY <1>0, <2>1, MoveOut
    <2> QED BY <1>0, <1>4, <2>1, <2>2, <2>3, <2>4, CountersStep DEF Grant, counters
<1>5. ASSUME NEW r \in Request, Timeout(r)
      PROVE  QueueInv'
    <2>1. /\ pc[r] = "selecting" /\ Goto(r, "timedout")
          /\ UNCHANGED <<closing, closed, late>> /\ ~late[r]
          /\ timeouts' \in Nat /\ total' \in Nat
        BY <1>0, <1>5 DEF Timeout, QueueInv, LateRefused, counters
    <2>2. Cardinality(At(Running))' = Cardinality(At(Running))
        BY <1>0, <2>1, MoveAside
    <2>3. Cardinality(At(Counted))' = Cardinality(At(Counted))
        BY <1>0, <2>1, MoveAside
    <2>4. Cardinality(At(Queueing))' = Cardinality(At(Queueing))
        BY <1>0, <2>1, MoveAside
    <2> QED BY <1>0, <1>5, <2>1, <2>2, <2>3, <2>4, CountersStep DEF Timeout, counters
<1>6. ASSUME NEW r \in Request, Cancel(r) \/ Refuse(r)
      PROVE  QueueInv'
    <2>1. PICK p \in {"cancelled", "refused"} : pc[r] = "selecting" /\ Goto(r, p)
        BY <1>6 DEF Cancel, Refuse, CanRefuse
    <2>2. UNCHANGED <<sem, counters, closing, closed, late>> /\ ~late[r]
        BY <1>6, <2>1 DEF Cancel, Refuse, QueueInv, LateRefused
    <2>3. Cardinality(At(Running))' = Cardinality(At(Running))
        BY <1>0, <2>1, MoveAside
    <2>4. Cardinality(At(Counted))' = Cardinality(At(Counted))
        BY <1>0, <2>1, MoveAside
    <2>5. Cardinality(At(Queueing))' = Cardinality(At(Queueing))
        BY <1>0, <2>1, MoveAside
    <2> QED BY <1>0, <2>1, <2>2, <2>3, <2>4, <2>5, CountersStep DEF counters
<1>7. ASSUME NEW r \in Request, Leave(r)
      PROVE  QueueInv'
    <2>1. /\ pc[r] \in {"timedout", "cancelled", "refused"} /\ Goto(r, "done")
          /\ UNCHANGED <<closing, closed, late>> /\ ~late[r]
          /\ timeouts' \in Nat /\ total' \in Nat
        BY <1>0, <1>7 DEF Leave, QueueInv, LateRefused, counters
    <2>2. Cardinality(At(Running))' = Cardinality(At(Running))
        BY <1>0, <2>1, MoveAside
    <2>3. Cardinality(At(Counted))' = Cardinality(At(Counted))
        BY <1>0, <2>1, MoveAside
    <2>4. Cardinality(At(Queueing))' = Cardinality(At(Queueing)) - 1
        BY <1>0, <2>1, MoveOut
    <2> QED BY <1>0, <1>7, <2>1, <2>2, <2>3, <2>4, CountersStep DEF Leave, counters
<1>8. ASSUME NEW r \in Request, Receive(r)
      PROVE  QueueInv'
    <2>1. /\ pc[r] = "holding" /\ Goto(r, "releasing")
          /\ UNCHANGED <<closing, closed, late>> /\ ~late[r]
          /\ timeouts' \in Nat /\ total' \in Nat
        BY <1>0, <1>8 DEF Receive, QueueInv, LateRefused, counters
    <2>2. Cardinality(At(Running))' = Cardinality(At(Running)) - 1
        BY <1>0, <2>1, MoveOut
    <2>3. Cardinality(At(Counted))' = Cardinality(At(Counted))
        BY <1>0, <2>1, MoveAside
    <2>4. Cardinality(At(Queueing))' = Cardinality(At(Queueing))
        BY <1>0, <2>1, MoveAside
    <2> QED BY <1>0, <1>8, <2>1, <2>2, <2>3, <2>4, MaxConcurrentAssumption, CountersStep
            DEF Receive, counters
<1>9. ASSUME NEW r \in Request, Release(r)
      PROVE  QueueInv'
    <2>1. /\ pc[r] = "releasing" /\ Goto(r, "done")
          /\ UNCHANGED <<closing, closed, late>> /\ ~late[r]
          /\ timeouts' \in Nat /\ total' \in Nat
        BY <1>0, <1>9 DEF Release, QueueInv, LateRefused, counters
    <2>2. Cardinality(At(Running))' = Cardinality(At(Running))
        BY <1>0, <2>1, MoveAside
    <2>3. Cardinality(At(Counted))' = Cardinality(At(Counted)) - 1
        BY <1>0, <2>1, MoveOut
    <2>4. Cardinality(At(Queueing))' = Cardinality(At(Queueing))
        BY <1>0, <2>1, MoveAside
    <2> QED BY <1>0, <1>9, <2>1, <2>2, <2>3, <2>4, CountersStep DEF Release, counters
<1>10. CASE CloseStore \/ CloseChannel \/ UNCHANGED vars
    <2>1. UNCHANGED <<pc, sem, counters, late>>
        BY <1>10 DEF CloseStore, CloseChannel, vars
    <2>2. \A S : At(S)' = At(S)
        BY <2>1 DEF At
    <2>3. /\ closing' \in {"open", "stored", "closed"} /\ closed' \in BOOLEAN
          /\ closed' = (closing' # "open")
        BY <1>10 DEF CloseStore, CloseChannel, vars, QueueInv, TypeOK
    <2> QED BY <2>1, <2>2, <2>3
            DEF QueueInv, TypeOK, SlotsMatch, MetricsMatch, LateRefused, Executing, counters
<1> QED BY <1>1, <1>2, <1>3, <1>4, <1>5, <1>6, <1>7, <1>8, <1>9, <1>10 DEF Next, Acquire

\* The counters stay natural numbers and the requests at their places.
THEOREM QueueTypeCorrect == Spec => []TypeOK
<1>1. QueueInv => TypeOK
    BY DEF QueueInv
<1> QED BY <1>1, QueueInit, QueueStep, PTL DEF Spec

\* For any number of requests and any capacity, no more executions run than
\* the queue admits, and every path gives its slot back (Acquire, Release).
THEOREM SlotsMatchHolds == Spec => []SlotsMatch
<1>1. QueueInv => SlotsMatch
    BY DEF QueueInv
<1> QED BY <1>1, QueueInit, QueueStep, PTL DEF Spec

\* The metrics count the requests they name, whichever way they left.
THEOREM MetricsMatchHolds == Spec => []MetricsMatch
<1>1. QueueInv => MetricsMatch
    BY DEF QueueInv
<1> QED BY <1>1, QueueInit, QueueStep, PTL DEF Spec

\* Nobody who comes after Close has returned gets a slot.
THEOREM LateRefusedHolds == Spec => []LateRefused
<1>1. QueueInv => LateRefused
    BY DEF QueueInv
<1> QED BY <1>1, QueueInit, QueueStep, PTL DEF Spec

-----------------------------------------------------------------------------
(* The promise of the queue.                                               *)

\* Each step of a request is a move on the way in or out, or none.
LEMMA RequestMoves ==
    ASSUME QueueInv, NEW r \in Request, Acquire(r) \/ Receive(r) \/ Release(r)
    PROVE  [Slots!SlotNext]_(Slots!slotVars)
<1> USE DEF Slots!SlotNext, Slots!slotVars
<1>0. pc \in [Request -> PC] /\ closed = (closing # "open") /\ closed \in BOOLEAN
    BY DEF QueueInv, TypeOK
<1>1. ASSUME NEW p \in PC, Goto(r, p)
      PROVE  \A d \in Request : placeOf'[d] = IF d = r THEN
                CASE p = "arriving" -> "outside"
                  [] p \in {"entering", "selecting"} -> "waiting"
                  [] p \in {"granted", "holding"} -> "inside"
                  [] OTHER -> "gone"
                ELSE placeOf[d]
    BY <1>0, <1>1 DEF Goto, placeOf
<1>2. ASSUME NEW p \in PC, Goto(r, p), closed' = closed, NEW a, NEW b, placeOf[r] = a,
             b = CASE p = "arriving" -> "outside"
                   [] p \in {"entering", "selecting"} -> "waiting"
                   [] p \in {"granted", "holding"} -> "inside"
                   [] OTHER -> "gone"
      PROVE  Slots!Moves(r, a, b)
    <2>1. placeOf' = [placeOf EXCEPT ![r] = b]
        <3>1. /\ placeOf = [d \in Request |-> placeOf[d]]
              /\ placeOf' = [d \in Request |-> placeOf'[d]]
            BY DEF placeOf
        <3>2. \A d \in Request : placeOf'[d] = IF d = r THEN b ELSE placeOf[d]
            BY <1>1, <1>2
        <3> QED BY <3>1, <3>2
    <2> QED BY <1>2, <2>1 DEF Slots!Moves
<1>3. CASE Check(r)
    <2>1. placeOf[r] = "outside" /\ closed' = closed
        BY <1>3 DEF Check, placeOf
    <2>2. CASE closed
        <3>1. Goto(r, "done") /\ "done" \in PC
            BY <1>3, <2>2 DEF Check, PC
        <3>2. Slots!Moves(r, "outside", "gone")
            BY <1>2, <2>1, <3>1
        <3> QED BY <2>2, <3>2 DEF Slots!TurnAway
    <2>3. CASE ~closed
        <3>1. Goto(r, "entering") /\ "entering" \in PC
            BY <1>3, <2>3 DEF Check, PC
        <3>2. Slots!Moves(r, "outside", "waiting")
            BY <1>2, <2>1, <3>1
        <3> QED BY <2>3, <3>2 DEF Slots!Come
    <2> QED BY <1>0, <2>2, <2>3
<1>4. CASE Send(r)
    <2>1. /\ Goto(r, "granted") /\ "granted" \in PC /\ closed' = closed
          /\ placeOf[r] = "waiting" /\ sem < MaxConcurrent
        BY <1>4 DEF Send, CanSend, PC, placeOf
    <2>2. Slots!Moves(r, "waiting", "inside")
        BY <1>2, <2>1
    <2>3. {d \in Request : placeOf[d] = "inside"} = Executing
        BY DEF placeOf, Executing, At
    <2>4. Cardinality({d \in Request : placeOf[d] = "inside"}) < MaxConcurrent
        BY <2>1, <2>3 DEF QueueInv, SlotsMatch
    <2>5. Slots!Admit(r)
        BY <2>2, <2>4 DEF Slots!Admit, Slots!Cardinality, Cardinality
    <2> QED BY <2>5
<1>5. CASE Timeout(r) \/ Cancel(r) \/ Refuse(r)
    <2>1. PICK p \in {"timedout", "cancelled", "refused"} :
              Goto(r, p) /\ closed' = closed /\ pc[r] = "selecting"
        BY <1>5 DEF Timeout, Cancel, Refuse, CanRefuse
    <2>2. p \in PC /\ placeOf[r] = "waiting"
        BY <2>1 DEF PC, placeOf
    <2>3. Slots!Moves(r, "waiting", "gone")
        BY <1>2, <2>1, <2>2
    <2> QED BY <2>3 DEF Slots!TurnAway
<1>6. CASE Receive(r)
    <2>1. Goto(r, "releasing") /\ "releasing" \in PC /\ placeOf[r] = "inside" /\ closed' = closed
        BY <1>6 DEF Receive, PC, placeOf
    <2>2. Slots!Moves(r, "inside", "gone")
        BY <1>2, <2>1
    <2> QED BY <2>2 DEF Slots!GiveUp
<1>7. CASE Enter(r) \/ Grant(r) \/ Leave(r) \/ Release(r)
    <2>1. /\ closed' = closed
          /\ \/ pc[r] = "entering" /\ Goto(r, "selecting")
             \/ pc[r] = "granted" /\ Goto(r, "holding")
             \/ pc[r] \in {"timedout", "cancelled", "refused", "releasing"} /\ Goto(r, "done")
        BY <1>7 DEF Enter, Grant, Leave, Release
    <2>2. UNCHANGED placeOf
        <3>1. \A d \in Request : d # r => pc'[d] = pc[d]
            BY <1>0, <2>1 DEF Goto
        <3>2. \/ pc[r] = "entering" /\ pc'[r] = "selecting"
              \/ pc[r] = "granted" /\ pc'[r] = "holding"
              \/ pc[r] \in {"timedout", "cancelled", "refused", "releasing"} /\ pc'[r] = "done"
            BY <1>0, <2>1 DEF Goto
        <3> QED BY <3>1, <3>2 DEF placeOf
    <2> QED BY <2>1, <2>2
<1> QED BY <1>3, <1>4, <1>5, <1>6, <1>7 DEF Acquire

\* The queue is a counting semaphore that can be shut: the counters, the flag,
\* the channel and the ways out of Acquire are details of that and no more.
THEOREM BoundedSlotsHolds == Spec => BoundedSlots
<1>1. Init => Slots!SlotInit
    <2> SUFFICES ASSUME Init PROVE Slots!SlotInit
        OBVIOUS
    <2>1. placeOf = [r \in Request |-> "outside"] /\ closed = FALSE
        BY DEF Init, placeOf
    <2> QED BY <2>1 DEF Slots!SlotInit
<1>2. QueueInv /\ [Next]_vars => [Slots!SlotNext]_(Slots!slotVars)
    <2> SUFFICES ASSUME QueueInv, [Next]_vars PROVE [Slots!SlotNext]_(Slots!slotVars)
        OBVIOUS
    <2>1. CASE CloseStore
        <3>1. ~closed /\ closed' = TRUE /\ UNCHANGED placeOf
            BY <2>1 DEF CloseStore, QueueInv, placeOf
        <3> QED BY <3>1 DEF Slots!SlotNext, Slots!Shut
    <2>2. CASE CloseChannel \/ UNCHANGED vars
        BY <2>2 DEF CloseChannel, vars, placeOf, Slots!slotVars
    <2> QED BY <2>1, <2>2, RequestMoves DEF Next
<1> QED BY <1>1, <1>2, QueueInit, QueueStep, PTL DEF Spec, BoundedSlots, Slots!SlotSpec

=============================================================================
