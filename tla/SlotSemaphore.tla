---------------------------- MODULE SlotSemaphore ----------------------------
(***************************************************************************)
(* What the queue promises to those who call it: a counting semaphore that *)
(* can be shut.  Whoever comes waits, at the most Capacity are inside, a   *)
(* place is given up once, and after the door is shut nobody comes in who  *)
(* was not waiting already.  Those who wait may be turned away at any time.*)
(***************************************************************************)
EXTENDS Naturals, FiniteSets

CONSTANTS Caller, Capacity

VARIABLES place,    \* place[c]: where c stands
          shut

slotVars == <<place, shut>>

Places == {"outside", "waiting", "inside", "gone"}

SlotInit == place = [c \in Caller |-> "outside"] /\ shut = FALSE

Moves(c, from, to) ==
    /\ place[c] = from
    /\ place' = [place EXCEPT ![c] = to]
    /\ UNCHANGED shut

Come(c)     == ~shut /\ Moves(c, "outside", "waiting")
TurnAway(c) == Moves(c, "waiting", "gone") \/ (shut /\ Moves(c, "outside", "gone"))
Admit(c)    == /\ Cardinality({d \in Caller : place[d] = "inside"}) < Capacity
               /\ Moves(c, "waiting", "inside")
GiveUp(c)   == Moves(c, "inside", "gone")

Shut == ~shut /\ shut' = TRUE /\ UNCHANGED place

SlotNext == Shut \/ \E c \in Caller : Come(c) \/ TurnAway(c) \/ Admit(c) \/ GiveUp(c)

SlotSpec == SlotInit /\ [][SlotNext]_slotVars

=============================================================================
