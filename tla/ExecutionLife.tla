---------------------------- MODULE ExecutionLife ----------------------------
(***************************************************************************)
(* What whoever looks at an execution's row may rely on: the row is open   *)
(* for as long as the request is worked on, says how it ended only when    *)
(* nothing more is done for it, and then says so for good.  It stays short *)
(* of its end only when a write failed or the process died.                *)
(***************************************************************************)
CONSTANT Exec

VARIABLES row,      \* row[e]: how the table stands for e
          life,     \* life[e]: how far the work on e has come
          short     \* short[e]: e's row may stay short of its end

lifeVars == <<row, life, short>>

Row  == {"none", "open", "ended"}
Life == {"new", "started", "working", "over"}

LifeInit ==
    /\ row = [e \in Exec |-> "none"]
    /\ life = [e \in Exec |-> "new"]
    /\ short = [e \in Exec |-> FALSE]

Reaches(e, l) == life' = [life EXCEPT ![e] = l]
Shows(e, r)   == row' = [row EXCEPT ![e] = r]
FallsShort(e) == short' = [short EXCEPT ![e] = TRUE]

\* The row is inserted, or its request refused: the INSERT may have been obeyed.
Begin(e) ==
    /\ life[e] = "new"
    /\ \/ Reaches(e, "started") /\ Shows(e, "open") /\ UNCHANGED short
       \/ Reaches(e, "over") /\ (Shows(e, "open") \/ UNCHANGED row) /\ FallsShort(e)

Work(e) ==
    /\ life[e] = "started" /\ Reaches(e, "working")
    /\ UNCHANGED <<row, short>>

End(e) ==
    /\ life[e] \in {"started", "working"} /\ Reaches(e, "over")
    /\ \/ Shows(e, "ended") /\ UNCHANGED short
       \/ (Shows(e, "ended") \/ UNCHANGED row) /\ FallsShort(e)

\* The process dies with every execution it was at.
Die(S) ==
    /\ \A e \in S : life[e] \in {"started", "working"}
    /\ life' = [e \in Exec |-> IF e \in S THEN "over" ELSE life[e]]
    /\ short' = [e \in Exec |-> e \in S \/ short[e]]
    /\ UNCHANGED row

LifeNext ==
    \/ \E e \in Exec : Begin(e) \/ Work(e) \/ End(e)
    \/ \E S \in SUBSET Exec : Die(S)

LifeSpec == LifeInit /\ [][LifeNext]_lifeVars

=============================================================================
