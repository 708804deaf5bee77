----------------------------- MODULE SandboxLease -----------------------------
(***************************************************************************)
(* What the pool promises about a sandbox and the executions that use it:  *)
(* "Each sandbox is single-use" (README.md).  A sandbox is leased to one   *)
(* execution, which may enter it once; nothing makes a spent one fresh.    *)
(***************************************************************************)
CONSTANTS Sandbox, Exec, NoExec

VARIABLES lease,    \* lease[s]: how far the one use of s has come
          holder    \* holder[s]: the execution s was leased to

leaseVars == <<lease, holder>>

LeaseStage == {"fresh", "leased", "inside", "spent"}

LeaseInit ==
    /\ lease = [s \in Sandbox |-> "fresh"]
    /\ holder = [s \in Sandbox |-> NoExec]

\* An execution gets the sandbox, or the message that it did is lost.
Lease(s, e) ==
    /\ lease[s] = "fresh"
    /\ lease' \in {[lease EXCEPT ![s] = "leased"], [lease EXCEPT ![s] = "spent"]}
    /\ holder' = [holder EXCEPT ![s] = e]

Enter(s) ==
    /\ lease[s] = "leased"
    /\ lease' = [lease EXCEPT ![s] = "inside"]
    /\ UNCHANGED holder

\* One lease is given up, used or not; or all of them, when the process dies.
Spend(S) ==
    /\ \A s \in S : lease[s] \in {"leased", "inside"}
    /\ lease' = [s \in Sandbox |-> IF s \in S THEN "spent" ELSE lease[s]]
    /\ UNCHANGED holder

LeaseNext ==
    \/ \E s \in Sandbox : Enter(s) \/ \E e \in Exec : Lease(s, e)
    \/ \E S \in SUBSET Sandbox : Spend(S)

LeaseSpec == LeaseInit /\ [][LeaseNext]_leaseVars

=============================================================================
