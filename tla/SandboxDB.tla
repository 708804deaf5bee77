------------------------------ MODULE SandboxDB ------------------------------
(***************************************************************************)
(* The table boxbox.sandbox_pool and the statements of db/queries.go that  *)
(* read and write it.  daytona_id is UNIQUE and no row is ever removed, so *)
(* the table is a function of the Daytona identifier.  Every statement is  *)
(* one PostgreSQL transaction, hence one (part of an) atomic step.         *)
(*                                                                         *)
(* created_at is abstracted to an age class.  claimed_at, last_used_at,    *)
(* error_message and version are written and never read by any statement.  *)
(***************************************************************************)
EXTENDS Naturals, FiniteSets

CONSTANTS Sandbox,  \* identifiers Daytona may hand out
          Exec,     \* executions, each the work of one request handler
          NoExec    \* claimed_by IS NULL

ASSUME NoExecAssumption == NoExec \notin Exec
ASSUME SandboxAssumption == IsFiniteSet(Sandbox)

VARIABLES state,      \* state[s]: the column state, "none" when s has no row
          claimedBy,  \* claimedBy[s]: the column claimed_by
          age         \* age[s]: 0 young, 1 past the reaper's maxAge, 2 past the TTL

dbVars == <<state, claimedBy, age>>

SandboxState == {"creating", "warming", "available", "claimed",
                 "executing", "deleting", "deleted", "failed"}

Age == 0..2
StaleAge == 1
TTLAge   == 2

DBTypeOK ==
    /\ state \in [Sandbox -> SandboxState \cup {"none"}]
    /\ claimedBy \in [Sandbox -> Exec \cup {NoExec}]
    /\ age \in [Sandbox -> Age]

DBInit ==
    /\ state = [s \in Sandbox |-> "none"]
    /\ claimedBy = [s \in Sandbox |-> NoExec]
    /\ age = [s \in Sandbox |-> 0]

HasRow(s) == state[s] # "none"

-----------------------------------------------------------------------------
(* Queries.                                                                *)

InState(st) == {s \in Sandbox : state[s] = st}

\* Mutation: the reaper forgets the sandboxes a lost claim left behind.
StaleSandboxesNoClaimed ==
    {s \in Sandbox : state[s] \in {"creating", "warming"} /\ age[s] >= StaleAge}

\* Mutation: only a row without a sandbox that answers is stale.
StaleSandboxesNoWarming ==
    {s \in Sandbox : state[s] \in {"creating", "claimed"} /\ age[s] >= StaleAge}

StaleSandboxes ==
    {s \in Sandbox : state[s] \in {"creating", "warming", "claimed"} /\ age[s] >= StaleAge}

FailedSandboxes == InState("failed")

AvailableSandboxes == InState("available")

OldAvailableSandboxes == {s \in AvailableSandboxes : age[s] >= TTLAge}

\* Mutation: a crash during an execution is taken for a finished one.
OrphanedSandboxesIdle ==
    {s \in Sandbox : state[s] \notin {"none", "deleted", "available", "executing"}}

OrphanedSandboxes ==
    {s \in Sandbox : state[s] \notin {"none", "deleted", "available"}}

KnownDaytonaIDs == {s \in Sandbox : state[s] \notin {"none", "deleted"}}

PoolStats(st) == Cardinality(InState(st))

-----------------------------------------------------------------------------
(* Statements that write.                                                  *)

CreateSandbox(s) ==
    /\ ~HasRow(s)
    /\ state' = [state EXCEPT ![s] = "creating"]
    /\ age' = [age EXCEPT ![s] = 0]
    /\ UNCHANGED claimedBy

\* Mutation: ON CONFLICT DO UPDATE, which brings a row back.
ImportSandboxOverwriting(s) ==
    /\ state' = [state EXCEPT ![s] = "available"]
    /\ age' = [age EXCEPT ![s] = 0]
    /\ UNCHANGED claimedBy

\* ON CONFLICT (daytona_id) DO NOTHING: any row with this identifier, a
\* deleted one too, makes the statement insert nothing and report no error.
ImportSandbox(s) ==
    IF HasRow(s) THEN UNCHANGED dbVars
                 ELSE /\ state' = [state EXCEPT ![s] = "available"]
                      /\ age' = [age EXCEPT ![s] = 0]
                      /\ UNCHANGED claimedBy

\* WHERE id = $2 and nothing else: the row's present state is not looked at.
\* UpdateSandboxStateWithError and DeleteSandbox are the same statement.
UpdateSandboxState(s, st) ==
    /\ state' = [state EXCEPT ![s] = IF @ = "none" THEN @ ELSE st]
    /\ UNCHANGED <<claimedBy, age>>

\* Mutation: the subselect loses its state filter for rows already claimed.
ClaimAnySandbox(s, e) ==
    /\ state[s] \in {"available", "claimed"}
    /\ state' = [state EXCEPT ![s] = "claimed"]
    /\ claimedBy' = [claimedBy EXCEPT ![s] = e]
    /\ UNCHANGED age

\* FOR UPDATE SKIP LOCKED picks the oldest available row no other claim has
\* locked: which one that is depends on the other claims, so any may be.
ClaimAvailableSandbox(s, e) ==
    /\ state[s] = "available"
    /\ state' = [state EXCEPT ![s] = "claimed"]
    /\ claimedBy' = [claimedBy EXCEPT ![s] = e]
    /\ UNCHANGED age

-----------------------------------------------------------------------------
\* Time passes for a row.  Only the queries above look at an age: at the TTL
\* in available rows, at maxAge in transient ones; a row that comes back to
\* one of these states can age then.
RowAges(s) ==
    /\ \/ state[s] = "available" /\ age[s] < TTLAge
       \/ state[s] \in {"creating", "warming", "claimed"} /\ age[s] < StaleAge
    /\ age' = [age EXCEPT ![s] = @ + 1]
    /\ UNCHANGED <<state, claimedBy>>

=============================================================================
