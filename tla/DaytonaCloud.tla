---------------------------- MODULE DaytonaCloud ----------------------------
(***************************************************************************)
(* The Daytona service as daytona/client.go sees it: which sandboxes exist *)
(* and the state Get and List report.  "started" and "running" are one     *)
(* state, as every predicate of the client treats them alike.  A sandbox   *)
(* that Daytona is destroying counts as "gone": the client's predicates    *)
(* call both unusable.  Identifiers are never handed out twice.            *)
(***************************************************************************)
EXTENDS Naturals

CONSTANT Sandbox

VARIABLE remote     \* remote[s]: the state Daytona reports for s

RemoteState == {"absent", "starting", "started", "stopped", "error", "gone"}

RemoteTypeOK == remote \in [Sandbox -> RemoteState]

RemoteInit == remote = [s \in Sandbox |-> "absent"]

Live(s) == remote[s] \notin {"absent", "gone"}

IsHealthy(s) == remote[s] = "started"
IsUsable(s)  == remote[s] \in {"started", "stopped"}
IsStopped(s) == remote[s] = "stopped"

\* parseError's "state change in progress": a DELETE may be refused now.
StateChangeInProgress(s) == remote[s] = "starting"

-----------------------------------------------------------------------------
(* Calls, by their effect on the service.                                  *)

CreateRemote(s) ==
    /\ remote[s] = "absent"
    /\ remote' = [remote EXCEPT ![s] = "starting"]

\* Starting a sandbox in any other state changes nothing: the service
\* answers 404 or "state change in progress".
StartRemote(s) ==
    remote' = [remote EXCEPT ![s] = IF @ = "stopped" THEN "starting" ELSE @]

\* A DELETE is answered 200, 204 or 404: all of them leave the sandbox gone.
DeleteRemote(s) == remote' = [remote EXCEPT ![s] = "gone"]

\* A DELETE whose answer is an error or never comes may have been obeyed.
DeleteRemoteUnanswered(s) == DeleteRemote(s) \/ UNCHANGED remote

-----------------------------------------------------------------------------
(* What the service does on its own.                                       *)

RemoteStarts(s) ==
    /\ remote[s] = "starting"
    /\ remote' = [remote EXCEPT ![s] = "started"]

RemoteAutoStops(s) ==
    /\ remote[s] = "started"
    /\ remote' = [remote EXCEPT ![s] = "stopped"]

RemoteBreaks(s) ==
    /\ remote[s] \in {"starting", "started", "stopped"}
    /\ remote' = [remote EXCEPT ![s] = "error"]

=============================================================================
