------------------------------ MODULE Execution ------------------------------
(***************************************************************************)
(* One chat's executions, from CreateExecution to the reply: the rest of   *)
(* server/handlers.go handleExecute, sandbox/executor.go Execute and       *)
(* sandbox/syncer.go, with the table boxbox.executions and the chat's      *)
(* objects in S3.  Each execution has a sandbox of its own (SandboxPool),  *)
(* so executions meet only in the objects of the chat.                     *)
(*                                                                         *)
(* The content of a file is its origin: the user, or the execution and the *)
(* directory it was written in.  A call to PostgreSQL, Daytona or S3 may   *)
(* fail, and what failed may have been obeyed: MaxFaults bounds how often, *)
(* except once the client has left, which cancels every later call.        *)
(***************************************************************************)
EXTENDS Integers, FiniteSets

CONSTANTS Exec,        \* executions of the chat
          File,        \* file names, one directory deep
          UserFile,    \* names of the objects the user uploaded
          OutputFile,  \* names isOutputFile accepts
          NoFile, User,    \* contents: none, and what the user uploaded
          MaxFaults, MaxLeaving, MaxCrashes    \* bounds: what may go wrong

ASSUME FilesAssumption == UserFile \subseteq File /\ OutputFile \subseteq File
ASSUME ContentAssumption == NoFile # User /\ {NoFile, User} \cap (Exec \X {"work", "tmp"}) = {}
ASSUME FaultBoundsAssumption == {MaxFaults, MaxLeaving, MaxCrashes} \subseteq Nat

VARIABLES
    status, exitCode,   \* columns of the row of e
    pc,         \* pc[e]: where the handler of e is
    requested,  \* requested[e]: "files" of the request
    todo,       \* todo[e]: transfers of the phase that have not ended
    synced,     \* synced[e]: syncedFiles
    box,        \* box[e]: the two directories of e's sandbox
    outcome,    \* outcome[e]: what executeCode returned
    outputs,    \* outputs[e]: outputFiles, with the directory each came from
    reply,      \* reply[e]: the answer of the handler
    store,      \* store[f]: the object of the chat with that name
    gone,       \* gone[e]: the context of the request is cancelled
    unsaved,    \* history: e's last write to its row failed or never came
    faults, crashes

rowVars  == <<status, exitCode>>
fileVars == <<todo, synced, box, outputs>>
envVars  == <<gone, crashes>>
vars == <<rowVars, pc, requested, fileVars, outcome, reply, store, envVars, unsaved, faults>>

Terminal == {"completed", "failed", "timeout"}
Status == {"none", "pending", "syncing_in", "executing", "syncing_out"} \cup Terminal
PC == {"creating", "claiming", "linking", "linked", "listing", "syncing_in", "inputs_done",
       "running", "ran", "collecting", "syncing_out", "done"}
Place   == {"work", "tmp"}
Outcome == {"none", "zero", "nonzero", "deadline", "error"}
Content == {NoFile, User} \cup (Exec \X Place)

NoExit == -1
Reply(code, st, exit) == [code |-> code, status |-> st, exit |-> exit]
NoReply == Reply(0, "none", NoExit)

Goto(e, p) == pc' = [pc EXCEPT ![e] = p]

Succeeds == UNCHANGED faults
Fails(e) ==
    \/ gone[e] /\ UNCHANGED faults
    \/ faults < MaxFaults /\ faults' = faults + 1

Init ==
    /\ status = [e \in Exec |-> "none"]
    /\ exitCode = [e \in Exec |-> NoExit]
    /\ pc = [e \in Exec |-> "creating"]
    /\ requested \in [Exec -> SUBSET File]
    /\ todo = [e \in Exec |-> {}]
    /\ synced = [e \in Exec |-> {}]
    /\ box = [e \in Exec |-> [p \in Place |-> [f \in File |-> NoFile]]]
    /\ outcome = [e \in Exec |-> "none"]
    /\ outputs = [e \in Exec |-> {}]
    /\ reply = [e \in Exec |-> NoReply]
    /\ store = [f \in File |-> IF f \in UserFile THEN User ELSE NoFile]
    /\ gone = [e \in Exec |-> FALSE]
    /\ unsaved = [e \in Exec |-> FALSE]
    /\ faults = 0 /\ crashes = 0

-----------------------------------------------------------------------------
(* Statements on the executions table.                                     *)

Write(e, st, exit) ==
    /\ status' = [status EXCEPT ![e] = st]
    /\ exitCode' = [exitCode EXCEPT ![e] = exit]

WriteLost(e, st, exit) == Write(e, st, exit) \/ UNCHANGED rowVars

\* An error is logged and forgotten.
UpdateExecutionStatus(e, st) ==
    \/ Write(e, st, exitCode[e]) /\ Succeeds
    \/ WriteLost(e, st, exitCode[e]) /\ Fails(e)

CompleteExecution(e, st, exit) ==
    \/ Write(e, st, exit) /\ Succeeds /\ UNCHANGED unsaved
    \/ WriteLost(e, st, exit) /\ Fails(e) /\ unsaved' = [unsaved EXCEPT ![e] = TRUE]

-----------------------------------------------------------------------------
(* The handler up to the sandbox.                                          *)

Answer(e, r) == reply' = [reply EXCEPT ![e] = r] /\ Goto(e, "done")

CreateExecution(e) ==
    /\ pc[e] = "creating"
    /\ \/ /\ Write(e, "pending", NoExit) /\ Succeeds
          /\ Goto(e, "claiming") /\ UNCHANGED <<reply, unsaved>>
       \/ /\ WriteLost(e, "pending", NoExit) /\ Fails(e)
          /\ Answer(e, Reply(500, "none", NoExit))
          /\ unsaved' = [unsaved EXCEPT ![e] = TRUE]
    /\ UNCHANGED <<requested, fileVars, outcome, store, envVars>>

Claimed(e) ==
    /\ pc[e] = "claiming"
    /\ Goto(e, "linking")
    /\ UNCHANGED <<rowVars, requested, fileVars, outcome, reply, store, envVars, unsaved, faults>>

\* Mutation: the row is left as it is.
NotClaimedSilently(e) ==
    /\ pc[e] = "claiming"
    /\ \E code \in {500, 503} : Answer(e, Reply(code, "none", NoExit))
    /\ UNCHANGED <<rowVars, requested, fileVars, outcome, store, envVars, unsaved, faults>>

\* ErrNoAvailableSandbox is answered 503, any other error 500.
NotClaimed(e) ==
    /\ pc[e] = "claiming"
    /\ CompleteExecution(e, "failed", 1)
    /\ \E code \in {500, 503} : Answer(e, Reply(code, "none", NoExit))
    /\ UNCHANGED <<requested, fileVars, outcome, store, envVars>>

-----------------------------------------------------------------------------
(* Execute.                                                                *)

\* The only error Execute returns: the row keeps the status pending.
LinkSandbox(e) ==
    /\ pc[e] = "linking"
    /\ \/ Succeeds /\ Goto(e, "linked") /\ UNCHANGED <<reply, unsaved>>
       \/ /\ Fails(e)
          /\ Answer(e, Reply(500, "none", NoExit))
          /\ unsaved' = [unsaved EXCEPT ![e] = TRUE]
    /\ UNCHANGED <<rowVars, requested, fileVars, outcome, store, envVars>>

\* The three statuses between pending and the end.
MarkSyncingIn(e) ==
    /\ pc[e] = "linked" /\ Goto(e, "listing")
    /\ UpdateExecutionStatus(e, "syncing_in")
    /\ UNCHANGED <<requested, fileVars, outcome, reply, store, envVars, unsaved>>

MarkExecuting(e) ==
    /\ pc[e] = "inputs_done" /\ Goto(e, "running")
    /\ UpdateExecutionStatus(e, "executing")
    /\ UNCHANGED <<requested, fileVars, outcome, reply, store, envVars, unsaved>>

\* Mutation: the row is completed as soon as the code has run.
CompleteBeforeSync(e) ==
    /\ pc[e] = "ran" /\ Goto(e, "collecting")
    /\ UpdateExecutionStatus(e, "completed")
    /\ UNCHANGED <<requested, fileVars, outcome, reply, store, envVars, unsaved>>

MarkSyncingOut(e) ==
    /\ pc[e] = "ran" /\ Goto(e, "collecting")
    /\ UpdateExecutionStatus(e, "syncing_out")
    /\ UNCHANGED <<requested, fileVars, outcome, reply, store, envVars, unsaved>>

\* S3's ListFiles, all pages of it.
Objects == {f \in File : store[f] # NoFile}

\* ListFiles of the chat; an error ends the phase, and only a warning is left.
ListInputs(e) ==
    /\ pc[e] = "listing"
    /\ Goto(e, "syncing_in")
    /\ \/ todo' = [todo EXCEPT ![e] = {<<f, "work">> : f \in requested[e] \cap Objects}]
          /\ Succeeds
       \/ requested[e] # {} /\ Fails(e) /\ UNCHANGED todo
    /\ UNCHANGED <<rowVars, requested, synced, box, outputs, outcome, reply, store, envVars, unsaved>>

Ended(e, t) == t \in todo[e] /\ todo' = [todo EXCEPT ![e] = @ \ {t}]

PutInBox(e, f) == box' = [box EXCEPT ![e]["work"][f] = store[f]]

\* One goroutine of SyncToSandbox: what the object holds now, not when listed.
SyncFileToSandbox(e, f) ==
    /\ pc[e] = "syncing_in" /\ Ended(e, <<f, "work">>)
    /\ \/ /\ PutInBox(e, f) /\ Succeeds
          /\ synced' = [synced EXCEPT ![e] = @ \cup {f}]
       \/ Fails(e) /\ UNCHANGED synced /\ (PutInBox(e, f) \/ UNCHANGED box)
    /\ UNCHANGED <<rowVars, pc, requested, outputs, outcome, reply, store, envVars, unsaved>>

\* Mutation: wg.Wait() is missing.
SyncedInEarly(e) ==
    /\ pc[e] = "syncing_in"
    /\ todo' = [todo EXCEPT ![e] = {}]
    /\ Goto(e, "inputs_done")
    /\ UNCHANGED <<rowVars, requested, synced, box, outputs, outcome, reply, store, envVars, unsaved, faults>>

\* The errors are joined as strings: errors.Is recognises none of them, so
\* Execute goes on after any.
SyncedIn(e) ==
    /\ pc[e] = "syncing_in" /\ todo[e] = {}
    /\ Goto(e, "inputs_done")
    /\ UNCHANGED <<rowVars, requested, fileVars, outcome, reply, store, envVars, unsaved, faults>>

\* executeCode: the code writes what it likes, also when its answer is lost or
\* it is killed at the deadline.
RunCode(e) ==
    /\ pc[e] = "running" /\ Goto(e, "ran")
    /\ \E written \in SUBSET (File \X Place) :
          box' = [box EXCEPT ![e] = [p \in Place |-> [f \in File |->
                     IF <<f, p>> \in written THEN <<e, p>> ELSE box[e][p][f]]]]
    /\ \/ \E o \in {"zero", "nonzero", "deadline"} : outcome' = [outcome EXCEPT ![e] = o] /\ Succeeds
       \/ outcome' = [outcome EXCEPT ![e] = "error"] /\ Fails(e)
    /\ UNCHANGED <<rowVars, requested, todo, synced, outputs, reply, store, envVars, unsaved>>

-----------------------------------------------------------------------------
(* SyncFromSandbox.                                                        *)

InBox(e, p) == {f \in OutputFile : box[e][p][f] # NoFile}

\* Mutation: the files that were synced in are not left out.
AllFiles(e) == {t \in OutputFile \X Place : box[e][t[2]][t[1]] # NoFile}

NewFiles(e) ==
    {<<f, "work">> : f \in InBox(e, "work") \ synced[e]} \cup {<<f, "tmp">> : f \in InBox(e, "tmp")}

\* Mutation: files of every kind are taken for output.
ListEverything(e) ==
    /\ pc[e] = "collecting" /\ Goto(e, "syncing_out")
    /\ todo' = [todo EXCEPT ![e] = {t \in File \X Place : box[e][t[2]][t[1]] # NoFile}]
    /\ Succeeds
    /\ UNCHANGED <<rowVars, requested, synced, box, outputs, outcome, reply, store, envVars, unsaved>>

\* Mutation: an empty workspace returns before /tmp is listed.
ListWorkspaceFirst(e) ==
    /\ pc[e] = "collecting" /\ Goto(e, "syncing_out")
    /\ todo' = [todo EXCEPT ![e] = IF InBox(e, "work") = {} THEN {} ELSE NewFiles(e)]
    /\ Succeeds
    /\ UNCHANGED <<rowVars, requested, synced, box, outputs, outcome, reply, store, envVars, unsaved>>

\* The two listings; the error of either is dropped, and its files with it.
ListOutputs(e) ==
    /\ pc[e] = "collecting" /\ Goto(e, "syncing_out")
    /\ \/ todo' = [todo EXCEPT ![e] = NewFiles(e)] /\ Succeeds
       \/ \E lost \in SUBSET Place :
             /\ todo' = [todo EXCEPT ![e] = {t \in NewFiles(e) : t[2] \notin lost}]
             /\ Fails(e)
    /\ UNCHANGED <<rowVars, requested, synced, box, outputs, outcome, reply, store, envVars, unsaved>>

\* S3's Upload: a PutObject, which replaces what was there.
Upload(f, content) == store' = [store EXCEPT ![f] = content]

PutInStore(e, f, p) == Upload(f, box[e][p][f])

Report(e, f, p) == outputs' = [outputs EXCEPT ![e] = @ \cup {<<f, p>>}]

\* Mutation: the output is appended before the upload's error is looked at.
SyncFileUnchecked(e, f, p) ==
    /\ pc[e] = "syncing_out" /\ Ended(e, <<f, p>>)
    /\ Report(e, f, p)
    /\ \/ PutInStore(e, f, p) /\ Succeeds
       \/ Fails(e) /\ UNCHANGED store
    /\ UNCHANGED <<rowVars, pc, requested, synced, box, outcome, reply, envVars, unsaved>>

\* One goroutine of SyncFromSandbox.  Both directories share the names of the
\* chat's objects.
SyncFileFromSandbox(e, f, p) ==
    /\ pc[e] = "syncing_out" /\ Ended(e, <<f, p>>)
    /\ \/ PutInStore(e, f, p) /\ Succeeds /\ Report(e, f, p)
       \/ Fails(e) /\ UNCHANGED outputs /\ (PutInStore(e, f, p) \/ UNCHANGED store)
    /\ UNCHANGED <<rowVars, pc, requested, synced, box, outcome, reply, envVars, unsaved>>

-----------------------------------------------------------------------------
(* The result.                                                             *)

StatusOf(o) ==
    CASE o = "zero" -> "completed" [] o = "deadline" -> "timeout" [] OTHER -> "failed"

\* exitCode keeps its initial 0 unless executeCode returned a result.
ExitOf(o) == IF o = "nonzero" THEN 1 ELSE 0

\* Mutation: the row is written before the error of executeCode is looked at.
FinishTooSoon(e) ==
    /\ pc[e] = "syncing_out" /\ todo[e] = {}
    /\ CompleteExecution(e, IF ExitOf(outcome[e]) = 0 THEN "completed" ELSE "failed", ExitOf(outcome[e]))
    /\ Answer(e, Reply(200, StatusOf(outcome[e]), ExitOf(outcome[e])))
    /\ UNCHANGED <<requested, fileVars, outcome, store, envVars>>

\* Mutation: nothing is recorded for a client that has left.
FinishForPresent(e) ==
    /\ pc[e] = "syncing_out" /\ todo[e] = {}
    /\ IF gone[e] THEN UNCHANGED <<rowVars, faults, unsaved>>
                  ELSE CompleteExecution(e, StatusOf(outcome[e]), ExitOf(outcome[e]))
    /\ Answer(e, Reply(200, StatusOf(outcome[e]), ExitOf(outcome[e])))
    /\ UNCHANGED <<requested, fileVars, outcome, store, envVars>>

\* CompleteExecution, whose error is logged, and the answer.
Finish(e) ==
    /\ pc[e] = "syncing_out" /\ todo[e] = {}
    /\ CompleteExecution(e, StatusOf(outcome[e]), ExitOf(outcome[e]))
    /\ Answer(e, Reply(200, StatusOf(outcome[e]), ExitOf(outcome[e])))
    /\ UNCHANGED <<requested, fileVars, outcome, store, envVars>>

Handler(e) ==
    \/ CreateExecution(e) \/ Claimed(e) \/ NotClaimed(e) \/ LinkSandbox(e)
    \/ MarkSyncingIn(e) \/ ListInputs(e) \/ SyncedIn(e) \/ MarkExecuting(e)
    \/ RunCode(e) \/ MarkSyncingOut(e) \/ ListOutputs(e) \/ Finish(e)
    \/ \E f \in File : SyncFileToSandbox(e, f) \/ \E p \in Place : SyncFileFromSandbox(e, f, p)

-----------------------------------------------------------------------------
(* The environment.                                                        *)

ClientLeaves(e) ==
    /\ pc[e] # "done" /\ ~gone[e]
    /\ Cardinality({d \in Exec : gone[d]}) < MaxLeaving
    /\ gone' = [gone EXCEPT ![e] = TRUE]
    /\ UNCHANGED <<rowVars, pc, requested, fileVars, outcome, reply, store, crashes, unsaved, faults>>

\* The process dies.  Nothing looks at the executions table at startup.
Crash ==
    /\ crashes < MaxCrashes
    /\ crashes' = crashes + 1
    /\ pc' = [e \in Exec |-> IF pc[e] = "creating" THEN "creating" ELSE "done"]
    /\ unsaved' = [e \in Exec |-> unsaved[e] \/ pc[e] \notin {"creating", "done"}]
    /\ todo' = [e \in Exec |-> {}]
    /\ UNCHANGED <<rowVars, requested, synced, box, outputs, outcome, reply, store, gone, faults>>

Next == Crash \/ \E e \in Exec : Handler(e) \/ ClientLeaves(e)

Spec == Init /\ [][Next]_vars

\* The Go scheduler runs a handler that can run; every call it makes ends.
Fairness == \A e \in Exec : WF_vars(Handler(e))

FairSpec == Spec /\ Fairness

-----------------------------------------------------------------------------
(* Properties.                                                             *)

TypeOK ==
    /\ status \in [Exec -> Status] /\ exitCode \in [Exec -> {NoExit, 0, 1}]
    /\ pc \in [Exec -> PC]
    /\ requested \in [Exec -> SUBSET File] /\ synced \in [Exec -> SUBSET File]
    /\ todo \in [Exec -> SUBSET (File \X Place)]
    /\ box \in [Exec -> [Place -> [File -> Content]]]
    /\ outcome \in [Exec -> Outcome]
    /\ outputs \in [Exec -> SUBSET (OutputFile \X Place)]
    /\ reply \in [Exec -> [code : {0, 200, 500, 503}, status : Status, exit : {NoExit, 0, 1}]]
    /\ store \in [File -> Content]
    /\ gone \in [Exec -> BOOLEAN] /\ unsaved \in [Exec -> BOOLEAN]
    /\ faults \in 0..MaxFaults /\ crashes \in 0..MaxCrashes

\* What the client is told of an execution is what the table keeps of it,
\* whatever went wrong before, unless the last write itself failed.
ReplyMatchesRow ==
    \A e \in Exec : reply[e].code = 200 /\ ~unsaved[e] =>
        reply[e].status = status[e] /\ reply[e].exit = exitCode[e]

\* No handler returns and leaves its row in a status that promises more to come,
\* on any path, unless a write failed or the process died.
AnsweredHasEnded ==
    \A e \in Exec : pc[e] = "done" /\ ~unsaved[e] => status[e] \in Terminal

\* A file named in a reply is in the chat as code left it, this execution's or
\* one that used the name too.  The user's old object is there only if a transfer
\* into a sandbox failed though it was obeyed: that copy goes back as an output.
ReportedIsStored ==
    \A e \in Exec : \A t \in outputs[e] :
        \/ store[t[1]] \in Exec \X Place
        \/ \E d \in Exec : box[d]["work"][t[1]] = User /\ t[1] \notin synced[d]

\* An object code has written is never put back to what the user had uploaded:
\* a concurrent execution that merely read the old one does not return it.
Calm == faults = 0 /\ \A e \in Exec : ~gone[e]
NeverReverts ==
    [][Calm' => \A f \in File : store[f] \in Exec \X Place => store'[f] \in Exec \X Place]_vars

Untroubled(e) == faults = 0 /\ crashes = 0 /\ ~gone[e]

\* "Input files are synced" before "Code runs" (README.md): the code sees every
\* requested object of the user, in spite of the parallel transfers.
InputsArrive ==
    \A e \in Exec : pc[e] = "running" /\ Untroubled(e) =>
        \A f \in requested[e] \cap UserFile : box[e]["work"][f] # NoFile

\* "New files are synced": what the code adds in either directory under a name
\* that isOutputFile accepts is reported by the time of the answer, whatever the
\* status of the execution and whichever listing is empty.  It promises nothing
\* once a call has failed: a listing that fails loses the files of its directory.
NewFilesSynced ==
    \A e \in Exec : pc[e] = "done" /\ Untroubled(e) =>
        \A f \in OutputFile, p \in Place :
            box[e][p][f] = <<e, p>> /\ (p = "work" => f \notin synced[e]) => <<f, p>> \in outputs[e]

\* Every row gets to an end, or the write that should have brought it there
\* failed or was never made because the process died.
RowEnds ==
    \A e \in Exec : status[e] = "pending" ~> status[e] \in Terminal \/ unsaved[e]

\* The handler implements the life of an execution: the statuses between
\* pending and the end are one open row, and the row reaches its end in the very
\* step that ends the handler's work, in spite of failed writes and crashes.
rowOf == [e \in Exec |->
    IF status[e] = "none" THEN "none" ELSE IF status[e] \in Terminal THEN "ended" ELSE "open"]
lifeOf == [e \in Exec |->
    CASE pc[e] = "creating" -> "new" [] pc[e] = "claiming" -> "started"
      [] pc[e] = "done" -> "over" [] OTHER -> "working"]

Lives == INSTANCE ExecutionLife WITH row <- rowOf, life <- lifeOf, short <- unsaved
KeepsLife == Lives!LifeSpec

\* README.md:28 "New/modified files are synced": a requested file the code wrote to is one.
ModifiedFilesSynced ==
    \A e \in Exec : pc[e] = "done" /\ Untroubled(e) =>
        \A f \in OutputFile : box[e]["work"][f] = <<e, "work">> => <<f, "work">> \in outputs[e]

\* README.md:163 "success: result.exitCode === 0": the client takes exit code 0
\* for the success of the execution.
ExitCodeTells ==
    \A e \in Exec : reply[e].code = 200 /\ reply[e].exit = 0 => reply[e].status = "completed"

=============================================================================
