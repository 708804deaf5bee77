--------------------------- MODULE ExecutionProofs ---------------------------
(***************************************************************************)
(* Theorems about Execution, for any chat, files and number of failures.   *)
(***************************************************************************)
EXTENDS Execution, TLAPS

-----------------------------------------------------------------------------
(* Types, in three parts: the row, the handler and the files.              *)

RowType ==
    /\ status \in [Exec -> Status] /\ exitCode \in [Exec -> {NoExit, 0, 1}]
    /\ unsaved \in [Exec -> BOOLEAN] /\ faults \in 0..MaxFaults

HandlerType ==
    /\ pc \in [Exec -> PC] /\ outcome \in [Exec -> Outcome]
    /\ reply \in [Exec -> [code : {0, 200, 500, 503}, status : Status, exit : {NoExit, 0, 1}]]
    /\ gone \in [Exec -> BOOLEAN] /\ crashes \in 0..MaxCrashes

\* What is reported was listed, and only names isOutputFile accepts are listed.
OutputsListed ==
    \A e \in Exec : pc[e] = "syncing_out" => todo[e] \subseteq OutputFile \X Place

FileType ==
    /\ requested \in [Exec -> SUBSET File] /\ synced \in [Exec -> SUBSET File]
    /\ todo \in [Exec -> SUBSET (File \X Place)]
    /\ box \in [Exec -> [Place -> [File -> Content]]]
    /\ outputs \in [Exec -> SUBSET (OutputFile \X Place)]
    /\ store \in [File -> Content]
    /\ OutputsListed

\* The parts of TypeOK that the three lemmas below establish one at a time.
LEMMA TypeParts == RowType /\ HandlerType /\ FileType => TypeOK /\ HandlerType /\ FileType
  BY DEF TypeOK, RowType, HandlerType, FileType

\* Every execution starts with an empty sandbox and no row.
LEMMA InitType == Init => RowType /\ HandlerType /\ FileType
<1> SUFFICES ASSUME Init PROVE RowType /\ HandlerType /\ FileType
  OBVIOUS
<1>1. RowType
  BY FaultBoundsAssumption DEF Init, RowType, Status, NoExit
<1>2. HandlerType
  BY FaultBoundsAssumption DEF Init, HandlerType, PC, Outcome, NoReply, Reply, Status, NoExit
<1>3. FileType
  BY FilesAssumption DEF Init, FileType, Place, Content, OutputsListed
<1>4. QED
  BY <1>1, <1>2, <1>3

\* The bound on failed calls is respected.
LEMMA FaultTypes ==
  ASSUME RowType, NEW e \in Exec, Succeeds \/ Fails(e)
  PROVE  faults' \in 0..MaxFaults
<1>1. MaxFaults \in Nat
  BY FaultBoundsAssumption
<1>2. CASE faults' = faults
  BY <1>2 DEF RowType
<1>3. CASE faults < MaxFaults /\ faults' = faults + 1
  BY <1>1, <1>3 DEF RowType
<1>4. QED
  BY <1>2, <1>3 DEF Succeeds, Fails

\* A write to the row keeps its columns in their types.
LEMMA WriteTypes ==
  ASSUME RowType, NEW e \in Exec, NEW st \in Status, NEW x \in {NoExit, 0, 1},
         Write(e, st, x) \/ WriteLost(e, st, x)
  PROVE  status' \in [Exec -> Status] /\ exitCode' \in [Exec -> {NoExit, 0, 1}]
  BY DEF RowType, Write, WriteLost, rowVars

\* Every statement keeps the types of the row and of what records its failure.
LEMMA UpdateTypes ==
  ASSUME RowType, NEW e \in Exec, NEW st \in Status,
         UpdateExecutionStatus(e, st), UNCHANGED unsaved
  PROVE  RowType'
<1>1. Write(e, st, exitCode[e]) \/ WriteLost(e, st, exitCode[e])
  BY DEF UpdateExecutionStatus
<1>2. Succeeds \/ Fails(e)
  BY DEF UpdateExecutionStatus
<1>3. exitCode[e] \in {NoExit, 0, 1}
  BY DEF RowType
<1>4. status' \in [Exec -> Status] /\ exitCode' \in [Exec -> {NoExit, 0, 1}]
  BY <1>1, <1>3, WriteTypes
<1>5. QED
  BY <1>2, <1>4, FaultTypes DEF RowType

\* The same for the last write of an execution.
LEMMA CompleteTypes ==
  ASSUME RowType, NEW e \in Exec, NEW st \in Status, NEW x \in {NoExit, 0, 1},
         CompleteExecution(e, st, x)
  PROVE  RowType'
<1>1. Write(e, st, x) \/ WriteLost(e, st, x)
  BY DEF CompleteExecution
<1>2. Succeeds \/ Fails(e)
  BY DEF CompleteExecution
<1>3. unsaved' \in [Exec -> BOOLEAN]
  BY DEF CompleteExecution, RowType
<1>4. QED
  BY <1>1, <1>2, <1>3, FaultTypes, WriteTypes DEF RowType

\* Every outcome of executeCode has a terminal status and an exit code.
LEMMA ResultTypes ==
  ASSUME NEW o
  PROVE  StatusOf(o) \in Terminal /\ ExitOf(o) \in {0, 1}
  BY DEF StatusOf, ExitOf, Terminal

\* A step keeps the types of the row and of the history of its failures.
LEMMA RowStep ==
  ASSUME RowType, [Next]_vars
  PROVE  RowType'
<1> USE DEF rowVars, fileVars, envVars
<1>1. CASE UNCHANGED vars
  BY <1>1 DEF vars, RowType
<1>2. CASE Crash
  BY <1>2 DEF Crash, RowType
<1>3. ASSUME NEW e \in Exec, ClientLeaves(e) PROVE RowType'
  BY <1>3 DEF ClientLeaves, RowType
<1>4. ASSUME NEW e \in Exec, CreateExecution(e) PROVE RowType'
  <2>1. Write(e, "pending", NoExit) \/ WriteLost(e, "pending", NoExit)
    BY <1>4 DEF CreateExecution
  <2>2. Succeeds \/ Fails(e)
    BY <1>4 DEF CreateExecution
  <2>3. unsaved' \in [Exec -> BOOLEAN]
    BY <1>4 DEF CreateExecution, RowType
  <2>4. "pending" \in Status /\ NoExit \in {NoExit, 0, 1}
    BY DEF Status
  <2>5. status' \in [Exec -> Status] /\ exitCode' \in [Exec -> {NoExit, 0, 1}]
    BY <2>1, <2>4, WriteTypes
  <2>6. QED
    BY <2>2, <2>3, <2>5, FaultTypes DEF RowType
<1>5. ASSUME NEW e \in Exec, Claimed(e) PROVE RowType'
  BY <1>5 DEF Claimed, RowType
<1>6. ASSUME NEW e \in Exec, NotClaimed(e) PROVE RowType'
  <2>1. CompleteExecution(e, "failed", 1) /\ "failed" \in Status /\ 1 \in {NoExit, 0, 1}
    BY <1>6 DEF NotClaimed, Status, Terminal
  <2>2. QED
    BY <2>1, CompleteTypes
<1>7. ASSUME NEW e \in Exec, LinkSandbox(e) PROVE RowType'
  <2>1. Succeeds \/ Fails(e)
    BY <1>7 DEF LinkSandbox
  <2>2. QED
    BY <1>7, <2>1, FaultTypes DEF LinkSandbox, RowType
<1>8. ASSUME NEW e \in Exec, MarkSyncingIn(e) \/ MarkExecuting(e) \/ MarkSyncingOut(e) PROVE RowType'
  <2>1. UNCHANGED unsaved
    BY <1>8 DEF MarkSyncingIn, MarkExecuting, MarkSyncingOut
  <2>2. {"syncing_in", "executing", "syncing_out"} \subseteq Status
    BY DEF Status
  <2>3. CASE MarkSyncingIn(e)
    BY <2>1, <2>2, <2>3, UpdateTypes DEF MarkSyncingIn
  <2>4. CASE MarkExecuting(e)
    BY <2>1, <2>2, <2>4, UpdateTypes DEF MarkExecuting
  <2>5. CASE MarkSyncingOut(e)
    BY <2>1, <2>2, <2>5, UpdateTypes DEF MarkSyncingOut
  <2>6. QED
    BY <1>8, <2>3, <2>4, <2>5
<1>9. ASSUME NEW e \in Exec, ListInputs(e) \/ RunCode(e) \/ ListOutputs(e) PROVE RowType'
  <2>1. Succeeds \/ Fails(e)
    BY <1>9 DEF ListInputs, RunCode, ListOutputs
  <2>2. UNCHANGED <<status, exitCode, unsaved>>
    BY <1>9 DEF ListInputs, RunCode, ListOutputs
  <2>3. QED
    BY <2>1, <2>2, FaultTypes DEF RowType
<1>10. ASSUME NEW e \in Exec, SyncedIn(e) PROVE RowType'
  BY <1>10 DEF SyncedIn, RowType
<1>11. ASSUME NEW e \in Exec, NEW f \in File, NEW p \in Place,
              SyncFileToSandbox(e, f) \/ SyncFileFromSandbox(e, f, p)
       PROVE RowType'
  <2>1. Succeeds \/ Fails(e)
    BY <1>11 DEF SyncFileToSandbox, SyncFileFromSandbox
  <2>2. UNCHANGED <<status, exitCode, unsaved>>
    BY <1>11 DEF SyncFileToSandbox, SyncFileFromSandbox
  <2>3. QED
    BY <2>1, <2>2, FaultTypes DEF RowType
<1>12. ASSUME NEW e \in Exec, Finish(e) PROVE RowType'
  <2>1. CompleteExecution(e, StatusOf(outcome[e]), ExitOf(outcome[e]))
    BY <1>12 DEF Finish
  <2>2. StatusOf(outcome[e]) \in Status /\ ExitOf(outcome[e]) \in {NoExit, 0, 1}
    BY ResultTypes DEF Status
  <2>3. QED
    BY <2>1, <2>2, CompleteTypes
<1>13. QED
  <2>1. \A e \in Exec, f \in File : SyncFileToSandbox(e, f) => RowType'
    BY <1>11 DEF Place
  <2>2. QED
    BY <2>1, <1>1, <1>2, <1>3, <1>4, <1>5, <1>6, <1>7, <1>8, <1>9, <1>10, <1>11, <1>12 DEF Next, Handler

\* An answer is one of the replies of handleExecute.
LEMMA AnswerTypes ==
  ASSUME HandlerType, NEW e \in Exec, NEW code \in {200, 500, 503}, NEW st \in Status,
         NEW x \in {NoExit, 0, 1}, Answer(e, Reply(code, st, x))
  PROVE  /\ reply' \in [Exec -> [code : {0, 200, 500, 503}, status : Status, exit : {NoExit, 0, 1}]]
         /\ pc' \in [Exec -> PC]
<1>1. Reply(code, st, x) \in [code : {0, 200, 500, 503}, status : Status, exit : {NoExit, 0, 1}]
  BY DEF Reply
<1>2. reply' = [reply EXCEPT ![e] = Reply(code, st, x)] /\ pc' = [pc EXCEPT ![e] = "done"]
  BY DEF Answer, Goto
<1>3. QED
  BY <1>1, <1>2 DEF HandlerType, PC

\* A step keeps the types of the handler's own state.
LEMMA HandlerStep ==
  ASSUME HandlerType, [Next]_vars
  PROVE  HandlerType'
<1> USE DEF rowVars, fileVars, envVars
<1>a. "none" \in Status /\ NoExit \in {NoExit, 0, 1}
  BY DEF Status
<1>1. CASE UNCHANGED vars
  BY <1>1 DEF vars, HandlerType
<1>2. CASE Crash
  <2>1. crashes' \in 0..MaxCrashes
    BY <1>2, FaultBoundsAssumption DEF Crash, HandlerType
  <2>2. pc' \in [Exec -> PC]
    BY <1>2 DEF Crash, HandlerType, PC
  <2>3. QED
    BY <1>2, <2>1, <2>2 DEF Crash, HandlerType
<1>3. ASSUME NEW e \in Exec, ClientLeaves(e) PROVE HandlerType'
  BY <1>3 DEF ClientLeaves, HandlerType
<1>4. ASSUME NEW e \in Exec, CreateExecution(e) PROVE HandlerType'
  <2>1. UNCHANGED <<outcome, gone, crashes>>
    BY <1>4 DEF CreateExecution
  <2>2. CASE Goto(e, "claiming") /\ UNCHANGED reply
    BY <2>1, <2>2 DEF HandlerType, Goto, PC
  <2>3. CASE Answer(e, Reply(500, "none", NoExit))
    BY <1>a, <2>1, <2>3, AnswerTypes DEF HandlerType
  <2>4. QED
    BY <1>4, <2>2, <2>3 DEF CreateExecution
<1>5. ASSUME NEW e \in Exec, Claimed(e) PROVE HandlerType'
  BY <1>5 DEF Claimed, HandlerType, Goto, PC
<1>6. ASSUME NEW e \in Exec, NotClaimed(e) PROVE HandlerType'
  <2>1. UNCHANGED <<outcome, gone, crashes>>
    BY <1>6 DEF NotClaimed
  <2>2. PICK code \in {500, 503} : Answer(e, Reply(code, "none", NoExit))
    BY <1>6 DEF NotClaimed
  <2>3. QED
    BY <1>a, <2>1, <2>2, AnswerTypes DEF HandlerType
<1>7. ASSUME NEW e \in Exec, LinkSandbox(e) PROVE HandlerType'
  <2>1. UNCHANGED <<outcome, gone, crashes>>
    BY <1>7 DEF LinkSandbox
  <2>2. CASE Goto(e, "linked") /\ UNCHANGED reply
    BY <2>1, <2>2 DEF HandlerType, Goto, PC
  <2>3. CASE Answer(e, Reply(500, "none", NoExit))
    BY <1>a, <2>1, <2>3, AnswerTypes DEF HandlerType
  <2>4. QED
    BY <1>7, <2>2, <2>3 DEF LinkSandbox
<1>8. ASSUME NEW e \in Exec, MarkSyncingIn(e) \/ MarkExecuting(e) \/ MarkSyncingOut(e) PROVE HandlerType'
  BY <1>8 DEF MarkSyncingIn, MarkExecuting, MarkSyncingOut, HandlerType, Goto, PC
<1>9. ASSUME NEW e \in Exec, ListInputs(e) \/ ListOutputs(e) \/ SyncedIn(e) PROVE HandlerType'
  BY <1>9 DEF ListInputs, ListOutputs, SyncedIn, HandlerType, Goto, PC
<1>10. ASSUME NEW e \in Exec, RunCode(e) PROVE HandlerType'
  BY <1>10 DEF RunCode, HandlerType, Outcome, Goto, PC
<1>11. ASSUME NEW e \in Exec, NEW f \in File, NEW p \in Place,
              SyncFileToSandbox(e, f) \/ SyncFileFromSandbox(e, f, p)
       PROVE HandlerType'
  BY <1>11 DEF SyncFileToSandbox, SyncFileFromSandbox, HandlerType
<1>12. ASSUME NEW e \in Exec, Finish(e) PROVE HandlerType'
  <2>1. StatusOf(outcome[e]) \in Status /\ ExitOf(outcome[e]) \in {NoExit, 0, 1}
    BY ResultTypes DEF Status
  <2>2. Answer(e, Reply(200, StatusOf(outcome[e]), ExitOf(outcome[e])))
    BY <1>12 DEF Finish
  <2>3. UNCHANGED <<outcome, gone, crashes>>
    BY <1>12 DEF Finish
  <2>4. QED
    BY <2>1, <2>2, <2>3, AnswerTypes DEF HandlerType
<1>13. QED
  <2>1. \A e \in Exec, f \in File : SyncFileToSandbox(e, f) => HandlerType'
    BY <1>11 DEF Place
  <2>2. QED
    BY <2>1, <1>1, <1>2, <1>3, <1>4, <1>5, <1>6, <1>7, <1>8, <1>9, <1>10, <1>11, <1>12 DEF Next, Handler

\* A step keeps the types of the files, in the sandboxes and in the chat.
LEMMA FileStep ==
  ASSUME FileType, HandlerType, [Next]_vars
  PROVE  FileType'
<1> USE DEF rowVars, fileVars, envVars
<1>a. ASSUME NEW e \in Exec, NEW s, s # "syncing_out", pc' = [pc EXCEPT ![e] = s],
             \A d \in Exec \ {e} : todo'[d] = todo[d]
      PROVE OutputsListed'
  BY <1>a DEF FileType, HandlerType, OutputsListed
<1>b. ASSUME UNCHANGED pc, \A d \in Exec : todo'[d] \subseteq todo[d]
      PROVE OutputsListed'
  BY <1>b DEF FileType, OutputsListed
<1>1. CASE UNCHANGED vars
  BY <1>1 DEF vars, FileType, OutputsListed
<1>2. CASE Crash
  <2>1. OutputsListed'
    BY <1>2 DEF Crash, OutputsListed
  <2>2. QED
    BY <1>2, <2>1 DEF Crash, FileType
<1>3. ASSUME NEW e \in Exec,
             \/ ClientLeaves(e) \/ CreateExecution(e) \/ Claimed(e) \/ NotClaimed(e) \/ LinkSandbox(e)
             \/ MarkSyncingIn(e) \/ MarkExecuting(e) \/ MarkSyncingOut(e) \/ SyncedIn(e) \/ Finish(e)
      PROVE FileType'
  <2>1. UNCHANGED <<requested, todo, synced, box, outputs, store>>
    BY <1>3 DEF ClientLeaves, CreateExecution, Claimed, NotClaimed, LinkSandbox, MarkSyncingIn,
                MarkExecuting, MarkSyncingOut, SyncedIn, Finish
  <2>2. UNCHANGED pc \/ \E s : s # "syncing_out" /\ pc' = [pc EXCEPT ![e] = s]
    BY <1>3 DEF ClientLeaves, CreateExecution, Claimed, NotClaimed, LinkSandbox, MarkSyncingIn,
                MarkExecuting, MarkSyncingOut, SyncedIn, Finish, Answer, Goto
  <2>3. OutputsListed'
    BY <2>1, <2>2, <1>a, <1>b
  <2>4. QED
    BY <2>1, <2>3 DEF FileType
<1>4. ASSUME NEW e \in Exec, ListInputs(e) PROVE FileType'
  <2>1. todo' \in [Exec -> SUBSET (File \X Place)]
    <3>1. {<<f, "work">> : f \in requested[e] \cap Objects} \in SUBSET (File \X Place)
      BY DEF FileType, Place
    <3>2. QED
      BY <1>4, <3>1 DEF ListInputs, FileType
  <2>2. OutputsListed'
    <3>1. pc' = [pc EXCEPT ![e] = "syncing_in"]
      BY <1>4 DEF ListInputs, Goto
    <3>2. \A d \in Exec \ {e} : todo'[d] = todo[d]
      BY <1>4 DEF ListInputs, FileType
    <3>3. QED
      BY <3>1, <3>2, <1>a
  <2>3. QED
    BY <1>4, <2>1, <2>2 DEF ListInputs, FileType
<1>5. ASSUME NEW e \in Exec, RunCode(e) PROVE FileType'
  <2>1. PICK written \in SUBSET (File \X Place) :
          box' = [box EXCEPT ![e] = [p \in Place |-> [f \in File |->
                     IF <<f, p>> \in written THEN <<e, p>> ELSE box[e][p][f]]]]
    BY <1>5 DEF RunCode
  <2>2. \A p \in Place, f \in File :
          (IF <<f, p>> \in written THEN <<e, p>> ELSE box[e][p][f]) \in Content
    BY DEF FileType, Content
  <2>3. box' \in [Exec -> [Place -> [File -> Content]]]
    BY <2>1, <2>2 DEF FileType
  <2>4. OutputsListed'
    BY <1>5, <1>a DEF RunCode, Goto
  <2>5. QED
    BY <1>5, <2>3, <2>4 DEF RunCode, FileType
<1>6. ASSUME NEW e \in Exec, ListOutputs(e) PROVE FileType'
  <2>1. NewFiles(e) \subseteq OutputFile \X Place
    BY DEF NewFiles, InBox, Place
  <2>2. PICK new \in SUBSET NewFiles(e) : todo' = [todo EXCEPT ![e] = new]
    BY <1>6 DEF ListOutputs
  <2>3. new \subseteq OutputFile \X Place /\ new \subseteq File \X Place
    BY <2>1, <2>2, FilesAssumption
  <2>4. todo' \in [Exec -> SUBSET (File \X Place)]
    BY <2>2, <2>3 DEF FileType
  <2>5. OutputsListed'
    BY <1>6, <2>2, <2>3 DEF ListOutputs, Goto, FileType, HandlerType, OutputsListed
  <2>6. QED
    BY <1>6, <2>4, <2>5 DEF ListOutputs, FileType
<1>7. ASSUME NEW e \in Exec, NEW f \in File, SyncFileToSandbox(e, f) PROVE FileType'
  <2>1. todo' \in [Exec -> SUBSET (File \X Place)]
    BY <1>7 DEF SyncFileToSandbox, Ended, FileType
  <2>2. synced' \in [Exec -> SUBSET File]
    <3>1. synced' = synced \/ synced' = [synced EXCEPT ![e] = synced[e] \cup {f}]
      BY <1>7 DEF SyncFileToSandbox
    <3>2. QED
      BY <3>1 DEF FileType
  <2>3. box' \in [Exec -> [Place -> [File -> Content]]]
    <3>1. CASE PutInBox(e, f)
      <4>1. [box[e]["work"] EXCEPT ![f] = store[f]] \in [File -> Content]
        BY DEF FileType, Place
      <4>2. [box[e] EXCEPT !["work"] = [box[e]["work"] EXCEPT ![f] = store[f]]] \in [Place -> [File -> Content]]
        BY <4>1 DEF FileType
      <4>3. box' = [box EXCEPT ![e] = [box[e] EXCEPT !["work"] = [box[e]["work"] EXCEPT ![f] = store[f]]]]
        BY <3>1 DEF PutInBox
      <4>4. QED
        BY <4>2, <4>3 DEF FileType
    <3>2. CASE UNCHANGED box
      BY <3>2 DEF FileType
    <3>3. QED
      BY <1>7, <3>1, <3>2 DEF SyncFileToSandbox
  <2>4. OutputsListed'
    BY <1>7, <1>b DEF SyncFileToSandbox, Ended, FileType
  <2>5. QED
    BY <1>7, <2>1, <2>2, <2>3, <2>4 DEF SyncFileToSandbox, FileType
<1>8. ASSUME NEW e \in Exec, NEW f \in File, NEW p \in Place, SyncFileFromSandbox(e, f, p) PROVE FileType'
  <2>1. todo' \in [Exec -> SUBSET (File \X Place)]
    BY <1>8 DEF SyncFileFromSandbox, Ended, FileType
  <2>2. store' \in [File -> Content]
    <3>1. box[e][p][f] \in Content
      BY DEF FileType
    <3>2. store' = store \/ store' = [store EXCEPT ![f] = box[e][p][f]]
      BY <1>8 DEF SyncFileFromSandbox, PutInStore, Upload
    <3>3. QED
      BY <3>1, <3>2 DEF FileType
  <2>3. outputs' \in [Exec -> SUBSET (OutputFile \X Place)]
    <3>1. <<f, p>> \in OutputFile \X Place
      <4>1. pc[e] = "syncing_out" /\ <<f, p>> \in todo[e]
        BY <1>8 DEF SyncFileFromSandbox, Ended
      <4>2. todo[e] \subseteq OutputFile \X Place
        BY <4>1 DEF FileType, OutputsListed
      <4>3. QED
        BY <4>1, <4>2
    <3>2. outputs' = outputs \/ outputs' = [outputs EXCEPT ![e] = outputs[e] \cup {<<f, p>>}]
      BY <1>8 DEF SyncFileFromSandbox, Report
    <3>3. outputs[e] \cup {<<f, p>>} \in SUBSET (OutputFile \X Place)
      BY <3>1 DEF FileType
    <3>4. QED
      BY <3>2, <3>3 DEF FileType
  <2>4. OutputsListed'
    BY <1>8, <1>b DEF SyncFileFromSandbox, Ended, FileType
  <2>5. QED
    BY <1>8, <2>1, <2>2, <2>3, <2>4 DEF SyncFileFromSandbox, FileType
<1>9. QED
  BY <1>1, <1>2, <1>3, <1>4, <1>5, <1>6, <1>7, <1>8 DEF Next, Handler

\* Every variable of Execution keeps its type; in particular handleExecute never
\* reports a file whose name isOutputFile rejects.
THEOREM TypeCorrect == Spec => []TypeOK
<1>1. RowType /\ HandlerType /\ FileType /\ [Next]_vars => (RowType /\ HandlerType /\ FileType)'
  BY RowStep, HandlerStep, FileStep
<1>2. QED
  BY <1>1, InitType, TypeParts, PTL DEF Spec

-----------------------------------------------------------------------------
(* The row and the reply.                                                  *)

RowInv ==
    /\ ReplyMatchesRow /\ AnsweredHasEnded
    /\ \A e \in Exec : pc[e] # "done" => reply[e] = NoReply

\* A step of a handler that answers nobody and stays short of the end.
LEMMA RowInvWorks ==
  ASSUME RowInv, HandlerType, NEW e \in Exec, pc[e] # "done", UNCHANGED <<reply, unsaved>>,
         NEW s, s # "done", pc' = [pc EXCEPT ![e] = s] \/ pc' = pc,
         \A d \in Exec \ {e} : status'[d] = status[d] /\ exitCode'[d] = exitCode[d]
  PROVE  RowInv'
<1>1. \A d \in Exec : pc'[d] = "done" => d # e /\ pc[d] = "done"
  BY DEF HandlerType
<1>2. \A d \in Exec : pc'[d] # "done" => reply'[d] = NoReply
  BY DEF RowInv, HandlerType
<1>3. AnsweredHasEnded'
  BY <1>1 DEF RowInv, AnsweredHasEnded
<1>4. ReplyMatchesRow'
  <2>1. \A d \in Exec : reply[d].code = 200 => d # e
    BY DEF RowInv, NoReply, Reply
  <2>2. QED
    BY <2>1 DEF RowInv, ReplyMatchesRow
<1>5. QED
  BY <1>2, <1>3, <1>4 DEF RowInv

\* The step that answers, when the row agrees with the answer.
LEMMA RowInvAnswers ==
  ASSUME RowInv, HandlerType, RowType, NEW e \in Exec, NEW r, Answer(e, r),
         \A d \in Exec \ {e} :
             status'[d] = status[d] /\ exitCode'[d] = exitCode[d] /\ unsaved'[d] = unsaved[d],
         \/ unsaved'[e]
         \/ /\ status'[e] \in Terminal
            /\ r.code = 200 => r.status = status'[e] /\ r.exit = exitCode'[e]
  PROVE  RowInv'
<1>1. reply' = [reply EXCEPT ![e] = r] /\ pc' = [pc EXCEPT ![e] = "done"]
  BY DEF Answer, Goto
<1>2. reply'[e] = r /\ pc'[e] = "done"
  BY <1>1 DEF HandlerType
<1>3. \A d \in Exec \ {e} : reply'[d] = reply[d] /\ pc'[d] = pc[d]
  BY <1>1 DEF HandlerType
<1>4. AnsweredHasEnded'
  BY <1>2, <1>3 DEF RowInv, AnsweredHasEnded
<1>5. ReplyMatchesRow'
  BY <1>2, <1>3 DEF RowInv, ReplyMatchesRow
<1>6. QED
  BY <1>2, <1>3, <1>4, <1>5 DEF RowInv

\* What a write to the row of e leaves alone, and what it reaches.
LEMMA OneRow ==
  ASSUME RowType, NEW e \in Exec, NEW st, NEW x, Write(e, st, x) \/ WriteLost(e, st, x)
  PROVE  /\ \A d \in Exec \ {e} : status'[d] = status[d] /\ exitCode'[d] = exitCode[d]
         /\ Write(e, st, x) => status'[e] = st /\ exitCode'[e] = x
  BY DEF RowType, Write, WriteLost, rowVars

\* After CompleteExecution the row has what was written, or the failure is on record.
LEMMA CompletesRow ==
  ASSUME RowType, NEW e \in Exec, NEW st, NEW x, CompleteExecution(e, st, x)
  PROVE  /\ \A d \in Exec \ {e} :
               status'[d] = status[d] /\ exitCode'[d] = exitCode[d] /\ unsaved'[d] = unsaved[d]
         /\ unsaved'[e] \/ (status'[e] = st /\ exitCode'[e] = x)
<1>1. Write(e, st, x) \/ WriteLost(e, st, x)
  BY DEF CompleteExecution
<1>2. \/ Write(e, st, x) /\ UNCHANGED unsaved
      \/ unsaved' = [unsaved EXCEPT ![e] = TRUE]
  BY DEF CompleteExecution
<1>3. QED
  BY <1>1, <1>2, OneRow DEF RowType

\* RowInv is inductive: one step for each kind of action.
LEMMA RowInvStep ==
  ASSUME RowInv, HandlerType, RowType, [Next]_vars
  PROVE  RowInv'
<1> USE DEF rowVars, fileVars, envVars
<1>1. CASE UNCHANGED vars
  BY <1>1 DEF vars, RowInv, ReplyMatchesRow, AnsweredHasEnded
<1>2. CASE Crash
  <2>1. \A e \in Exec : pc'[e] # "done" => pc[e] # "done"
    BY <1>2 DEF Crash
  <2>2. \A e \in Exec : unsaved[e] => unsaved'[e]
    BY <1>2 DEF Crash
  <2>3. AnsweredHasEnded'
    BY <1>2, <2>2 DEF Crash, RowInv, AnsweredHasEnded
  <2>4. ReplyMatchesRow'
    BY <1>2, <2>2 DEF Crash, RowInv, ReplyMatchesRow
  <2>5. QED
    BY <1>2, <2>1, <2>3, <2>4 DEF Crash, RowInv
<1>3. ASSUME NEW e \in Exec, ClientLeaves(e) PROVE RowInv'
  BY <1>3 DEF ClientLeaves, RowInv, ReplyMatchesRow, AnsweredHasEnded
<1>4. ASSUME NEW e \in Exec, CreateExecution(e) PROVE RowInv'
  <2>1. \A d \in Exec \ {e} : status'[d] = status[d] /\ exitCode'[d] = exitCode[d]
    BY <1>4, OneRow DEF CreateExecution
  <2>2. CASE Goto(e, "claiming") /\ UNCHANGED <<reply, unsaved>>
    BY <1>4, <2>1, <2>2, RowInvWorks DEF CreateExecution, Goto
  <2>3. CASE Answer(e, Reply(500, "none", NoExit)) /\ unsaved' = [unsaved EXCEPT ![e] = TRUE]
    BY <2>1, <2>3, RowInvAnswers DEF RowType
  <2>4. QED
    BY <1>4, <2>2, <2>3 DEF CreateExecution
<1>5. ASSUME NEW e \in Exec, NotClaimed(e) PROVE RowInv'
  <2>1. PICK code \in {500, 503} : Answer(e, Reply(code, "none", NoExit))
    BY <1>5 DEF NotClaimed
  <2>2. CompleteExecution(e, "failed", 1)
    BY <1>5 DEF NotClaimed
  <2>3. Reply(code, "none", NoExit).code # 200 /\ "failed" \in Terminal
    BY DEF Reply, Terminal
  <2>4. QED
    BY <2>1, <2>2, <2>3, CompletesRow, RowInvAnswers
<1>6. ASSUME NEW e \in Exec, LinkSandbox(e) PROVE RowInv'
  <2>1. CASE Goto(e, "linked") /\ UNCHANGED <<reply, unsaved>>
    BY <1>6, <2>1, RowInvWorks DEF LinkSandbox, Goto
  <2>2. CASE Answer(e, Reply(500, "none", NoExit)) /\ unsaved' = [unsaved EXCEPT ![e] = TRUE]
    BY <1>6, <2>2, RowInvAnswers DEF LinkSandbox, RowType
  <2>3. QED
    BY <1>6, <2>1, <2>2 DEF LinkSandbox
<1>7. ASSUME NEW e \in Exec, MarkSyncingIn(e) \/ MarkExecuting(e) \/ MarkSyncingOut(e) PROVE RowInv'
  <2>1. \A d \in Exec \ {e} : status'[d] = status[d] /\ exitCode'[d] = exitCode[d]
    BY <1>7, OneRow DEF MarkSyncingIn, MarkExecuting, MarkSyncingOut, UpdateExecutionStatus
  <2>2. UNCHANGED <<reply, unsaved>> /\ pc[e] # "done"
    BY <1>7 DEF MarkSyncingIn, MarkExecuting, MarkSyncingOut
  <2>3. \E s : s # "done" /\ pc' = [pc EXCEPT ![e] = s]
    BY <1>7 DEF MarkSyncingIn, MarkExecuting, MarkSyncingOut, Goto
  <2>4. QED
    BY <2>1, <2>2, <2>3, RowInvWorks
<1>8. ASSUME NEW e \in Exec,
             Claimed(e) \/ ListInputs(e) \/ SyncedIn(e) \/ RunCode(e) \/ ListOutputs(e)
      PROVE RowInv'
  <2>1. UNCHANGED <<status, exitCode, reply, unsaved>> /\ pc[e] # "done"
    BY <1>8 DEF Claimed, ListInputs, SyncedIn, RunCode, ListOutputs
  <2>2. \E s : s # "done" /\ pc' = [pc EXCEPT ![e] = s]
    BY <1>8 DEF Claimed, ListInputs, SyncedIn, RunCode, ListOutputs, Goto
  <2>3. QED
    BY <2>1, <2>2, RowInvWorks
<1>9. ASSUME NEW e \in Exec, NEW f \in File, NEW p \in Place,
             SyncFileToSandbox(e, f) \/ SyncFileFromSandbox(e, f, p)
      PROVE RowInv'
  <2>1. UNCHANGED <<pc, status, exitCode, reply, unsaved>>
    BY <1>9 DEF SyncFileToSandbox, SyncFileFromSandbox
  <2>2. QED
    BY <2>1 DEF RowInv, ReplyMatchesRow, AnsweredHasEnded
<1>10. ASSUME NEW e \in Exec, Finish(e) PROVE RowInv'
  <2> DEFINE st == StatusOf(outcome[e])  x == ExitOf(outcome[e])
  <2>1. CompleteExecution(e, st, x) /\ Answer(e, Reply(200, st, x))
    BY <1>10 DEF Finish
  <2>2. st \in Terminal /\ Reply(200, st, x).status = st /\ Reply(200, st, x).exit = x
    BY ResultTypes DEF Reply
  <2> HIDE DEF st, x
  <2>3. QED
    BY <2>1, <2>2, CompletesRow, RowInvAnswers
<1>11. QED
  <2>1. \A e \in Exec, f \in File : SyncFileToSandbox(e, f) => RowInv'
    BY <1>9 DEF Place
  <2>2. QED
    BY <2>1, <1>1, <1>2, <1>3, <1>4, <1>5, <1>6, <1>7, <1>8, <1>9, <1>10 DEF Next, Handler

\* A handler that has answered has left its row as it told the client, unless the
\* last write failed or the process died: the invariant behind the next two theorems.
THEOREM RowInvariant == Spec => []RowInv
<1>1. Init => RowInv
  BY DEF Init, RowInv, ReplyMatchesRow, AnsweredHasEnded, NoReply, Reply
<1>2. /\ RowType /\ HandlerType /\ FileType /\ RowInv /\ [Next]_vars
      => (RowType /\ HandlerType /\ FileType /\ RowInv)'
  BY RowStep, HandlerStep, FileStep, RowInvStep
<1>3. QED
  BY <1>1, <1>2, InitType, PTL DEF Spec

\* The client is told what the table keeps, unless CompleteExecution failed.
THEOREM ReplyMatchesRowHolds == Spec => []ReplyMatchesRow
<1>1. RowInv => ReplyMatchesRow
  BY DEF RowInv
<1>2. QED
  BY <1>1, RowInvariant, PTL

\* handleExecute leaves no row behind in a status that promises more.
THEOREM AnsweredHasEndedHolds == Spec => []AnsweredHasEnded
<1>1. RowInv => AnsweredHasEnded
  BY DEF RowInv
<1>2. QED
  BY <1>1, RowInvariant, PTL

-----------------------------------------------------------------------------
(* The objects of the chat.                                                *)

\* What SyncFromSandbox is about to upload is there, and is the user's own copy
\* only if that copy is not among syncedFiles.
Listed ==
    \A e \in Exec : pc[e] = "syncing_out" => \A t \in todo[e] :
        /\ box[e][t[2]][t[1]] # NoFile
        /\ box[e][t[2]][t[1]] = User => t[2] = "work" /\ t[1] \notin synced[e]

TmpClean == \A e \in Exec, f \in File : box[e]["tmp"][f] # User

Copies == Calm => \A e \in Exec, f \in File : box[e]["work"][f] = User => f \in synced[e]

\* The exception of ReportedIsStored, at an execution whose sandbox is final.
Returned(f) ==
    \E d \in Exec : /\ pc[d] \in {"syncing_out", "done"}
                    /\ box[d]["work"][f] = User /\ f \notin synced[d]

Reported == \A e \in Exec : \A t \in outputs[e] : store[t[1]] \in Exec \X Place \/ Returned(t[1])

ChatInv == Listed /\ TmpClean /\ Copies /\ Reported

\* Failed calls are counted one by one, whoever makes them.
LEMMA FaultsCounted ==
  ASSUME [Next]_vars
  PROVE  faults' = faults \/ faults' = faults + 1
<1> USE DEF rowVars, fileVars, envVars
<1>1. ASSUME NEW e \in Exec, NEW st, NEW x,
             Succeeds \/ Fails(e) \/ UpdateExecutionStatus(e, st) \/ CompleteExecution(e, st, x)
      PROVE faults' = faults \/ faults' = faults + 1
  BY <1>1 DEF Succeeds, Fails, UpdateExecutionStatus, CompleteExecution
<1>2. ASSUME NEW e \in Exec, CreateExecution(e) \/ LinkSandbox(e) \/ ListInputs(e) \/ RunCode(e) \/ ListOutputs(e)
      PROVE faults' = faults \/ faults' = faults + 1
  BY <1>1, <1>2 DEF CreateExecution, LinkSandbox, ListInputs, RunCode, ListOutputs
<1>3. ASSUME NEW e \in Exec,
             NotClaimed(e) \/ MarkSyncingIn(e) \/ MarkExecuting(e) \/ MarkSyncingOut(e) \/ Finish(e)
      PROVE faults' = faults \/ faults' = faults + 1
  BY <1>1, <1>3 DEF NotClaimed, MarkSyncingIn, MarkExecuting, MarkSyncingOut, Finish
<1>4. ASSUME NEW e \in Exec, NEW f \in File, NEW p \in Place,
             SyncFileToSandbox(e, f) \/ SyncFileFromSandbox(e, f, p)
      PROVE faults' = faults \/ faults' = faults + 1
  BY <1>1, <1>4 DEF SyncFileToSandbox, SyncFileFromSandbox
<1>5. ASSUME NEW e \in Exec, ClientLeaves(e) \/ Claimed(e) \/ SyncedIn(e)
      PROVE faults' = faults
  BY <1>5 DEF ClientLeaves, Claimed, SyncedIn
<1>6. Crash \/ UNCHANGED vars => faults' = faults
  BY DEF Crash, vars
<1>7. \A e \in Exec, f \in File : SyncFileToSandbox(e, f) => faults' = faults \/ faults' = faults + 1
  BY <1>4 DEF Place
<1>8. QED
  BY <1>2, <1>3, <1>4, <1>5, <1>6, <1>7 DEF Next, Handler

\* Nobody but the client cancels the context of a request.
LEMMA OnlyClientsLeave ==
  ASSUME [Next]_vars
  PROVE  gone' = gone \/ \E e \in Exec : gone' = [gone EXCEPT ![e] = TRUE]
<1> USE DEF rowVars, fileVars, envVars
<1>1. ASSUME NEW e \in Exec, Handler(e) PROVE UNCHANGED gone
  BY <1>1 DEF Handler, CreateExecution, Claimed, NotClaimed, LinkSandbox, MarkSyncingIn, ListInputs,
              SyncedIn, MarkExecuting, RunCode, MarkSyncingOut, ListOutputs, Finish,
              SyncFileToSandbox, SyncFileFromSandbox
<1>2. QED
  BY <1>1 DEF Next, ClientLeaves, Crash, vars

\* A failed call or a client that has left is never forgotten.
LEMMA CalmBefore ==
  ASSUME RowType, HandlerType, [Next]_vars, Calm'
  PROVE  Calm
<1>1. faults' = faults \/ faults' = faults + 1
  BY FaultsCounted
<1>2. gone' = gone \/ \E e \in Exec : gone' = [gone EXCEPT ![e] = TRUE]
  BY OnlyClientsLeave
<1>3. faults = 0
  BY <1>1 DEF Calm, RowType
<1>4. \A e \in Exec : ~gone[e]
  BY <1>2 DEF Calm, HandlerType
<1>5. QED
  BY <1>3, <1>4 DEF Calm

\* What may go into the store at the end, and why it is never an old input.
LEMMA Uploads ==
  ASSUME ChatInv, FileType, HandlerType, NEW e \in Exec, NEW f \in File, NEW p \in Place,
         pc[e] = "syncing_out", <<f, p>> \in todo[e]
  PROVE  /\ box[e][p][f] \in Exec \X Place \/ (box[e][p][f] = User /\ Returned(f))
         /\ Calm => box[e][p][f] \in Exec \X Place
<1>1. box[e][p][f] \in {User} \cup (Exec \X Place)
  <2>1. box[e][p][f] \in Content
    BY DEF FileType
  <2>2. box[e][p][f] # NoFile
    BY DEF ChatInv, Listed
  <2>3. QED
    BY <2>1, <2>2 DEF Content
<1>2. CASE box[e][p][f] = User
  <2>1. p = "work" /\ f \notin synced[e]
    BY <1>2 DEF ChatInv, Listed
  <2>2. Returned(f)
    BY <1>2, <2>1 DEF Returned
  <2>3. ~Calm
    BY <1>2, <2>1 DEF ChatInv, Copies
  <2>4. QED
    BY <1>2, <2>2, <2>3
<1>3. CASE box[e][p][f] \in Exec \X Place
  BY <1>3
<1>4. QED
  BY <1>1, <1>2, <1>3

\* Steps that move no file.
LEMMA ChatInvStill ==
  ASSUME ChatInv, Calm' => Calm, UNCHANGED <<box, synced, outputs, store>>,
         \A d \in Exec : /\ pc[d] \in {"syncing_out", "done"} => pc'[d] \in {"syncing_out", "done"}
                         /\ pc'[d] = "syncing_out" => pc[d] = "syncing_out" /\ todo'[d] \subseteq todo[d]
  PROVE  ChatInv'
<1>1. Listed'
  BY DEF ChatInv, Listed
<1>2. TmpClean' /\ Copies'
  BY DEF ChatInv, TmpClean, Copies
<1>3. ASSUME NEW f, Returned(f) PROVE Returned(f)'
  <2>1. PICK d \in Exec : /\ pc[d] \in {"syncing_out", "done"}
                          /\ box[d]["work"][f] = User /\ f \notin synced[d]
    BY <1>3 DEF Returned
  <2>2. /\ pc'[d] \in {"syncing_out", "done"}
        /\ box'[d]["work"][f] = User /\ f \notin synced'[d]
    BY <2>1
  <2>3. QED
    BY <2>2 DEF Returned
<1>4. Reported'
  BY <1>3 DEF ChatInv, Reported
<1>5. QED
  BY <1>1, <1>2, <1>4 DEF ChatInv

\* ChatInv is inductive: one step for each kind of action.
LEMMA ChatInvStep ==
  ASSUME ChatInv, RowType, HandlerType, FileType, [Next]_vars
  PROVE  ChatInv'
<1> USE DEF rowVars, fileVars, envVars
<1>a. Calm' => Calm
  BY CalmBefore
<1>1. CASE UNCHANGED vars
  BY <1>1, <1>a, ChatInvStill DEF vars
<1>2. CASE Crash
  <2>1. \A d \in Exec : pc'[d] # "syncing_out" /\ (pc[d] \in {"syncing_out", "done"} => pc'[d] = "done")
    BY <1>2 DEF Crash
  <2>2. QED
    BY <1>2, <1>a, <2>1, ChatInvStill DEF Crash
<1>3. ASSUME NEW e \in Exec, ClientLeaves(e) PROVE ChatInv'
  BY <1>3, <1>a, ChatInvStill DEF ClientLeaves
<1>4. ASSUME NEW e \in Exec,
             \/ CreateExecution(e) \/ Claimed(e) \/ NotClaimed(e) \/ LinkSandbox(e) \/ MarkSyncingIn(e)
             \/ ListInputs(e) \/ SyncedIn(e) \/ MarkExecuting(e) \/ MarkSyncingOut(e)
      PROVE ChatInv'
  <2>1. UNCHANGED <<box, synced, outputs, store>> /\ \A d \in Exec \ {e} : todo'[d] = todo[d]
    BY <1>4 DEF FileType, CreateExecution, Claimed, NotClaimed, LinkSandbox, MarkSyncingIn,
                ListInputs, SyncedIn, MarkExecuting, MarkSyncingOut
  <2>2. pc[e] \notin {"syncing_out", "done"} /\ \E s : s # "syncing_out" /\ pc' = [pc EXCEPT ![e] = s]
    BY <1>4 DEF CreateExecution, Claimed, NotClaimed, LinkSandbox, MarkSyncingIn,
                ListInputs, SyncedIn, MarkExecuting, MarkSyncingOut, Answer, Goto
  <2>3. \A d \in Exec : /\ pc[d] \in {"syncing_out", "done"} => pc'[d] \in {"syncing_out", "done"}
                        /\ pc'[d] = "syncing_out" => pc[d] = "syncing_out" /\ todo'[d] \subseteq todo[d]
    BY <2>1, <2>2 DEF HandlerType
  <2>4. QED
    BY <1>a, <2>1, <2>3, ChatInvStill
<1>5. ASSUME NEW e \in Exec, Finish(e) PROVE ChatInv'
  <2>1. pc' = [pc EXCEPT ![e] = "done"] /\ UNCHANGED <<box, synced, outputs, store, todo>>
    BY <1>5 DEF Finish, Answer, Goto
  <2>2. \A d \in Exec : /\ pc[d] \in {"syncing_out", "done"} => pc'[d] \in {"syncing_out", "done"}
                        /\ pc'[d] = "syncing_out" => pc[d] = "syncing_out" /\ todo'[d] \subseteq todo[d]
    BY <2>1 DEF HandlerType
  <2>3. QED
    BY <1>a, <2>1, <2>2, ChatInvStill
<1>6. ASSUME NEW e \in Exec, RunCode(e) PROVE ChatInv'
  <2>1. PICK written \in SUBSET (File \X Place) :
          box' = [box EXCEPT ![e] = [p \in Place |-> [f \in File |->
                     IF <<f, p>> \in written THEN <<e, p>> ELSE box[e][p][f]]]]
    BY <1>6 DEF RunCode
  <2>2. pc' = [pc EXCEPT ![e] = "ran"] /\ pc[e] = "running" /\ UNCHANGED <<synced, outputs, store, todo>>
    BY <1>6 DEF RunCode, Goto
  <2>3. \A d \in Exec \ {e} : box'[d] = box[d]
    BY <2>1 DEF FileType
  <2>4. \A p \in Place, f \in File : box'[e][p][f] = User => box[e][p][f] = User
    BY <2>1, ContentAssumption DEF FileType, Place
  <2>5. Listed'
    BY <2>2, <2>3 DEF ChatInv, Listed, HandlerType
  <2>6. TmpClean'
    BY <2>3, <2>4 DEF ChatInv, TmpClean, Place
  <2>7. Copies'
    BY <1>a, <2>2, <2>3, <2>4 DEF ChatInv, Copies, Place
  <2>8. \A f : Returned(f) => Returned(f)'
    BY <2>2, <2>3 DEF Returned, HandlerType
  <2>9. Reported'
    BY <2>2, <2>8 DEF ChatInv, Reported
  <2>10. QED
    BY <2>5, <2>6, <2>7, <2>9 DEF ChatInv
<1>7. ASSUME NEW e \in Exec, ListOutputs(e) PROVE ChatInv'
  <2>1. PICK new \in SUBSET NewFiles(e) : todo' = [todo EXCEPT ![e] = new]
    BY <1>7 DEF ListOutputs
  <2>2. pc' = [pc EXCEPT ![e] = "syncing_out"] /\ UNCHANGED <<box, synced, outputs, store>>
    BY <1>7 DEF ListOutputs, Goto
  <2>3. \A t \in NewFiles(e) : /\ box[e][t[2]][t[1]] # NoFile
                               /\ box[e][t[2]][t[1]] = User => t[2] = "work" /\ t[1] \notin synced[e]
    BY FilesAssumption DEF NewFiles, InBox, ChatInv, TmpClean
  <2>4. Listed'
    <3>1. todo'[e] \subseteq NewFiles(e)
      BY <2>1 DEF FileType
    <3>2. \A d \in Exec \ {e} : todo'[d] = todo[d] /\ pc'[d] = pc[d]
      BY <2>1, <2>2 DEF FileType, HandlerType
    <3>3. QED
      BY <2>2, <2>3, <3>1, <3>2 DEF ChatInv, Listed
  <2>5. TmpClean' /\ Copies'
    BY <1>a, <2>2 DEF ChatInv, TmpClean, Copies
  <2>6. \A f : Returned(f) => Returned(f)'
    BY <2>2 DEF Returned, HandlerType
  <2>7. Reported'
    BY <2>2, <2>6 DEF ChatInv, Reported
  <2>8. QED
    BY <2>4, <2>5, <2>7 DEF ChatInv
<1>8. ASSUME NEW e \in Exec, NEW f \in File, SyncFileToSandbox(e, f) PROVE ChatInv'
  <2>1. pc[e] = "syncing_in" /\ UNCHANGED <<pc, gone, outputs, store>>
    BY <1>8 DEF SyncFileToSandbox
  <2>2. \A d \in Exec \ {e} : todo'[d] = todo[d] /\ synced'[d] = synced[d] /\ box'[d] = box[d]
    BY <1>8 DEF SyncFileToSandbox, Ended, PutInBox, FileType
  <2>3. Listed'
    BY <2>1, <2>2 DEF ChatInv, Listed
  <2>4. box'[e]["tmp"] = box[e]["tmp"]
    BY <1>8 DEF SyncFileToSandbox, PutInBox, FileType, Place
  <2>5. TmpClean'
    BY <2>2, <2>4 DEF ChatInv, TmpClean
  <2>6. Copies'
    <3>1. SUFFICES ASSUME Calm' PROVE \A g \in File : box'[e]["work"][g] = User => g \in synced'[e]
      BY <1>a, <2>2 DEF ChatInv, Copies
    <3>2. PutInBox(e, f) /\ synced' = [synced EXCEPT ![e] = @ \cup {f}]
      BY <1>8, <3>1, <1>a, <2>1 DEF SyncFileToSandbox, Fails, Calm, RowType
    <3>3. synced'[e] = synced[e] \cup {f}
      BY <3>2 DEF FileType
    <3>4. \A g \in File \ {f} : box'[e]["work"][g] = box[e]["work"][g]
      BY <3>2 DEF PutInBox, FileType, Place
    <3>5. QED
      BY <1>a, <3>1, <3>3, <3>4 DEF ChatInv, Copies
  <2>7. \A g : Returned(g) => Returned(g)'
    BY <2>1, <2>2 DEF Returned
  <2>8. Reported'
    BY <2>1, <2>7 DEF ChatInv, Reported
  <2>9. QED
    BY <2>3, <2>5, <2>6, <2>8 DEF ChatInv
<1>9. ASSUME NEW e \in Exec, NEW f \in File, NEW p \in Place, SyncFileFromSandbox(e, f, p) PROVE ChatInv'
  <2>1. pc[e] = "syncing_out" /\ <<f, p>> \in todo[e] /\ UNCHANGED <<pc, box, synced>>
    BY <1>9 DEF SyncFileFromSandbox, Ended
  <2>2. \A d \in Exec : todo'[d] \subseteq todo[d]
    BY <1>9 DEF SyncFileFromSandbox, Ended, FileType
  <2>3. Listed' /\ TmpClean' /\ Copies'
    BY <1>a, <2>1, <2>2 DEF ChatInv, Listed, TmpClean, Copies
  <2>4. \A g : Returned(g) => Returned(g)'
    BY <2>1 DEF Returned
  <2>5. \/ store' = store /\ UNCHANGED outputs
        \/ store' = [store EXCEPT ![f] = box[e][p][f]]
    BY <1>9 DEF SyncFileFromSandbox, PutInStore, Upload
  <2>6. CASE store' = store /\ UNCHANGED outputs
    BY <2>3, <2>4, <2>6 DEF ChatInv, Reported
  <2>7. CASE store' = [store EXCEPT ![f] = box[e][p][f]]
    <3>1. store'[f] \in Exec \X Place \/ Returned(f)'
      BY <2>1, <2>4, <2>7, Uploads DEF FileType
    <3>2. \A g \in File \ {f} : store'[g] = store[g]
      BY <2>7 DEF FileType
    <3>3. \A d \in Exec : outputs'[d] \subseteq outputs[d] \cup {<<f, p>>}
      BY <1>9 DEF SyncFileFromSandbox, Report, FileType
    <3>4. \A d \in Exec : \A t \in outputs[d] : t[1] \in File
      BY FilesAssumption DEF FileType
    <3>5. Reported'
      BY <2>4, <3>1, <3>2, <3>3, <3>4 DEF ChatInv, Reported
    <3>6. QED
      BY <2>3, <3>5 DEF ChatInv
  <2>8. QED
    BY <2>5, <2>6, <2>7
<1>10. QED
  BY <1>1, <1>2, <1>3, <1>4, <1>5, <1>6, <1>7, <1>8, <1>9 DEF Next, Handler

\* The invariant of the chat, with the three parts of the types it needs.
THEOREM ChatInvariant == Spec => [](RowType /\ HandlerType /\ FileType /\ ChatInv)
<1>1. Init => ChatInv
  BY ContentAssumption DEF Init, ChatInv, Listed, TmpClean, Copies, Reported, Place
<1>2. /\ RowType /\ HandlerType /\ FileType /\ ChatInv /\ [Next]_vars
      => (RowType /\ HandlerType /\ FileType /\ ChatInv)'
  BY RowStep, HandlerStep, FileStep, ChatInvStep
<1>3. QED
  BY <1>1, <1>2, InitType, PTL DEF Spec

\* A reported file is in the chat as code left it, but for an input that came
\* back because its transfer into a sandbox had failed and yet was obeyed.
THEOREM ReportedIsStoredHolds == Spec => []ReportedIsStored
<1>1. ChatInv => ReportedIsStored
  BY DEF ChatInv, Reported, Returned, ReportedIsStored
<1>2. QED
  BY <1>1, ChatInvariant, PTL

\* As long as nothing fails, no execution puts an old input over the object
\* another one has written in the meantime: syncedFiles are never uploaded.
THEOREM NeverRevertsHolds == Spec => NeverReverts
<1> DEFINE Keeps == Calm' => \A f \in File : store[f] \in Exec \X Place => store'[f] \in Exec \X Place
<1>1. ASSUME RowType /\ HandlerType /\ FileType /\ ChatInv, [Next]_vars PROVE [Keeps]_vars
  <2>1. SUFFICES ASSUME Calm', NEW f \in File, store[f] \in Exec \X Place, store'[f] # store[f]
                 PROVE  store'[f] \in Exec \X Place
    OBVIOUS
  <2>2. Calm
    BY <1>1, <2>1, CalmBefore
  <2>3. PICK e \in Exec, g \in File, p \in Place : SyncFileFromSandbox(e, g, p)
    BY <1>1, <2>1
    DEF Next, vars, Crash, ClientLeaves, Handler, CreateExecution, Claimed, NotClaimed, LinkSandbox,
        MarkSyncingIn, ListInputs, SyncedIn, MarkExecuting, RunCode, MarkSyncingOut, ListOutputs,
        Finish, SyncFileToSandbox
  <2>4. pc[e] = "syncing_out" /\ <<g, p>> \in todo[e]
    BY <2>3 DEF SyncFileFromSandbox, Ended
  <2>5. box[e][p][g] \in Exec \X Place
    BY <1>1, <2>2, <2>4, Uploads
  <2>6. store' = [store EXCEPT ![g] = box[e][p][g]]
    BY <2>1, <2>3 DEF SyncFileFromSandbox, PutInStore, Upload
  <2>7. QED
    BY <1>1, <2>1, <2>5, <2>6 DEF FileType
<1>2. QED
  BY <1>1, ChatInvariant, PTL DEF Spec, NeverReverts

-----------------------------------------------------------------------------
(* The files of an execution whose calls all succeed.                      *)

Wanted(e) == requested[e] \cap UserFile

\* Up to the run: what is not there yet is still being transferred.
InputsKept(e) ==
    /\ pc[e] = "syncing_in" =>
         \A f \in Wanted(e) : <<f, "work">> \in todo[e] \/ box[e]["work"][f] # NoFile
    /\ pc[e] \in {"inputs_done", "running"} => \A f \in Wanted(e) : box[e]["work"][f] # NoFile

Added(e, f, p) == box[e][p][f] = <<e, p>> /\ (p = "work" => f \notin synced[e])

\* After the run: what the code added is still to be transferred, or reported.
OutputsKept(e) ==
    /\ pc[e] \in {"creating", "claiming"} => \A f \in File, p \in Place : box[e][p][f] = NoFile
    /\ pc[e] = "syncing_out" =>
         \A f \in OutputFile, p \in Place : Added(e, f, p) => <<f, p>> \in todo[e] \cup outputs[e]
    /\ pc[e] = "done" =>
         \A f \in OutputFile, p \in Place : Added(e, f, p) => <<f, p>> \in outputs[e]

Present == \A f \in UserFile : store[f] # NoFile

Transferred == \A e \in Exec : Untroubled(e) => InputsKept(e) /\ OutputsKept(e)

\* Trouble does not go away.
LEMMA UntroubledBefore ==
  ASSUME RowType, HandlerType, [Next]_vars, NEW e \in Exec, Untroubled(e)'
  PROVE  Untroubled(e) /\ UNCHANGED <<faults, crashes>>
<1>1. faults' = faults \/ faults' = faults + 1
  BY FaultsCounted
<1>2. gone' = gone \/ \E d \in Exec : gone' = [gone EXCEPT ![d] = TRUE]
  BY OnlyClientsLeave
<1>3. crashes' = crashes \/ crashes' = crashes + 1
  <2> USE DEF envVars
  <2>1. ASSUME NEW d \in Exec, Handler(d) PROVE UNCHANGED crashes
    BY <2>1 DEF Handler, CreateExecution, Claimed, NotClaimed, LinkSandbox, MarkSyncingIn, ListInputs,
                SyncedIn, MarkExecuting, RunCode, MarkSyncingOut, ListOutputs, Finish,
                SyncFileToSandbox, SyncFileFromSandbox
  <2>2. QED
    BY <2>1 DEF Next, ClientLeaves, Crash, vars
<1>4. faults = 0 /\ crashes = 0
  BY <1>1, <1>3 DEF Untroubled, RowType, HandlerType
<1>5. ~gone[e]
  BY <1>2 DEF Untroubled, HandlerType
<1>6. QED
  BY <1>4, <1>5 DEF Untroubled

\* No object of the user disappears: an upload replaces one by another.
LEMMA PresentStep ==
  ASSUME ChatInv, HandlerType, FileType, Present, [Next]_vars
  PROVE  Present'
<1>1. ASSUME NEW e \in Exec, NEW f \in File, NEW p \in Place, SyncFileFromSandbox(e, f, p)
      PROVE  Present'
  <2>1. box[e][p][f] # NoFile
    BY <1>1 DEF SyncFileFromSandbox, Ended, ChatInv, Listed
  <2>2. store' = store \/ store' = [store EXCEPT ![f] = box[e][p][f]]
    BY <1>1 DEF SyncFileFromSandbox, PutInStore, Upload
  <2>3. QED
    BY <2>1, <2>2, FilesAssumption DEF Present, FileType
<1>2. CASE UNCHANGED store
  BY <1>2 DEF Present
<1>3. QED
  BY <1>1, <1>2
  DEF Next, vars, Crash, ClientLeaves, Handler, CreateExecution, Claimed, NotClaimed, LinkSandbox,
      MarkSyncingIn, ListInputs, SyncedIn, MarkExecuting, RunCode, MarkSyncingOut, ListOutputs,
      Finish, SyncFileToSandbox

Own(e) == <<pc[e], requested[e], todo[e], synced[e], box[e], outputs[e]>>

\* What the two invariants say of e depends on e's own variables.
LEMMA OwnUnchanged ==
  ASSUME NEW e \in Exec, UNCHANGED Own(e), InputsKept(e), OutputsKept(e)
  PROVE  InputsKept(e)' /\ OutputsKept(e)'
BY DEF Own, InputsKept, OutputsKept, Wanted, Added

\* No other handler touches them.
LEMMA OthersKeep ==
  ASSUME HandlerType, FileType, NEW e \in Exec, NEW d \in Exec \ {e}, Handler(d) \/ ClientLeaves(d)
  PROVE  UNCHANGED Own(e)
<1> USE DEF rowVars, fileVars, envVars
<1>1. pc'[e] = pc[e] /\ requested'[e] = requested[e]
  <2>1. UNCHANGED requested
    BY DEF Handler, ClientLeaves, CreateExecution, Claimed, NotClaimed, LinkSandbox, MarkSyncingIn,
           ListInputs, SyncedIn, MarkExecuting, RunCode, MarkSyncingOut, ListOutputs, Finish,
           SyncFileToSandbox, SyncFileFromSandbox
  <2>2. CASE \/ CreateExecution(d) \/ Claimed(d) \/ NotClaimed(d) \/ LinkSandbox(d) \/ MarkSyncingIn(d)
             \/ ListInputs(d) \/ SyncedIn(d) \/ MarkExecuting(d) \/ RunCode(d) \/ MarkSyncingOut(d)
             \/ ListOutputs(d) \/ Finish(d)
    <3>1. \E q : pc' = [pc EXCEPT ![d] = q]
      BY <2>2 DEF CreateExecution, Claimed, NotClaimed, LinkSandbox, MarkSyncingIn, ListInputs,
                  SyncedIn, MarkExecuting, RunCode, MarkSyncingOut, ListOutputs, Finish, Answer, Goto
    <3>2. QED
      BY <2>1, <3>1 DEF HandlerType
  <2>3. CASE \/ ClientLeaves(d) \/ \E f \in File : SyncFileToSandbox(d, f)
             \/ \E f \in File, p \in Place : SyncFileFromSandbox(d, f, p)
    BY <2>1, <2>3 DEF ClientLeaves, SyncFileToSandbox, SyncFileFromSandbox
  <2>4. QED
    BY <2>2, <2>3 DEF Handler
<1>2. todo'[e] = todo[e]
  BY DEF FileType, Handler, ClientLeaves, CreateExecution, Claimed, NotClaimed, LinkSandbox,
         MarkSyncingIn, ListInputs, SyncedIn, MarkExecuting, RunCode, MarkSyncingOut, ListOutputs,
         Finish, SyncFileToSandbox, SyncFileFromSandbox, Ended
<1>3. synced'[e] = synced[e] /\ outputs'[e] = outputs[e]
  BY DEF FileType, Handler, ClientLeaves, CreateExecution, Claimed, NotClaimed, LinkSandbox,
         MarkSyncingIn, ListInputs, SyncedIn, MarkExecuting, RunCode, MarkSyncingOut, ListOutputs,
         Finish, SyncFileToSandbox, SyncFileFromSandbox, Report
<1>4. box'[e] = box[e]
  BY DEF FileType, Handler, ClientLeaves, CreateExecution, Claimed, NotClaimed, LinkSandbox,
         MarkSyncingIn, ListInputs, SyncedIn, MarkExecuting, RunCode, MarkSyncingOut, ListOutputs,
         Finish, SyncFileToSandbox, SyncFileFromSandbox, PutInBox
<1>5. QED
  BY <1>1, <1>2, <1>3, <1>4 DEF Own

\* One step of the handler itself, none of whose calls fails.
LEMMA InputsStep ==
  ASSUME HandlerType, FileType, RowType, Present, NEW e \in Exec, Handler(e),
         Untroubled(e), faults' = faults, InputsKept(e)
  PROVE  InputsKept(e)'
<1> USE DEF rowVars, fileVars, envVars
<1>a. ~Fails(e)
  BY DEF Fails, Untroubled, RowType
<1>1. CASE ListInputs(e)
  <2>1. pc'[e] = "syncing_in" /\ UNCHANGED <<requested, box>>
    BY <1>1 DEF ListInputs, Goto, HandlerType
  <2>2. todo'[e] = {<<f, "work">> : f \in requested[e] \cap Objects}
    BY <1>1, <1>a DEF ListInputs, FileType
  <2>3. Wanted(e) \subseteq requested[e] \cap Objects
    BY FilesAssumption DEF Wanted, Objects, Present
  <2>4. QED
    BY <2>1, <2>2, <2>3 DEF InputsKept, Wanted
<1>2. ASSUME NEW f \in File, SyncFileToSandbox(e, f) PROVE InputsKept(e)'
  <2>1. pc[e] = "syncing_in" /\ UNCHANGED <<pc, requested>>
    BY <1>2 DEF SyncFileToSandbox
  <2>2. todo'[e] = todo[e] \ {<<f, "work">>}
    BY <1>2 DEF SyncFileToSandbox, Ended, FileType
  <2>3. box'[e]["work"] = [box[e]["work"] EXCEPT ![f] = store[f]]
    BY <1>2, <1>a DEF SyncFileToSandbox, PutInBox, FileType, Place
  <2>4. ASSUME NEW g \in Wanted(e)
        PROVE  <<g, "work">> \in todo'[e] \/ box'[e]["work"][g] # NoFile
    <3>1. g \in File /\ store[g] # NoFile
      BY FilesAssumption DEF Wanted, Present
    <3>2. CASE g = f
      BY <2>3, <3>1, <3>2 DEF FileType, Place
    <3>3. CASE g # f
      BY <2>1, <2>2, <2>3, <3>1, <3>3 DEF InputsKept, FileType, Place
    <3>4. QED
      BY <3>2, <3>3
  <2>5. QED
    BY <2>1, <2>4 DEF InputsKept, Wanted
<1>3. CASE SyncedIn(e)
  BY <1>3 DEF SyncedIn, Goto, HandlerType, InputsKept, Wanted
<1>4. CASE MarkExecuting(e)
  BY <1>4 DEF MarkExecuting, Goto, HandlerType, InputsKept, Wanted
<1>5. CASE \/ CreateExecution(e) \/ Claimed(e) \/ NotClaimed(e) \/ LinkSandbox(e) \/ MarkSyncingIn(e)
           \/ RunCode(e) \/ MarkSyncingOut(e) \/ ListOutputs(e) \/ Finish(e)
  <2>1. pc'[e] \notin {"syncing_in", "inputs_done", "running"}
    BY <1>5 DEF CreateExecution, Claimed, NotClaimed, LinkSandbox, MarkSyncingIn, RunCode,
                MarkSyncingOut, ListOutputs, Finish, Answer, Goto, HandlerType
  <2>2. QED
    BY <2>1 DEF InputsKept
<1>6. ASSUME NEW f \in File, NEW p \in Place, SyncFileFromSandbox(e, f, p) PROVE InputsKept(e)'
  BY <1>6 DEF SyncFileFromSandbox, InputsKept
<1>7. QED
  BY <1>1, <1>2, <1>3, <1>4, <1>5, <1>6 DEF Handler

\* The same for the outputs.
LEMMA OutputsStep ==
  ASSUME HandlerType, FileType, RowType, NEW e \in Exec, Handler(e),
         Untroubled(e), faults' = faults, OutputsKept(e)
  PROVE  OutputsKept(e)'
<1> USE DEF rowVars, fileVars, envVars
<1>a. ~Fails(e)
  BY DEF Fails, Untroubled, RowType
<1>1. CASE CreateExecution(e)
  BY <1>1, <1>a DEF CreateExecution, Goto, HandlerType, OutputsKept
<1>2. CASE NotClaimed(e)
  <2>1. pc[e] = "claiming" /\ pc'[e] = "done" /\ UNCHANGED <<box, outputs>>
    BY <1>2 DEF NotClaimed, Answer, Goto, HandlerType
  <2>2. \A f \in OutputFile, p \in Place : box'[e][p][f] = NoFile
    BY <2>1, FilesAssumption DEF OutputsKept
  <2>3. \A p \in Place : NoFile # <<e, p>>
    BY ContentAssumption DEF Place
  <2>4. QED
    BY <2>1, <2>2, <2>3 DEF OutputsKept, Added
<1>3. CASE ListOutputs(e)
  <2>1. pc'[e] = "syncing_out" /\ todo'[e] = NewFiles(e) /\ UNCHANGED <<box, synced, outputs>>
    BY <1>3, <1>a DEF ListOutputs, Goto, HandlerType, FileType
  <2>2. ASSUME NEW f \in OutputFile, NEW p \in Place, Added(e, f, p)
        PROVE  <<f, p>> \in NewFiles(e)
    <3>1. box[e][p][f] # NoFile
      BY <2>2, ContentAssumption DEF Added, Place
    <3>2. QED
      BY <2>2, <3>1 DEF Added, NewFiles, InBox, Place
  <2>3. QED
    BY <2>1, <2>2 DEF OutputsKept, Added
<1>4. ASSUME NEW f \in File, NEW p \in Place, SyncFileFromSandbox(e, f, p) PROVE OutputsKept(e)'
  <2>1. pc[e] = "syncing_out" /\ UNCHANGED <<pc, box, synced>>
    BY <1>4 DEF SyncFileFromSandbox
  <2>2. todo'[e] = todo[e] \ {<<f, p>>} /\ outputs'[e] = outputs[e] \cup {<<f, p>>}
    BY <1>4, <1>a DEF SyncFileFromSandbox, Ended, Report, FileType
  <2>3. QED
    BY <2>1, <2>2 DEF OutputsKept, Added
<1>5. CASE Finish(e)
  BY <1>5 DEF Finish, Answer, Goto, HandlerType, OutputsKept, Added
<1>6. CASE \/ Claimed(e) \/ LinkSandbox(e) \/ MarkSyncingIn(e) \/ ListInputs(e) \/ SyncedIn(e)
           \/ MarkExecuting(e) \/ RunCode(e) \/ MarkSyncingOut(e)
  <2>1. pc'[e] \notin {"creating", "claiming", "syncing_out", "done"}
    BY <1>6, <1>a DEF Claimed, LinkSandbox, MarkSyncingIn, ListInputs, SyncedIn, MarkExecuting,
                      RunCode, MarkSyncingOut, Goto, HandlerType
  <2>2. QED
    BY <2>1 DEF OutputsKept
<1>7. ASSUME NEW f \in File, SyncFileToSandbox(e, f) PROVE OutputsKept(e)'
  BY <1>7 DEF SyncFileToSandbox, OutputsKept
<1>8. QED
  BY <1>1, <1>2, <1>3, <1>4, <1>5, <1>6, <1>7 DEF Handler

\* Every step keeps what both invariants say of every execution.
LEMMA TransferredStep ==
  ASSUME RowType, HandlerType, FileType, Present, Transferred, [Next]_vars
  PROVE  Transferred'
<1> SUFFICES ASSUME NEW e \in Exec, Untroubled(e)'
             PROVE  InputsKept(e)' /\ OutputsKept(e)'
  BY DEF Transferred
<1>1. Untroubled(e) /\ UNCHANGED <<faults, crashes>>
  BY UntroubledBefore
<1>2. InputsKept(e) /\ OutputsKept(e)
  BY <1>1 DEF Transferred
<1>3. CASE UNCHANGED vars
  BY <1>2, <1>3, OwnUnchanged DEF vars, fileVars, Own
<1>4. CASE Handler(e)
  BY <1>1, <1>2, <1>4, InputsStep, OutputsStep
<1>5. CASE ClientLeaves(e)
  BY <1>1, <1>5 DEF ClientLeaves, Untroubled, HandlerType
<1>6. ASSUME NEW d \in Exec \ {e}, Handler(d) \/ ClientLeaves(d)
      PROVE  InputsKept(e)' /\ OutputsKept(e)'
  BY <1>2, <1>6, OthersKeep, OwnUnchanged
<1>7. ~Crash
  BY <1>1 DEF Crash, HandlerType
<1>8. QED
  BY <1>3, <1>4, <1>5, <1>6, <1>7 DEF Next

\* The invariant of an untroubled execution's files.
THEOREM TransferInvariant == Spec => []Transferred
<1>1. Init => Present /\ Transferred
  BY FilesAssumption, ContentAssumption
  DEF Init, Present, Transferred, InputsKept, OutputsKept
<1>2. /\ RowType /\ HandlerType /\ FileType /\ ChatInv /\ Present /\ Transferred /\ [Next]_vars
      => (Present /\ Transferred)'
  BY PresentStep, TransferredStep
<1>3. QED
  BY <1>1, <1>2, ChatInvariant, PTL DEF Spec

\* The code of an execution none of whose calls failed finds every requested
\* object of the user in its workspace.
THEOREM InputsArriveHolds == Spec => []InputsArrive
<1>1. Transferred => InputsArrive
  BY DEF Transferred, InputsKept, InputsArrive, Wanted
<1>2. QED
  BY <1>1, TransferInvariant, PTL

\* Every file such an execution added is in its answer.
THEOREM NewFilesSyncedHolds == Spec => []NewFilesSynced
<1>1. Transferred => NewFilesSynced
  BY DEF Transferred, OutputsKept, NewFilesSynced, Added
<1>2. QED
  BY <1>1, TransferInvariant, PTL

-----------------------------------------------------------------------------
(* Execution implements ExecutionLife.                                     *)

Open == {"pending", "syncing_in", "executing", "syncing_out"}

Working == PC \ {"creating", "claiming", "done"}

\* The row is there, and promises more, for as long as the handler is at it.
LifeInv ==
    \A e \in Exec :
        /\ pc[e] = "creating" => status[e] = "none"
        /\ pc[e] \notin {"creating", "done"} => status[e] \in Open

\* What one step of a handler may do to its place, its row and its history.
Begins(e) ==
    /\ pc[e] = "creating" /\ pc'[e] = "claiming"
    /\ status'[e] = "pending" /\ unsaved'[e] = unsaved[e]
Refused(e) ==
    /\ pc[e] = "creating" /\ pc'[e] = "done"
    /\ status'[e] \in {status[e], "pending"} /\ unsaved'[e]
Works(e) ==
    /\ pc[e] = "claiming" /\ pc'[e] \in Working
    /\ status'[e] = status[e] /\ unsaved'[e] = unsaved[e]
GoesOn(e) ==
    /\ pc[e] \in Working /\ pc'[e] \in Working
    /\ status'[e] \in Open \cup {status[e]} /\ unsaved'[e] = unsaved[e]
Ends(e) ==
    /\ pc[e] \in Working \cup {"claiming"} /\ pc'[e] = "done"
    /\ \/ status'[e] \in Terminal /\ unsaved'[e] = unsaved[e]
       \/ status'[e] \in Terminal \cup {status[e]} /\ unsaved'[e]

\* No other row, place or history changes with it.
LEMMA OwnLife ==
  ASSUME RowType, HandlerType, FileType, NEW d \in Exec, Handler(d), NEW e \in Exec \ {d}
  PROVE  /\ pc'[e] = pc[e] /\ status'[e] = status[e] /\ unsaved'[e] = unsaved[e]
         /\ exitCode'[e] = exitCode[e]
<1> USE DEF rowVars, fileVars, envVars
<1>1. pc'[e] = pc[e]
  BY OthersKeep DEF Own
<1>2. CASE NotClaimed(d) \/ Finish(d)
  <2>1. \E st, x : CompleteExecution(d, st, x)
    BY <1>2 DEF NotClaimed, Finish
  <2>2. QED
    BY <1>1, <2>1, CompletesRow
<1>3. CASE MarkSyncingIn(d) \/ MarkExecuting(d) \/ MarkSyncingOut(d)
  <2>1. UNCHANGED unsaved /\ \E st, x : Write(d, st, x) \/ WriteLost(d, st, x)
    BY <1>3 DEF MarkSyncingIn, MarkExecuting, MarkSyncingOut, UpdateExecutionStatus
  <2>2. QED
    BY <1>1, <2>1, OneRow
<1>4. CASE CreateExecution(d)
  <2>1. \E st, x : Write(d, st, x) \/ WriteLost(d, st, x)
    BY <1>4 DEF CreateExecution
  <2>2. unsaved'[e] = unsaved[e]
    BY <1>4 DEF CreateExecution, RowType
  <2>3. QED
    BY <1>1, <2>1, <2>2, OneRow
<1>5. CASE \/ Claimed(d) \/ LinkSandbox(d) \/ ListInputs(d) \/ SyncedIn(d) \/ RunCode(d)
           \/ ListOutputs(d) \/ \E f \in File : SyncFileToSandbox(d, f)
                                  \/ \E p \in Place : SyncFileFromSandbox(d, f, p)
  BY <1>1, <1>5 DEF Claimed, LinkSandbox, ListInputs, SyncedIn, RunCode, ListOutputs,
     SyncFileToSandbox, SyncFileFromSandbox, RowType
<1>6. QED
  BY <1>2, <1>3, <1>4, <1>5 DEF Handler

\* Every step of a handler is one of these, or leaves the three alone.
LEMMA LifeCases ==
  ASSUME RowType, HandlerType, FileType, NEW e \in Exec, Handler(e)
  PROVE  \/ Begins(e) \/ Refused(e) \/ Works(e) \/ GoesOn(e) \/ Ends(e)
         \/ UNCHANGED <<pc[e], status[e], unsaved[e]>>
<1> USE DEF rowVars, fileVars, envVars
<1>1. CASE CreateExecution(e)
  <2>1. status'[e] \in {status[e], "pending"}
    BY <1>1 DEF CreateExecution, Write, WriteLost, RowType
  <2>2. CASE Write(e, "pending", NoExit) /\ Goto(e, "claiming") /\ UNCHANGED unsaved
    <3>1. pc'[e] = "claiming" /\ status'[e] = "pending"
      BY <2>2, OneRow DEF Goto, HandlerType
    <3>2. QED
      BY <1>1, <2>2, <3>1 DEF CreateExecution, Begins
  <2>3. CASE Answer(e, Reply(500, "none", NoExit)) /\ unsaved' = [unsaved EXCEPT ![e] = TRUE]
    <3>1. pc'[e] = "done" /\ unsaved'[e]
      BY <2>3 DEF Answer, Goto, HandlerType, RowType
    <3>2. QED
      BY <1>1, <2>1, <3>1 DEF CreateExecution, Refused
  <2>4. QED
    BY <1>1, <2>2, <2>3 DEF CreateExecution
<1>2. CASE NotClaimed(e) \/ Finish(e)
  <2>0. PICK st \in Terminal : \E x : CompleteExecution(e, st, x)
    BY <1>2, ResultTypes DEF NotClaimed, Finish, Terminal
  <2>1. PICK x : CompleteExecution(e, st, x)
    BY <2>0
  <2>2. pc[e] \in Working \cup {"claiming"} /\ pc'[e] = "done"
    BY <1>2 DEF NotClaimed, Finish, Answer, Goto, HandlerType, Working, PC
  <2>3. \/ status'[e] \in Terminal /\ unsaved'[e] = unsaved[e]
        \/ status'[e] \in Terminal \cup {status[e]} /\ unsaved'[e]
    <3>1. CASE Write(e, st, x) /\ UNCHANGED unsaved
      BY <2>1, <3>1, OneRow
    <3>2. CASE WriteLost(e, st, x) /\ unsaved' = [unsaved EXCEPT ![e] = TRUE]
      <4>1. status'[e] \in Terminal \cup {status[e]}
        BY <2>1, <3>2 DEF WriteLost, Write, RowType
      <4>2. QED
        BY <3>2, <4>1 DEF RowType
    <3>3. QED
      BY <2>1, <3>1, <3>2 DEF CompleteExecution
  <2>4. QED
    BY <2>2, <2>3 DEF Ends
<1>3. CASE LinkSandbox(e)
  <2>1. pc[e] = "linking" /\ status' = status
    BY <1>3 DEF LinkSandbox
  <2>2. \/ pc'[e] = "linked" /\ unsaved' = unsaved
        \/ pc'[e] = "done" /\ unsaved'[e]
    BY <1>3 DEF LinkSandbox, Answer, Goto, HandlerType, RowType
  <2>3. QED
    BY <2>1, <2>2 DEF GoesOn, Ends, Working, PC
<1>4. CASE Claimed(e)
  BY <1>4 DEF Claimed, Goto, HandlerType, Works, Working, PC
<1>5. CASE MarkSyncingIn(e) \/ MarkExecuting(e) \/ MarkSyncingOut(e)
  <2>1. pc[e] \in Working /\ pc'[e] \in Working /\ unsaved' = unsaved
    BY <1>5 DEF MarkSyncingIn, MarkExecuting, MarkSyncingOut, Goto, HandlerType, Working, PC
  <2>2. \E st \in Open : \E x : Write(e, st, x) \/ WriteLost(e, st, x)
    BY <1>5 DEF MarkSyncingIn, MarkExecuting, MarkSyncingOut, UpdateExecutionStatus, Open
  <2>3. status'[e] \in Open \cup {status[e]}
    BY <2>2 DEF Write, WriteLost, RowType
  <2>4. QED
    BY <2>1, <2>3 DEF GoesOn
<1>6. CASE ListInputs(e) \/ SyncedIn(e) \/ RunCode(e) \/ ListOutputs(e)
  BY <1>6 DEF ListInputs, SyncedIn, RunCode, ListOutputs, Goto, HandlerType, GoesOn, Working, PC
<1>7. CASE \E f \in File : SyncFileToSandbox(e, f) \/ \E p \in Place : SyncFileFromSandbox(e, f, p)
  BY <1>7 DEF SyncFileToSandbox, SyncFileFromSandbox
<1>8. QED
  BY <1>1, <1>2, <1>3, <1>4, <1>5, <1>6, <1>7 DEF Handler

\* LifeInv is inductive, given the types.
LEMMA LifeInvStep ==
  ASSUME RowType, HandlerType, FileType, LifeInv, [Next]_vars
  PROVE  LifeInv'
<1>1. CASE UNCHANGED vars \/ Crash \/ \E e \in Exec : ClientLeaves(e)
  BY <1>1 DEF vars, rowVars, Crash, ClientLeaves, LifeInv
<1>2. ASSUME NEW d \in Exec, Handler(d), NEW e \in Exec
      PROVE  /\ pc'[e] = "creating" => status'[e] = "none"
             /\ pc'[e] \notin {"creating", "done"} => status'[e] \in Open
  <2>1. CASE e = d
    <3>1. /\ pc[e] = "creating" => status[e] = "none"
          /\ pc[e] \notin {"creating", "done"} => status[e] \in Open
      BY DEF LifeInv
    <3>2. QED
      BY <1>2, <2>1, <3>1, LifeCases DEF Begins, Refused, Works, GoesOn, Ends, Working, Open
  <2>2. CASE e # d
    BY <1>2, <2>2, OwnLife DEF LifeInv
  <2>3. QED
    BY <2>1, <2>2
<1>3. QED
  BY <1>1, <1>2 DEF Next, LifeInv

\* What a step does to the life of one execution it does to that one only.
LEMMA LifeOne ==
  ASSUME RowType, HandlerType, FileType, RowType', NEW d \in Exec, Handler(d)
  PROVE  /\ rowOf' = [rowOf EXCEPT ![d] = rowOf'[d]]
         /\ lifeOf' = [lifeOf EXCEPT ![d] = lifeOf'[d]]
         /\ unsaved' = [unsaved EXCEPT ![d] = unsaved'[d]]
<1>1. \A e \in Exec \ {d} : pc'[e] = pc[e] /\ status'[e] = status[e] /\ unsaved'[e] = unsaved[e]
  BY OwnLife
<1>2. rowOf' = [rowOf EXCEPT ![d] = rowOf'[d]]
  BY <1>1 DEF rowOf
<1>3. lifeOf' = [lifeOf EXCEPT ![d] = lifeOf'[d]]
  BY <1>1 DEF lifeOf
<1>4. QED
  BY <1>1, <1>2, <1>3 DEF RowType

\* A handler's step begins, carries on or ends the life of its execution.
LEMMA LifeHandler ==
  ASSUME RowType, HandlerType, FileType, RowType', LifeInv, NEW e \in Exec, Handler(e)
  PROVE  [Lives!LifeNext]_(Lives!lifeVars)
<1> USE DEF Lives!Reaches, Lives!Shows, Lives!FallsShort
<1>1. /\ rowOf' = [rowOf EXCEPT ![e] = rowOf'[e]]
      /\ lifeOf' = [lifeOf EXCEPT ![e] = lifeOf'[e]]
      /\ unsaved' = [unsaved EXCEPT ![e] = unsaved'[e]]
  BY LifeOne
<1>2. /\ unsaved'[e] \in BOOLEAN /\ unsaved[e] \in BOOLEAN /\ unsaved \in [Exec -> BOOLEAN]
      /\ rowOf = [d \in Exec |-> rowOf[d]] /\ lifeOf = [d \in Exec |-> lifeOf[d]]
  BY DEF RowType, rowOf, lifeOf
<1>3. /\ pc[e] = "creating" => status[e] = "none"
      /\ pc[e] \notin {"creating", "done"} => status[e] \in Open
  BY DEF LifeInv
<1>4. CASE Begins(e)
  <2>1. lifeOf[e] = "new" /\ lifeOf'[e] = "started" /\ rowOf'[e] = "open"
    BY <1>4 DEF Begins, lifeOf, rowOf, Terminal
  <2>2. unsaved' = unsaved
    BY <1>1, <1>2, <1>4 DEF Begins
  <2>3. Lives!Begin(e)
    BY <1>1, <2>1, <2>2 DEF Lives!Begin
  <2>4. QED
    BY <2>3 DEF Lives!LifeNext
<1>5. CASE Refused(e)
  <2>1. lifeOf[e] = "new" /\ lifeOf'[e] = "over" /\ rowOf'[e] \in {"open", rowOf[e]}
    BY <1>3, <1>5 DEF Refused, lifeOf, rowOf, Terminal
  <2>2. unsaved' = [unsaved EXCEPT ![e] = TRUE]
    BY <1>1, <1>2, <1>5 DEF Refused
  <2>3. rowOf' = [rowOf EXCEPT ![e] = "open"] \/ rowOf' = rowOf
    BY <1>1, <1>2, <2>1
  <2>4. Lives!Begin(e)
    BY <1>1, <2>1, <2>2, <2>3 DEF Lives!Begin
  <2>5. QED
    BY <2>4 DEF Lives!LifeNext
<1>6. CASE Works(e)
  <2>1. lifeOf[e] = "started" /\ lifeOf'[e] = "working" /\ rowOf'[e] = rowOf[e]
    BY <1>6 DEF Works, Working, lifeOf, rowOf
  <2>2. rowOf' = rowOf
    BY <1>1, <1>2, <2>1
  <2>3. unsaved' = unsaved
    BY <1>1, <1>2, <1>6 DEF Works
  <2>4. Lives!Work(e)
    BY <1>1, <2>1, <2>2, <2>3 DEF Lives!Work
  <2>5. QED
    BY <2>4 DEF Lives!LifeNext
<1>7. CASE GoesOn(e)
  <2>1. lifeOf'[e] = lifeOf[e]
    BY <1>7 DEF GoesOn, Working, lifeOf
  <2>2. rowOf'[e] = rowOf[e]
    BY <1>3, <1>7 DEF GoesOn, Working, Open, rowOf, Terminal
  <2>3. rowOf' = rowOf /\ lifeOf' = lifeOf /\ unsaved' = unsaved
    BY <1>1, <1>2, <1>7, <2>1, <2>2 DEF GoesOn
  <2>4. QED
    BY <2>3 DEF Lives!lifeVars
<1>8. CASE Ends(e)
  <2>1. lifeOf[e] \in {"started", "working"} /\ lifeOf'[e] = "over"
    BY <1>8 DEF Ends, Working, lifeOf
  <2>2. status'[e] \in Terminal => rowOf'[e] = "ended"
    BY DEF rowOf, Terminal
  <2>3. status'[e] = status[e] => rowOf'[e] = rowOf[e]
    BY DEF rowOf
  <2>4. \/ rowOf' = [rowOf EXCEPT ![e] = "ended"] /\ unsaved' = unsaved
        \/ /\ rowOf' = [rowOf EXCEPT ![e] = "ended"] \/ rowOf' = rowOf
           /\ unsaved' = [unsaved EXCEPT ![e] = TRUE]
    <3>1. /\ rowOf'[e] = "ended" => rowOf' = [rowOf EXCEPT ![e] = "ended"]
          /\ rowOf'[e] = rowOf[e] => rowOf' = rowOf
      BY <1>1, <1>2
    <3>2. /\ unsaved'[e] = unsaved[e] => unsaved' = unsaved
          /\ unsaved'[e] => unsaved' = [unsaved EXCEPT ![e] = TRUE]
      BY <1>1, <1>2
    <3>3. \/ status'[e] \in Terminal /\ unsaved'[e] = unsaved[e]
          \/ status'[e] \in Terminal \cup {status[e]} /\ unsaved'[e]
      BY <1>8 DEF Ends
    <3>4. QED
      BY <2>2, <2>3, <3>1, <3>2, <3>3
  <2>5. Lives!End(e)
    BY <1>1, <2>1, <2>4 DEF Lives!End
  <2>6. QED
    BY <2>5 DEF Lives!LifeNext
<1>9. CASE UNCHANGED <<pc[e], status[e], unsaved[e]>>
  <2>1. rowOf'[e] = rowOf[e] /\ lifeOf'[e] = lifeOf[e]
    BY <1>9 DEF rowOf, lifeOf
  <2>2. rowOf' = rowOf /\ lifeOf' = lifeOf /\ unsaved' = unsaved
    BY <1>1, <1>2, <1>9, <2>1
  <2>3. QED
    BY <2>2 DEF Lives!lifeVars
<1>10. QED
  BY <1>4, <1>5, <1>6, <1>7, <1>8, <1>9, LifeCases

\* A crash ends every life it finds in progress, and no row.
LEMMA LifeCrash ==
  ASSUME RowType, HandlerType, Crash
  PROVE  [Lives!LifeNext]_(Lives!lifeVars)
<1> DEFINE S == {e \in Exec : pc[e] \notin {"creating", "done"}}
<1>1. \A e \in S : lifeOf[e] \in {"started", "working"}
  BY DEF lifeOf
<1>2. lifeOf' = [e \in Exec |-> IF e \in S THEN "over" ELSE lifeOf[e]]
  BY DEF Crash, lifeOf
<1>3. unsaved' = [e \in Exec |-> e \in S \/ unsaved[e]]
  BY DEF Crash, RowType
<1>4. rowOf' = rowOf
  BY DEF Crash, rowOf, rowVars
<1>5. Lives!Die(S)
  BY <1>1, <1>2, <1>3, <1>4 DEF Lives!Die
<1>6. QED
  BY <1>5 DEF Lives!LifeNext

\* Every step of handleExecute, with its failed calls and the crashes that cut
\* it off, is a step in the life of an execution or leaves that alone.
THEOREM KeepsLifeHolds == Spec => KeepsLife
<1>1. Init => Lives!LifeInit /\ LifeInv
  BY DEF Init, Lives!LifeInit, rowOf, lifeOf, LifeInv
<1>2. RowType /\ HandlerType /\ FileType /\ LifeInv /\ [Next]_vars
      => (RowType /\ HandlerType /\ FileType /\ LifeInv)'
  BY RowStep, HandlerStep, FileStep, LifeInvStep
<1>3. RowType /\ HandlerType /\ FileType /\ LifeInv /\ [Next]_vars
      => [Lives!LifeNext]_(Lives!lifeVars)
  <2>1. ASSUME UNCHANGED vars \/ \E e \in Exec : ClientLeaves(e)
        PROVE  UNCHANGED <<rowOf, lifeOf, unsaved>>
    BY <2>1 DEF vars, rowVars, ClientLeaves, rowOf, lifeOf
  <2>2. QED
    BY <2>1, RowStep, LifeHandler, LifeCrash DEF Next, Lives!lifeVars
<1>4. QED
  BY <1>1, <1>2, <1>3, InitType, PTL DEF Spec, KeepsLife, Lives!LifeSpec

\* A row that says how its execution ended says so for good, and nothing is
\* done for that execution any more: no late write reopens or rewrites it.
THEOREM TerminalIsFinal ==
  Spec => [][\A e \in Exec : status[e] \in Terminal =>
                pc[e] = "done" /\ UNCHANGED <<pc[e], status[e], exitCode[e], reply[e]>>]_vars
<1>1. Init => LifeInv
  BY DEF Init, LifeInv
<1>2. RowType /\ HandlerType /\ FileType /\ LifeInv /\ [Next]_vars
      => (RowType /\ HandlerType /\ FileType /\ LifeInv)'
  BY RowStep, HandlerStep, FileStep, LifeInvStep
<1>3. RowType /\ HandlerType /\ FileType /\ LifeInv /\ [Next]_vars
      => [\A e \in Exec : status[e] \in Terminal =>
             pc[e] = "done" /\ UNCHANGED <<pc[e], status[e], exitCode[e], reply[e]>>]_vars
  <2> SUFFICES ASSUME RowType, HandlerType, FileType, LifeInv, Next,
                      NEW e \in Exec, status[e] \in Terminal
               PROVE  pc[e] = "done" /\ UNCHANGED <<pc[e], status[e], exitCode[e], reply[e]>>
    OBVIOUS
  <2>1. pc[e] = "done"
    BY DEF LifeInv, Open, Terminal, HandlerType
  <2>2. CASE Crash \/ \E d \in Exec : ClientLeaves(d)
    BY <2>1, <2>2 DEF Crash, ClientLeaves, rowVars
  <2>3. ASSUME NEW d \in Exec, Handler(d)
        PROVE  UNCHANGED <<pc[e], status[e], exitCode[e], reply[e]>>
    <3>1. CASE d = e
      BY <2>1, <2>3, <3>1 DEF Handler, CreateExecution, Claimed, NotClaimed, LinkSandbox,
         MarkSyncingIn, ListInputs, SyncedIn, MarkExecuting, RunCode, MarkSyncingOut, ListOutputs,
         Finish, SyncFileToSandbox, SyncFileFromSandbox
    <3>2. CASE d # e
      <4>1. \/ UNCHANGED reply
            \/ \E r : reply' = [reply EXCEPT ![d] = r]
        BY <2>3 DEF Handler, CreateExecution, Claimed, NotClaimed, LinkSandbox, MarkSyncingIn,
           ListInputs, SyncedIn, MarkExecuting, RunCode, MarkSyncingOut, ListOutputs, Finish,
           SyncFileToSandbox, SyncFileFromSandbox, Answer
      <4>2. reply'[e] = reply[e]
        BY <3>2, <4>1 DEF HandlerType
      <4>3. QED
        BY <2>3, <3>2, <4>2, OwnLife
    <3>3. QED
      BY <3>1, <3>2
  <2>4. QED
    BY <2>1, <2>2, <2>3 DEF Next
<1>4. QED
  BY <1>1, <1>2, <1>3, InitType, PTL DEF Spec

-----------------------------------------------------------------------------
(* An execution none of whose calls failed.                                *)

Saved == \A e \in Exec : Untroubled(e) => ~unsaved[e]

\* Only a failed call or a crash makes a row fall short.
LEMMA SavedStep ==
  ASSUME RowType, HandlerType, FileType, Saved, [Next]_vars
  PROVE  Saved'
<1> SUFFICES ASSUME NEW e \in Exec, Untroubled(e)' PROVE ~unsaved'[e]
  BY DEF Saved
<1>1. Untroubled(e) /\ UNCHANGED <<faults, crashes>> /\ ~unsaved[e]
  BY UntroubledBefore DEF Saved
<1>2. CASE UNCHANGED vars \/ \E d \in Exec : ClientLeaves(d)
  BY <1>1, <1>2 DEF vars, ClientLeaves
<1>3. CASE Crash
  <2>1. crashes' = crashes + 1 /\ crashes \in Nat
    BY <1>3 DEF Crash, HandlerType
  <2>2. QED
    BY <1>1, <2>1
<1>4. ASSUME NEW d \in Exec, Handler(d) PROVE ~unsaved'[e]
  <2>1. CASE d # e
    BY <1>1, <1>4, <2>1, OwnLife
  <2>2. CASE d = e
    <3>1. ~Fails(e)
      BY <1>1 DEF Fails, Untroubled, RowType
    <3>2. unsaved' = unsaved
      BY <1>4, <2>2, <3>1 DEF Handler, CreateExecution, Claimed, NotClaimed, LinkSandbox,
         MarkSyncingIn, ListInputs, SyncedIn, MarkExecuting, RunCode, MarkSyncingOut,
         ListOutputs, Finish, SyncFileToSandbox, SyncFileFromSandbox, CompleteExecution
    <3>3. QED
      BY <1>1, <3>2
  <2>3. QED
    BY <2>1, <2>2
<1>5. QED
  BY <1>2, <1>3, <1>4 DEF Next

\* Without the exception the two invariants of the row make: when no call has
\* failed, the process has not died and the client has stayed, every answered
\* execution has ended in the table, and a result is the one the row holds.
THEOREM UndisturbedExecution ==
  Spec => [](\A e \in Exec : pc[e] = "done" /\ Untroubled(e) =>
                /\ status[e] \in Terminal
                /\ reply[e].code = 200 =>
                      reply[e].status = status[e] /\ reply[e].exit = exitCode[e])
<1>1. Init => Saved
  BY DEF Init, Saved
<1>2. RowType /\ HandlerType /\ FileType /\ Saved /\ [Next]_vars
      => (RowType /\ HandlerType /\ FileType /\ Saved)'
  BY RowStep, HandlerStep, FileStep, SavedStep
<1>3. RowInv /\ Saved
      => \A e \in Exec : pc[e] = "done" /\ Untroubled(e) =>
            /\ status[e] \in Terminal
            /\ reply[e].code = 200 =>
                  reply[e].status = status[e] /\ reply[e].exit = exitCode[e]
  BY DEF RowInv, Saved, ReplyMatchesRow, AnsweredHasEnded
<1>4. QED
  BY <1>1, <1>2, <1>3, InitType, RowInvariant, PTL DEF Spec

-----------------------------------------------------------------------------
(* How an execution comes to its end.                                      *)

Rank(p) ==
    CASE p = "creating" -> 0 [] p = "claiming" -> 1 [] p = "linking" -> 2
      [] p = "linked" -> 3 [] p = "listing" -> 4 [] p = "syncing_in" -> 5
      [] p = "inputs_done" -> 6 [] p = "running" -> 7 [] p = "ran" -> 8
      [] p = "collecting" -> 9 [] p = "syncing_out" -> 10 [] p = "done" -> 11

\* e's handler goes on to a later phase, or ends a transfer of the present one.
Advances(e) ==
    \/ Rank(pc[e]) < Rank(pc'[e])
    \/ pc'[e] = pc[e] /\ todo'[e] \subseteq todo[e] /\ todo'[e] # todo[e]

\* So does each of its own steps, and no other step sets it back.
OnlyForward ==
    \A e \in Exec : /\ Handler(e) => Advances(e)
                    /\ Advances(e) \/ (pc'[e] = pc[e] /\ todo'[e] = todo[e])

\* A handler's own step.
LEMMA HandlerAdvances ==
  ASSUME HandlerType, FileType, NEW e \in Exec, Handler(e)
  PROVE  Advances(e)
<1> USE DEF HandlerType, FileType
<1>1. ASSUME NEW f \in File, NEW p \in Place,
             SyncFileToSandbox(e, f) \/ SyncFileFromSandbox(e, f, p)
      PROVE  Advances(e)
  <2>1. PICK t : Ended(e, t) /\ pc' = pc
    BY <1>1 DEF SyncFileToSandbox, SyncFileFromSandbox
  <2>2. t \in todo[e] /\ todo'[e] = todo[e] \ {t}
    BY <2>1 DEF Ended
  <2>3. QED
    BY <2>1, <2>2 DEF Advances
<1>2. /\ Rank("creating") = 0 /\ Rank("claiming") = 1 /\ Rank("linking") = 2
      /\ Rank("linked") = 3 /\ Rank("listing") = 4 /\ Rank("syncing_in") = 5
      /\ Rank("inputs_done") = 6 /\ Rank("running") = 7 /\ Rank("ran") = 8
      /\ Rank("collecting") = 9 /\ Rank("syncing_out") = 10 /\ Rank("done") = 11
  BY DEF Rank
<1>3. CASE CreateExecution(e)
  <2>1. pc[e] = "creating" /\ pc'[e] \in {"claiming", "done"}
    BY <1>3 DEF CreateExecution, Answer, Goto
  <2>2. QED
    BY <1>2, <2>1 DEF Advances
<1>4. CASE Claimed(e) \/ NotClaimed(e)
  <2>1. pc[e] = "claiming" /\ pc'[e] \in {"linking", "done"}
    BY <1>4 DEF Claimed, NotClaimed, Answer, Goto
  <2>2. QED
    BY <1>2, <2>1 DEF Advances
<1>5. CASE LinkSandbox(e)
  <2>1. pc[e] = "linking" /\ pc'[e] \in {"linked", "done"}
    BY <1>5 DEF LinkSandbox, Answer, Goto
  <2>2. QED
    BY <1>2, <2>1 DEF Advances
<1>6. CASE MarkSyncingIn(e) \/ ListInputs(e) \/ SyncedIn(e) \/ MarkExecuting(e)
  <2>1. \/ pc[e] = "linked" /\ pc'[e] = "listing"
        \/ pc[e] = "listing" /\ pc'[e] = "syncing_in"
        \/ pc[e] = "syncing_in" /\ pc'[e] = "inputs_done"
        \/ pc[e] = "inputs_done" /\ pc'[e] = "running"
    BY <1>6 DEF MarkSyncingIn, ListInputs, SyncedIn, MarkExecuting, Goto
  <2>2. QED
    BY <1>2, <2>1 DEF Advances
<1>7. CASE RunCode(e) \/ MarkSyncingOut(e) \/ ListOutputs(e) \/ Finish(e)
  <2>1. \/ pc[e] = "running" /\ pc'[e] = "ran"
        \/ pc[e] = "ran" /\ pc'[e] = "collecting"
        \/ pc[e] = "collecting" /\ pc'[e] = "syncing_out"
        \/ pc[e] = "syncing_out" /\ pc'[e] = "done"
    BY <1>7 DEF RunCode, MarkSyncingOut, ListOutputs, Finish, Answer, Goto
  <2>2. QED
    BY <1>2, <2>1 DEF Advances
<1>8. \E p : p \in Place
  BY DEF Place
<1>9. QED
  BY <1>1, <1>3, <1>4, <1>5, <1>6, <1>7, <1>8 DEF Handler

\* No handler returns to a phase it has left or takes up a transfer again, and
\* every step of its own brings it on: it makes at most eleven changes of phase
\* and ends each transfer of a phase once, whatever fails and whoever else is at
\* work on the chat.  RowEnds needs no more than that each such step be taken.
THEOREM ExecutionsAdvance == Spec => [][OnlyForward]_vars
<1>1. RowType /\ HandlerType /\ FileType /\ [Next]_vars => [OnlyForward]_vars
  <2> SUFFICES ASSUME RowType, HandlerType, FileType, [Next]_vars, NEW e \in Exec
               PROVE  Advances(e) \/ (pc'[e] = pc[e] /\ todo'[e] = todo[e])
    BY HandlerAdvances DEF OnlyForward
  <2>1. CASE Crash
    <3>1. pc'[e] \in {pc[e], "done"} /\ todo'[e] \subseteq todo[e] /\ pc[e] \in PC
      BY <2>1 DEF Crash, HandlerType, FileType
    <3>2. CASE pc[e] # "done" /\ pc'[e] = "done"
      BY <3>1, <3>2 DEF Advances, Rank, PC
    <3>3. QED
      BY <3>1, <3>2 DEF Advances
  <2>2. CASE UNCHANGED vars \/ \E d \in Exec : ClientLeaves(d)
    BY <2>2 DEF vars, ClientLeaves, fileVars
  <2>3. ASSUME NEW d \in Exec, Handler(d), d # e
        PROVE  pc'[e] = pc[e] /\ todo'[e] = todo[e]
    <3>1. pc'[e] = pc[e]
      BY <2>3, OwnLife
    <3>2. todo'[e] = todo[e]
      BY <2>3 DEF Handler, CreateExecution, Claimed, NotClaimed, LinkSandbox, MarkSyncingIn,
         ListInputs, SyncedIn, MarkExecuting, RunCode, MarkSyncingOut, ListOutputs, Finish,
         SyncFileToSandbox, SyncFileFromSandbox, Ended, fileVars, FileType
    <3>3. QED
      BY <3>1, <3>2
  <2>4. QED
    BY <2>1, <2>2, <2>3, HandlerAdvances DEF Next
<1>2. RowType /\ HandlerType /\ FileType /\ [Next]_vars
      => (RowType /\ HandlerType /\ FileType)'
  BY RowStep, HandlerStep, FileStep
<1>3. QED
  BY <1>1, <1>2, InitType, PTL DEF Spec

=============================================================================
