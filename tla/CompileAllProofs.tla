--------------------------- MODULE CompileAllProofs -------------------------
(***************************************************************************)
(* What the steps of compile keep, wherever compile runs: its types and    *)
(* the tasks of a run; and, where the main thread compiles, how a run      *)
(* stands to its sources.  Workspace and WatchMode are both built from     *)
(* these steps.                                                            *)
(***************************************************************************)
EXTENDS CompileAll, TLAPS

(***************************************************************************)
(* Types                                                                   *)
(***************************************************************************)

\* The texts of compiled templates are texts, and no text is a sentinel.
LEMMA CompiledTextsAreTexts ==
  /\ CompiledTexts \subseteq Texts
  /\ \A r, g \in Revs : CompiledText(r, g) \in CompiledTexts
BY DEF CompiledTexts, Texts, CompiledText, CompiledDocs

\* What migrate_hash_file leaves in either place is still a record.
LEMMA MigrationKeepsTypes ==
  ASSUME TreeTypeOK, NEW f \in Templates, migrate_hash_file(f)
  PROVE  /\ newHash' \in [Templates -> Records]
         /\ oldHash' \in [Templates -> Records]
BY DEF TreeTypeOK, migrate_hash_file, Records

\* The end of a run keeps the types of the run's variables.
LEMMA EndRunKeepsTypes ==
  ASSUME CompileTypeOK, NEW p \in Procs, NEW how \in Rest, EndRun(p, how)
  PROVE  /\ pc' \in [Procs -> Rest \cup Active]
         /\ compileLock' \in Procs \cup {NoProc}
         /\ globals' \in [Procs -> Revs \cup {Absent}]
         /\ marked' \in [Procs -> SUBSET Inputs]
BY DEF CompileTypeOK, EndRun

\* The end of a task keeps the types of the tasks' variables.
LEMMA EndTaskKeepsTypes ==
  ASSUME CompileTypeOK, NEW p \in Procs, NEW f \in Templates,
         NEW how \in TaskStates, EndTask(p, f, how)
  PROVE  /\ task' \in [Procs -> [Templates -> TaskStates]]
         /\ new' \in [Procs -> [Templates -> CompiledTexts \cup {Absent}]]
         /\ seen' \in [Procs -> [Templates -> Texts \cup {Absent}]]
         /\ outLock' \in [Templates -> Procs \cup {NoProc}]
BY DEF CompileTypeOK, EndTask

\* Every step of a run's main thread keeps the types.
LEMMA RunStepKeepsTypes ==
  ASSUME TreeTypeOK, CompileTypeOK, NEW p \in Procs, RunStep(p)
  PROVE  TreeTypeOK' /\ CompileTypeOK'
<1>1. CASE Acquire(p)
  BY <1>1 DEF Acquire, TreeTypeOK, CompileTypeOK, Rest, Active, TaskStates, Ended,
              NoTasks, inputVars, treeVars
<1>2. CASE SkipUnchanged(p)
  <2>1. EndRun(p, "skipped") /\ "skipped" \in Rest
    BY <1>2 DEF SkipUnchanged, Rest
  <2> QED
    BY <1>2, <2>1, EndRunKeepsTypes
    DEF SkipUnchanged, TreeTypeOK, CompileTypeOK, taskVars, inputVars, treeVars
<1>3. CASE \E force \in BOOLEAN : StartCompilation(p, force)
  BY <1>3 DEF StartCompilation, Goto, TreeTypeOK, CompileTypeOK, Active,
              taskVars, inputVars, treeVars
<1>4. CASE HaltOnStrays(p)
  <2>1. EndRun(p, "halted") /\ "halted" \in Rest
    BY <1>4 DEF HaltOnStrays, Rest
  <2> QED
    BY <1>4, <2>1, EndRunKeepsTypes
    DEF HaltOnStrays, TreeTypeOK, CompileTypeOK, taskVars, inputVars, treeVars
<1>5. CASE MarkPending(p)
  BY <1>5 DEF MarkPending, Goto, TreeTypeOK, CompileTypeOK, Active, taskVars, treeVars
<1>6. CASE ReadGlobals(p)
  BY <1>6 DEF ReadGlobals, TreeTypeOK, CompileTypeOK, Active, TaskStates, Inputs,
              inputVars, treeVars
<1>7. CASE EndCompiling(p)
  BY <1>7 DEF EndCompiling, Goto, TreeTypeOK, CompileTypeOK, Active, TaskStates, Ended,
              NoTasks, inputVars, treeVars
<1>8. CASE RaiseFailure(p)
  <2>1. EndRun(p, "failed") /\ "failed" \in Rest
    BY <1>8 DEF RaiseFailure, Rest
  <2> QED
    BY <1>8, <2>1, EndRunKeepsTypes
    DEF RaiseFailure, TreeTypeOK, CompileTypeOK, TaskStates, Ended, NoTasks,
        inputVars, treeVars
<1>9. CASE \E i \in Inputs : MarkCompiled(p, i)
  BY <1>9 DEF MarkCompiled, TreeTypeOK, CompileTypeOK, Digests, taskVars, treeVars
<1>10. CASE ClearPending(p)
  <2>1. EndRun(p, "done") /\ "done" \in Rest
    BY <1>10 DEF ClearPending, Rest
  <2> QED
    BY <1>10, <2>1, EndRunKeepsTypes
    DEF ClearPending, TreeTypeOK, CompileTypeOK, taskVars, treeVars
<1> QED
  BY <1>1, <1>2, <1>3, <1>4, <1>5, <1>6, <1>7, <1>8, <1>9, <1>10 DEF RunStep

\* What _write_compiled_file decides is to end the task or to go on writing.
LEMMA VerdictType ==
  ASSUME NEW f \in Templates, NEW t
  PROVE  Verdict(f, t) \in {"publish", "record", "done", "refused"}
BY DEF Verdict

\* A template is compiled only with the globals its run has read.
GlobalsRead ==
  \A p \in Procs, f \in Templates : task[p][f] = "todo" => globals[p] \in Revs

\* What a task publishes is a compiled text.
NewIsCompiled ==
  \A p \in Procs, f \in Templates :
    task[p][f] \in InFlight => new[p][f] \in CompiledTexts

\* Before and after the compilation itself a run has no tasks.
TasksOnlyWhileCompiling ==
  \A p \in Procs, f \in Templates :
    pc[p] \in {"locked", "checked", "cleared", "marking"} => task[p][f] = "none"

TaskInv == GlobalsRead /\ NewIsCompiled /\ TasksOnlyWhileCompiling

\* Every step of a task keeps the types.
LEMMA TaskStepKeepsTypes ==
  ASSUME TreeTypeOK, CompileTypeOK, TaskInv,
         NEW p \in Procs, NEW f \in Templates, TaskStep(p, f)
  PROVE  TreeTypeOK' /\ CompileTypeOK'
<1>1. CASE Render(p, f)
  <2>1. globals[p] \in Revs /\ src[f] \in Revs
    BY <1>1 DEF Render, Ready, TaskInv, GlobalsRead, CompileTypeOK, Inputs
  <2>2. CompiledText(src[f], globals[p]) \in CompiledTexts
    BY <2>1, CompiledTextsAreTexts
  <2> QED
    BY <1>1, <2>2 DEF Render, TreeTypeOK, CompileTypeOK, TaskStates, InFlight,
                      runVars, inputVars, treeVars
<1>2. CASE LockOutput(p, f)
  <2>1. migrate_hash_file(f)
    BY <1>2 DEF LockOutput
  <2> QED
    BY <1>2, <2>1, MigrationKeepsTypes
    DEF LockOutput, TreeTypeOK, CompileTypeOK, TaskStates, InFlight, Holding,
        runVars, inputVars
<1>3. CASE CheckOutput(p, f)
  <2>1. CASE EndTask(p, f, Verdict(f, new[p][f])) /\ Verdict(f, new[p][f]) \in Ended
    <3>1. Verdict(f, new[p][f]) \in TaskStates
      BY <2>1 DEF TaskStates
    <3> QED
      BY <1>3, <2>1, <3>1, EndTaskKeepsTypes
      DEF CheckOutput, TreeTypeOK, CompileTypeOK, runVars, inputVars, treeVars
  <2>2. CASE /\ Verdict(f, new[p][f]) \in Holding
             /\ task' = [task EXCEPT ![p][f] = Verdict(f, new[p][f])]
             /\ seen' = [seen EXCEPT ![p][f] = out[f]]
             /\ UNCHANGED <<new, outLock>>
    BY <1>3, <2>2
    DEF CheckOutput, TreeTypeOK, CompileTypeOK, TaskStates, InFlight,
        runVars, inputVars, treeVars
  <2> QED
    BY <1>3, <2>1, <2>2 DEF CheckOutput
<1>4. CASE PublishOutput(p, f)
  <2>1. new[p][f] \in Texts
    BY <1>4, CompiledTextsAreTexts DEF PublishOutput, TaskInv, NewIsCompiled, InFlight, Holding
  <2> QED
    BY <1>4, <2>1 DEF PublishOutput, TreeTypeOK, CompileTypeOK, TaskStates, InFlight,
                      Holding, runVars, inputVars
<1>5. CASE RecordHash(p, f)
  <2>1. new[p][f] \in Records
    BY <1>5, CompiledTextsAreTexts
    DEF RecordHash, TaskInv, NewIsCompiled, InFlight, Holding, Records
  <2>2. EndTask(p, f, "done") /\ "done" \in TaskStates
    BY <1>5 DEF RecordHash, TaskStates, Ended
  <2> QED
    BY <1>5, <2>1, <2>2, EndTaskKeepsTypes
    DEF RecordHash, TreeTypeOK, CompileTypeOK, runVars, inputVars
<1> QED
  BY <1>1, <1>2, <1>3, <1>4, <1>5 DEF TaskStep

\* Failures, worker deaths and crashes keep the types.
LEMMA FaultKeepsTypes ==
  ASSUME TreeTypeOK, CompileTypeOK, CompileFault
  PROVE  TreeTypeOK' /\ CompileTypeOK'
<1>1. ASSUME NEW p \in Procs, NEW f \in Templates, TaskFails(p, f)
      PROVE  TreeTypeOK' /\ CompileTypeOK'
  <2>1. EndTask(p, f, "failed") /\ "failed" \in TaskStates
    BY <1>1 DEF TaskFails, TaskStates, Ended
  <2> QED
    BY <1>1, <2>1, EndTaskKeepsTypes
    DEF TaskFails, TreeTypeOK, CompileTypeOK, runVars, inputVars, treeVars
<1>2. ASSUME NEW p \in Procs, NEW f \in Templates, WorkerDies(p, f)
      PROVE  TreeTypeOK' /\ CompileTypeOK'
  <2>1. EndTask(p, f, "lost") /\ "lost" \in TaskStates
    BY <1>2 DEF WorkerDies, TaskStates
  <2> QED
    BY <1>2, <2>1, EndTaskKeepsTypes
    DEF WorkerDies, TreeTypeOK, CompileTypeOK, runVars, inputVars, treeVars
<1>3. ASSUME NEW p \in Procs, Crash(p)
      PROVE  TreeTypeOK' /\ CompileTypeOK'
  BY <1>3 DEF Crash, TreeTypeOK, CompileTypeOK, Rest, TaskStates, Ended, inputVars, treeVars
<1> QED
  BY <1>1, <1>2, <1>3 DEF CompileFault

(***************************************************************************)
(* The tasks                                                               *)
(***************************************************************************)

\* A run's main thread starts tasks after reading the globals, and leaves
\* the compiling phase with none.
LEMMA RunStepKeepsTasks ==
  ASSUME CompileTypeOK, TaskInv, NEW p \in Procs, RunStep(p)
  PROVE  TaskInv'
<1> SUFFICES ASSUME NEW q \in Procs, NEW f \in Templates
             PROVE  /\ task'[q][f] = "todo" => globals'[q] \in Revs
                    /\ task'[q][f] \in InFlight => new'[q][f] \in CompiledTexts
                    /\ pc'[q] \in {"locked", "checked", "cleared", "marking"}
                         => task'[q][f] = "none"
  BY DEF TaskInv, GlobalsRead, NewIsCompiled, TasksOnlyWhileCompiling
<1> USE DEF CompileTypeOK, TaskInv, GlobalsRead, NewIsCompiled, TasksOnlyWhileCompiling
<1>1. CASE Acquire(p)
  BY <1>1 DEF Acquire, NoTasks, InFlight, Holding
<1>2. CASE SkipUnchanged(p)
  BY <1>2 DEF SkipUnchanged, EndRun, taskVars
<1>3. CASE \E force \in BOOLEAN : StartCompilation(p, force)
  BY <1>3 DEF StartCompilation, Goto, taskVars
<1>4. CASE HaltOnStrays(p)
  BY <1>4 DEF HaltOnStrays, EndRun, taskVars
<1>5. CASE MarkPending(p)
  BY <1>5 DEF MarkPending, Goto, taskVars
<1>6. CASE ReadGlobals(p)
  BY <1>6 DEF ReadGlobals, Inputs, InFlight, Holding
<1>7. CASE EndCompiling(p)
  BY <1>7 DEF EndCompiling, Goto, NoTasks, InFlight, Holding
<1>8. CASE RaiseFailure(p)
  BY <1>8 DEF RaiseFailure, EndRun, NoTasks, InFlight, Holding
<1>9. CASE \E i \in Inputs : MarkCompiled(p, i)
  BY <1>9 DEF MarkCompiled, taskVars
<1>10. CASE ClearPending(p)
  BY <1>10 DEF ClearPending, EndRun, taskVars
<1> QED
  BY <1>1, <1>2, <1>3, <1>4, <1>5, <1>6, <1>7, <1>8, <1>9, <1>10 DEF RunStep

\* A task that ends no longer has a text; the other tasks are as they were.
LEMMA EndTaskKeepsTasks ==
  ASSUME CompileTypeOK, TaskInv, NEW p \in Procs, NEW f \in Templates,
         NEW how \in Ended \cup {"lost"}, EndTask(p, f, how),
         task[p][f] \in InFlight \cup {"todo"}, UNCHANGED runVars
  PROVE  TaskInv'
BY DEF EndTask, CompileTypeOK, TaskInv, GlobalsRead, NewIsCompiled,
       TasksOnlyWhileCompiling, InFlight, Holding, Ended, runVars

LEMMA TaskStepKeepsTasks ==
  ASSUME CompileTypeOK, TaskInv, NEW p \in Procs, NEW f \in Templates, TaskStep(p, f)
  PROVE  TaskInv'
<1>1. CASE Render(p, f)
  <2>1. globals[p] \in Revs /\ src[f] \in Revs
    BY <1>1 DEF Render, Ready, TaskInv, GlobalsRead, CompileTypeOK, Inputs
  <2>2. CompiledText(src[f], globals[p]) \in CompiledTexts
    BY <2>1, CompiledTextsAreTexts
  <2> QED
    BY <1>1, <2>2
    DEF Render, Ready, CompileTypeOK, TaskInv, GlobalsRead, NewIsCompiled,
        TasksOnlyWhileCompiling, InFlight, runVars
<1>2. CASE LockOutput(p, f)
  BY <1>2 DEF LockOutput, CompileTypeOK, TaskInv, GlobalsRead, NewIsCompiled,
              TasksOnlyWhileCompiling, InFlight, Holding, runVars
<1>3. CASE CheckOutput(p, f)
  <2>1. CASE EndTask(p, f, Verdict(f, new[p][f])) /\ Verdict(f, new[p][f]) \in Ended
    BY <1>3, <2>1, EndTaskKeepsTasks DEF CheckOutput, InFlight, Holding
  <2>2. CASE /\ Verdict(f, new[p][f]) \in Holding
             /\ task' = [task EXCEPT ![p][f] = Verdict(f, new[p][f])]
             /\ UNCHANGED new
    BY <1>3, <2>2
    DEF CheckOutput, CompileTypeOK, TaskInv, GlobalsRead, NewIsCompiled,
        TasksOnlyWhileCompiling, InFlight, Holding, runVars
  <2> QED
    BY <1>3, <2>1, <2>2 DEF CheckOutput
<1>4. CASE PublishOutput(p, f)
  BY <1>4 DEF PublishOutput, CompileTypeOK, TaskInv, GlobalsRead, NewIsCompiled,
              TasksOnlyWhileCompiling, InFlight, Holding, runVars
<1>5. CASE RecordHash(p, f)
  BY <1>5, EndTaskKeepsTasks DEF RecordHash, InFlight, Holding, Ended
<1> QED
  BY <1>1, <1>2, <1>3, <1>4, <1>5 DEF TaskStep

LEMMA FaultKeepsTasks ==
  ASSUME CompileTypeOK, TaskInv, CompileFault
  PROVE  TaskInv'
<1>1. ASSUME NEW p \in Procs, NEW f \in Templates, TaskFails(p, f)
      PROVE  TaskInv'
  BY <1>1, EndTaskKeepsTasks DEF TaskFails, Ready, Ended
<1>2. ASSUME NEW p \in Procs, NEW f \in Templates, WorkerDies(p, f)
      PROVE  TaskInv'
  BY <1>2, EndTaskKeepsTasks DEF WorkerDies
<1>3. ASSUME NEW p \in Procs, Crash(p)
      PROVE  TaskInv'
  BY <1>3 DEF Crash, CompileTypeOK, TaskInv, GlobalsRead, NewIsCompiled,
              TasksOnlyWhileCompiling, InFlight, Holding
<1> QED
  BY <1>1, <1>2, <1>3 DEF CompileFault

(***************************************************************************)
(* A run whose main thread compiles (~ Pool): its tasks live and die with  *)
(* it, so the sources it read are those its tasks compile.                 *)
(***************************************************************************)

\* A run that is active has compile.lock, hence is the only one.
LockHeld == \A p \in Procs : pc[p] \in Active => compileLock = p

\* The marker is there from before the first write until the end.
MarkedPending ==
  \A p \in Procs : pc[p] \in {"cleared", "compiling", "marking"} => pending

\* A run has tasks exactly while it compiles.
TasksInRun ==
  \A p \in Procs, f \in Templates : task[p][f] # "none" <=> pc[p] = "compiling"

RunInv == LockHeld /\ MarkedPending /\ TasksInRun

\* The globals a run read are those in the file, as long as it compiles.
SourcesRead ==
  \A p \in Procs : pc[p] = "compiling" => globals[p] = src[Globals]

\* What a task has compiled, it would compile again.
NewIsCurrent ==
  \A p \in Procs, f \in Templates :
    task[p][f] \in InFlight => new[p][f] = CompiledText(src[f], src[Globals])

\* The digests a run has recorded are those of its sources.
MarkedCurrent ==
  \A p \in Procs : \A i \in marked[p] :
    pc[p] = "marking" /\ inHash[i] = Digest[src[i]]

SourceInv == SourcesRead /\ NewIsCurrent /\ MarkedCurrent

\* Two runs are never active at once.
LEMMA OneRun ==
  ASSUME LockHeld, NEW p \in Procs, NEW q \in Procs,
         pc[p] \in Active, pc[q] \in Active
  PROVE  p = q
BY DEF LockHeld

\* A task belongs to the one run that compiles.
LEMMA OneCompiler ==
  ASSUME RunInv, NEW p \in Procs, NEW q \in Procs, NEW f \in Templates,
         NEW g \in Templates, task[p][f] # "none", task[q][g] # "none"
  PROVE  p = q /\ pending
BY OneRun DEF RunInv, TasksInRun, MarkedPending, Active

\* When the loop ends without a failure every template was compiled.
LEMMA LoopEndsWithAllDone ==
  ASSUME CompileTypeOK, RunInv, NEW p \in Procs, EndCompiling(p), NEW f \in Templates
  PROVE  task[p][f] = "done"
<1>1. task[p][f] # "none"
  BY DEF EndCompiling, RunInv, TasksInRun
<1>2. PICK c \in Chunks : f \in c
  BY CompileAssumption
<1>3. ChunkOver(p, c) /\ ~ ChunkFailed(p, c)
  BY DEF EndCompiling
<1>4. task[p][f] \in TaskStates
  BY DEF CompileTypeOK
<1> QED
  BY <1>1, <1>2, <1>3, <1>4
  DEF ChunkOver, ChunkFailed, ChunkIdle, ChunkLost, TaskStates, Ended

\* The steps of a run and of a task keep the run in order.
LEMMA RunStepKeepsRun ==
  ASSUME ~ Pool, CompileTypeOK, RunInv, NEW p \in Procs, RunStep(p)
  PROVE  RunInv'
<1> SUFFICES ASSUME NEW q \in Procs
             PROVE  /\ pc'[q] \in Active => compileLock' = q
                    /\ pc'[q] \in {"cleared", "compiling", "marking"} => pending'
                    /\ \A f \in Templates :
                         task'[q][f] # "none" <=> pc'[q] = "compiling"
  BY DEF RunInv, LockHeld, MarkedPending, TasksInRun
<1> USE DEF CompileTypeOK, RunInv, LockHeld, MarkedPending, TasksInRun, Active
<1>1. CASE Acquire(p)
  BY <1>1, CompileAssumption DEF Acquire, NoTasks, Rest, inputVars
<1>2. CASE SkipUnchanged(p)
  BY <1>2, CompileAssumption DEF SkipUnchanged, EndRun, taskVars, inputVars
<1>3. CASE \E force \in BOOLEAN : StartCompilation(p, force)
  BY <1>3 DEF StartCompilation, Goto, taskVars, inputVars
<1>4. CASE HaltOnStrays(p)
  BY <1>4, CompileAssumption DEF HaltOnStrays, EndRun, taskVars, inputVars
<1>5. CASE MarkPending(p)
  BY <1>5 DEF MarkPending, Goto, taskVars
<1>6. CASE ReadGlobals(p)
  BY <1>6 DEF ReadGlobals, inputVars
<1>7. CASE EndCompiling(p)
  BY <1>7 DEF EndCompiling, Goto, NoTasks, inputVars
<1>8. CASE RaiseFailure(p)
  BY <1>8, CompileAssumption DEF RaiseFailure, EndRun, NoTasks, inputVars
<1>9. CASE \E i \in Inputs : MarkCompiled(p, i)
  BY <1>9 DEF MarkCompiled, taskVars
<1>10. CASE ClearPending(p)
  BY <1>10, CompileAssumption DEF ClearPending, EndRun, taskVars
<1> QED
  BY <1>1, <1>2, <1>3, <1>4, <1>5, <1>6, <1>7, <1>8, <1>9, <1>10 DEF RunStep

\* A task under way stays a task of its run, however it goes on or ends.
LEMMA TaskGoesOn ==
  ASSUME CompileTypeOK, RunInv, NEW p \in Procs, NEW f \in Templates,
         task[p][f] # "none", NEW how, how # "none",
         task' = [task EXCEPT ![p][f] = how], UNCHANGED <<runVars, pending>>
  PROVE  RunInv'
BY DEF CompileTypeOK, RunInv, LockHeld, MarkedPending, TasksInRun, runVars

LEMMA TaskStepKeepsRun ==
  ASSUME CompileTypeOK, RunInv, NEW p \in Procs, NEW f \in Templates, TaskStep(p, f)
  PROVE  RunInv'
<1>1. CASE Render(p, f)
  BY <1>1, TaskGoesOn DEF Render, Ready, inputVars
<1>2. CASE LockOutput(p, f)
  BY <1>2, TaskGoesOn DEF LockOutput, inputVars
<1>3. CASE CheckOutput(p, f)
  <2>1. task' = [task EXCEPT ![p][f] = Verdict(f, new[p][f])]
    BY <1>3 DEF CheckOutput, EndTask
  <2>2. Verdict(f, new[p][f]) # "none"
    BY VerdictType
  <2> QED
    BY <1>3, <2>1, <2>2, TaskGoesOn DEF CheckOutput, inputVars
<1>4. CASE PublishOutput(p, f)
  BY <1>4, TaskGoesOn DEF PublishOutput, inputVars
<1>5. CASE RecordHash(p, f)
  BY <1>5, TaskGoesOn DEF RecordHash, EndTask, inputVars
<1> QED
  BY <1>1, <1>2, <1>3, <1>4, <1>5 DEF TaskStep

\* A failure ends a task, a crash ends the run with all of them.
LEMMA FaultKeepsRun ==
  ASSUME ~ Pool, CompileTypeOK, RunInv, CompileFault
  PROVE  RunInv'
<1>1. ASSUME NEW p \in Procs, NEW f \in Templates, TaskFails(p, f)
      PROVE  RunInv'
  BY <1>1, TaskGoesOn DEF TaskFails, EndTask, Ready, InFlight, Holding, inputVars
<1>2. ASSUME NEW p \in Procs, Crash(p)
      PROVE  RunInv'
  <2>1. \A f \in Templates : task'[p][f] = "none"
    BY <1>2 DEF Crash, CompileTypeOK
  <2>2. \A q \in Procs : q # p => task'[q] = task[q]
    BY <1>2 DEF Crash, CompileTypeOK
  <2>3. /\ pc' = [pc EXCEPT ![p] = "crashed"] /\ pc[p] \in Active
        /\ compileLock' = NoProc /\ pending' = pending
    BY <1>2 DEF Crash, inputVars
  <2> QED
    BY <2>1, <2>2, <2>3
    DEF CompileTypeOK, RunInv, LockHeld, MarkedPending, TasksInRun, Active
<1> QED
  BY <1>1, <1>2 DEF CompileFault, WorkerDies

\* The steps of a run keep what it knows of its sources.
LEMMA RunStepKeepsSources ==
  ASSUME CompileTypeOK, RunInv, SourceInv, NEW p \in Procs, RunStep(p)
  PROVE  SourceInv'
<1> DEFINE Read == \A q \in Procs : pc'[q] = "compiling" => globals'[q] = src'[Globals]
           Current == \A q \in Procs, f \in Templates :
                        task'[q][f] \in InFlight =>
                          new'[q][f] = CompiledText(src'[f], src'[Globals])
           Marked == \A q \in Procs : \A i \in marked'[q] :
                       pc'[q] = "marking" /\ inHash'[i] = Digest[src'[i]]
<1> SUFFICES Read /\ Current /\ Marked
  BY DEF SourceInv, SourcesRead, NewIsCurrent, MarkedCurrent
<1> USE DEF CompileTypeOK, SourceInv, SourcesRead, NewIsCurrent, MarkedCurrent
<1>0. "none" \notin InFlight /\ "todo" \notin InFlight
  BY DEF InFlight, Holding
<1>1. CASE Acquire(p)
  BY <1>0, <1>1 DEF Acquire, NoTasks, Rest, inputVars
<1>2. CASE SkipUnchanged(p)
  BY <1>2 DEF SkipUnchanged, EndRun, taskVars, inputVars
<1>3. CASE \E force \in BOOLEAN : StartCompilation(p, force)
  BY <1>3 DEF StartCompilation, Goto, taskVars, inputVars
<1>4. CASE HaltOnStrays(p)
  BY <1>4 DEF HaltOnStrays, EndRun, taskVars, inputVars
<1>5. CASE MarkPending(p)
  BY <1>5 DEF MarkPending, Goto, taskVars
<1>6. CASE ReadGlobals(p)
  BY <1>0, <1>6 DEF ReadGlobals, inputVars
<1>7. CASE EndCompiling(p)
  BY <1>0, <1>7 DEF EndCompiling, Goto, NoTasks, inputVars
<1>8. CASE RaiseFailure(p)
  BY <1>0, <1>8 DEF RaiseFailure, EndRun, NoTasks, inputVars
<1>9. CASE \E i \in Inputs : MarkCompiled(p, i)
  <2>1. PICK i \in Inputs : MarkCompiled(p, i)
    BY <1>9
  <2>2. Read /\ Current
    BY <2>1 DEF MarkCompiled, taskVars
  <2>3. Marked
    BY <2>1 DEF MarkCompiled
  <2> QED
    BY <2>2, <2>3
<1>10. CASE ClearPending(p)
  BY <1>10 DEF ClearPending, EndRun, taskVars
<1> QED
  BY <1>1, <1>2, <1>3, <1>4, <1>5, <1>6, <1>7, <1>8, <1>9, <1>10 DEF RunStep

\* A task that goes on keeps its text; one that ends needs none.
LEMMA TaskKeepsSources ==
  ASSUME CompileTypeOK, SourceInv, NEW p \in Procs, NEW f \in Templates, NEW how,
         task' = [task EXCEPT ![p][f] = how],
         how \in InFlight => task[p][f] \in InFlight /\ new' = new,
         \A q \in Procs, g \in Templates :
           ~ (q = p /\ g = f) => new'[q][g] = new[q][g],
         UNCHANGED <<runVars, inputVars>>
  PROVE  SourceInv'
<1>1. SourcesRead' /\ MarkedCurrent'
  BY DEF SourceInv, SourcesRead, MarkedCurrent, runVars, inputVars
<1>2. NewIsCurrent'
  BY DEF CompileTypeOK, SourceInv, NewIsCurrent, inputVars
<1> QED
  BY <1>1, <1>2 DEF SourceInv

LEMMA EndTaskKeepsSources ==
  ASSUME CompileTypeOK, SourceInv, NEW p \in Procs, NEW f \in Templates,
         NEW how \in Ended \cup {"lost"}, EndTask(p, f, how),
         UNCHANGED <<runVars, inputVars>>
  PROVE  SourceInv'
BY TaskKeepsSources DEF EndTask, CompileTypeOK, Ended, InFlight, Holding

LEMMA TaskStepKeepsSources ==
  ASSUME CompileTypeOK, RunInv, SourceInv,
         NEW p \in Procs, NEW f \in Templates, TaskStep(p, f)
  PROVE  SourceInv'
<1>1. CASE Render(p, f)
  <2>1. globals[p] = src[Globals]
    BY <1>1 DEF Render, Ready, RunInv, TasksInRun, SourceInv, SourcesRead
  <2>2. SourcesRead' /\ MarkedCurrent'
    BY <1>1 DEF Render, SourceInv, SourcesRead, MarkedCurrent, runVars, inputVars
  <2>3. NewIsCurrent'
    BY <1>1, <2>1 DEF Render, CompileTypeOK, SourceInv, NewIsCurrent, inputVars
  <2> QED
    BY <2>2, <2>3 DEF SourceInv
<1>2. CASE LockOutput(p, f)
  BY <1>2, TaskKeepsSources DEF LockOutput, InFlight, Holding
<1>3. CASE CheckOutput(p, f)
  <2>1. CASE EndTask(p, f, Verdict(f, new[p][f])) /\ Verdict(f, new[p][f]) \in Ended
    BY <1>3, <2>1, EndTaskKeepsSources DEF CheckOutput
  <2>2. CASE /\ task' = [task EXCEPT ![p][f] = Verdict(f, new[p][f])]
             /\ UNCHANGED new
    BY <1>3, <2>2, TaskKeepsSources DEF CheckOutput, InFlight, Holding
  <2> QED
    BY <1>3, <2>1, <2>2 DEF CheckOutput
<1>4. CASE PublishOutput(p, f)
  BY <1>4, TaskKeepsSources DEF PublishOutput, InFlight, Holding
<1>5. CASE RecordHash(p, f)
  BY <1>5, EndTaskKeepsSources DEF RecordHash, Ended
<1> QED
  BY <1>1, <1>2, <1>3, <1>4, <1>5 DEF TaskStep

LEMMA FaultKeepsSources ==
  ASSUME ~ Pool, CompileTypeOK, RunInv, SourceInv, CompileFault
  PROVE  SourceInv'
<1>1. ASSUME NEW p \in Procs, NEW f \in Templates, TaskFails(p, f)
      PROVE  SourceInv'
  BY <1>1, EndTaskKeepsSources DEF TaskFails, Ended
<1>2. ASSUME NEW p \in Procs, Crash(p)
      PROVE  SourceInv'
  <2>1. \A f \in Templates : task'[p][f] = "none"
    BY <1>2 DEF Crash, CompileTypeOK
  <2>2. /\ \A q \in Procs : q # p => task'[q] = task[q] /\ new'[q] = new[q]
        /\ pc' = [pc EXCEPT ![p] = "crashed"] /\ marked' = [marked EXCEPT ![p] = {}]
        /\ UNCHANGED <<globals, inputVars>>
    BY <1>2 DEF Crash, CompileTypeOK
  <2>3. SourcesRead' /\ MarkedCurrent'
    BY <2>2 DEF CompileTypeOK, SourceInv, SourcesRead, MarkedCurrent, inputVars
  <2>4. NewIsCurrent'
    BY <2>1, <2>2 DEF SourceInv, NewIsCurrent, InFlight, Holding, inputVars
  <2> QED
    BY <2>3, <2>4 DEF SourceInv
<1> QED
  BY <1>1, <1>2 DEF CompileFault, WorkerDies

\* What is done beside a run keeps it in order, if it leaves the run, the
\* digests and the marker alone, and the sources while they are in use.
LEMMA BystandersKeepRun ==
  ASSUME RunInv, UNCHANGED <<runVars, taskVars, pending>>
  PROVE  RunInv'
BY DEF RunInv, LockHeld, MarkedPending, TasksInRun, runVars, taskVars

LEMMA BystandersKeepSources ==
  ASSUME RunInv, SourceInv, UNCHANGED <<runVars, taskVars, inHash>>,
         src' = src \/ \A p \in Procs : pc[p] \notin {"compiling", "marking"}
  PROVE  SourceInv'
<1>1. CASE src' = src
  BY <1>1 DEF SourceInv, SourcesRead, NewIsCurrent, MarkedCurrent, runVars, taskVars
<1>2. CASE \A p \in Procs : pc[p] \notin {"compiling", "marking"}
  <2>1. \A p \in Procs, f \in Templates : task[p][f] \notin InFlight
    BY <1>2 DEF RunInv, TasksInRun, InFlight, Holding
  <2> QED
    BY <1>2, <2>1
    DEF SourceInv, SourcesRead, NewIsCurrent, MarkedCurrent, runVars, taskVars
<1> QED
  BY <1>1, <1>2

\* The main thread writes no tree, starts no task half-way, and counts a
\* compilation as complete only when every template was compiled.
LEMMA RunStepCounts ==
  ASSUME CompileTypeOK, RunInv, NEW p \in Procs, RunStep(p)
  PROVE  /\ UNCHANGED <<src, treeVars>>
         /\ \A q \in Procs, f \in Templates :
              task'[q][f] \in {"record", "done"} => task'[q][f] = task[q][f]
         /\ \A q \in Procs : pc'[q] = "marking" =>
              pc[q] = "marking" \/ \A f \in Templates : task[q][f] = "done"
         /\ ~ pending' => \/ ~ pending /\ inHash' = inHash
                          \/ ClearPending(p)
<1> DEFINE Tasks == \A q \in Procs, f \in Templates :
                      task'[q][f] \in {"record", "done"} => task'[q][f] = task[q][f]
           Marking == \A q \in Procs : pc'[q] = "marking" =>
                        pc[q] = "marking" \/ \A f \in Templates : task[q][f] = "done"
<1>1. UNCHANGED <<src, treeVars>>
  BY DEF RunStep, Acquire, SkipUnchanged, StartCompilation, HaltOnStrays, MarkPending,
         ReadGlobals, EndCompiling, RaiseFailure, MarkCompiled, ClearPending, inputVars
<1>2. Tasks
  <2>1. CASE UNCHANGED taskVars
    BY <2>1 DEF taskVars
  <2>2. CASE task' = [task EXCEPT ![p] = NoTasks]
    BY <2>2 DEF CompileTypeOK, NoTasks
  <2>3. CASE ReadGlobals(p)
    BY <2>3 DEF ReadGlobals, CompileTypeOK
  <2> QED
    BY <2>1, <2>2, <2>3
    DEF RunStep, Acquire, SkipUnchanged, StartCompilation, HaltOnStrays, MarkPending,
        EndCompiling, RaiseFailure, MarkCompiled, ClearPending
<1>3. Marking
  <2>1. CASE EndCompiling(p)
    BY <2>1, LoopEndsWithAllDone DEF EndCompiling, Goto, CompileTypeOK
  <2>2. CASE ~ EndCompiling(p)
    BY <2>2
    DEF RunStep, Acquire, SkipUnchanged, StartCompilation, HaltOnStrays, MarkPending,
        ReadGlobals, RaiseFailure, MarkCompiled, ClearPending, Goto, EndRun,
        CompileTypeOK
  <2> QED
    BY <2>1, <2>2
<1>4. ~ pending' => (~ pending /\ inHash' = inHash) \/ ClearPending(p)
  BY DEF RunStep, Acquire, SkipUnchanged, StartCompilation, HaltOnStrays, MarkPending,
         ReadGlobals, EndCompiling, RaiseFailure, MarkCompiled, inputVars, RunInv,
         MarkedPending
<1> QED
  BY <1>1, <1>2, <1>3, <1>4

\* A task is one of the run that compiles, and disturbs its template alone.
LEMMA TaskStepIsLocal ==
  ASSUME TreeTypeOK, CompileTypeOK, RunInv,
         NEW p \in Procs, NEW f \in Templates, TaskStep(p, f)
  PROVE  /\ pending' /\ UNCHANGED <<runVars, inputVars>>
         /\ \A q \in Procs : pc'[q] # "marking"
         /\ \A q \in Procs, g \in Templates : q # p => task'[q][g] = "none"
         /\ \A g \in Templates : g # f =>
              /\ task'[p][g] = task[p][g]
              /\ out'[g] = out[g] /\ newHash'[g] = newHash[g] /\ oldHash'[g] = oldHash[g]
<1>1. UNCHANGED <<runVars, inputVars>>
  BY DEF TaskStep, Render, LockOutput, CheckOutput, PublishOutput, RecordHash
<1>2. task[p][f] # "none"
  BY DEF TaskStep, Render, LockOutput, CheckOutput, PublishOutput, RecordHash, Ready
<1>3. pc[p] = "compiling" /\ pending
  BY <1>2 DEF RunInv, TasksInRun, MarkedPending
<1>4. \A q \in Procs : q # p => pc[q] \notin Active
  BY <1>3, OneRun DEF RunInv, Active
<1>5. \A q \in Procs, g \in Templates : ~ (q = p /\ g = f) => task'[q][g] = task[q][g]
  BY DEF TaskStep, Render, LockOutput, CheckOutput, PublishOutput, RecordHash, EndTask,
         CompileTypeOK
<1>6. \A q \in Procs, g \in Templates : q # p => task[q][g] = "none"
  BY <1>4 DEF RunInv, TasksInRun, Active
<1>7. \A g \in Templates : g # f =>
        out'[g] = out[g] /\ newHash'[g] = newHash[g] /\ oldHash'[g] = oldHash[g]
  BY DEF TaskStep, Render, LockOutput, CheckOutput, PublishOutput, RecordHash,
         migrate_hash_file, treeVars, TreeTypeOK
<1> QED
  BY <1>1, <1>3, <1>4, <1>5, <1>6, <1>7 DEF runVars, inputVars, Active

\* How a task comes to its record, and to its end.
LEMMA HowTasksProceed ==
  ASSUME CompileTypeOK, NEW p \in Procs, NEW f \in Templates, TaskStep(p, f)
  PROVE  /\ task'[p][f] = "record" =>
              PublishOutput(p, f) \/ (CheckOutput(p, f) /\ Verdict(f, new[p][f]) = "record")
         /\ task'[p][f] = "done" =>
              RecordHash(p, f) \/ (CheckOutput(p, f) /\ Verdict(f, new[p][f]) = "done")
<1>1. CheckOutput(p, f) => task'[p][f] = Verdict(f, new[p][f])
  BY DEF CheckOutput, EndTask, CompileTypeOK
<1>2. Render(p, f) => task'[p][f] = "rendered"
  BY DEF Render, CompileTypeOK
<1>3. LockOutput(p, f) => task'[p][f] = "check"
  BY DEF LockOutput, CompileTypeOK
<1>4. PublishOutput(p, f) => task'[p][f] = "record"
  BY DEF PublishOutput, CompileTypeOK
<1>5. RecordHash(p, f) => task'[p][f] = "done"
  BY DEF RecordHash, EndTask, CompileTypeOK
<1> QED
  BY <1>1, <1>2, <1>3, <1>4, <1>5 DEF TaskStep

\* A failure or a crash writes no tree and completes nothing.
LEMMA FaultCounts ==
  ASSUME CompileTypeOK, CompileFault
  PROVE  /\ UNCHANGED <<inputVars, treeVars>>
         /\ \A q \in Procs, f \in Templates :
              task'[q][f] \in {"record", "done"} => task'[q][f] = task[q][f]
         /\ \A q \in Procs : pc'[q] = "marking" => pc[q] = "marking"
<1>1. UNCHANGED <<inputVars, treeVars>>
  BY DEF CompileFault, TaskFails, WorkerDies, Crash
<1>2. \A q \in Procs, f \in Templates :
        task'[q][f] \in {"record", "done"} => task'[q][f] = task[q][f]
  <2>1. ASSUME NEW p \in Procs, NEW g \in Templates, TaskFails(p, g) \/ WorkerDies(p, g)
        PROVE  \A q \in Procs, f \in Templates :
                 task'[q][f] \in {task[q][f], "failed", "lost"}
    <3>1. PICK how \in {"failed", "lost"} : task' = [task EXCEPT ![p][g] = how]
      BY <2>1 DEF TaskFails, WorkerDies, EndTask
    <3> QED
      BY <3>1 DEF CompileTypeOK
  <2>2. ASSUME NEW p \in Procs, Crash(p), NEW q \in Procs, NEW f \in Templates
        PROVE  task'[q][f] \in {task[q][f], "none"}
    BY <2>2 DEF Crash, CompileTypeOK
  <2>3. \A q \in Procs, f \in Templates :
          task'[q][f] \in {task[q][f], "failed", "lost", "none"}
    BY <2>1, <2>2 DEF CompileFault
  <2> QED
    BY <2>3
<1>3. \A q \in Procs : pc'[q] = "marking" => pc[q] = "marking"
  BY DEF CompileFault, TaskFails, WorkerDies, Crash, CompileTypeOK, runVars
<1> QED
  BY <1>1, <1>2, <1>3
=============================================================================
