--------------------------- MODULE WorkspaceProofs --------------------------
(***************************************************************************)
(* Theorems about Workspace, for every set of templates, runs, revisions   *)
(* and chunks, sequential or pooled, and every bound on edits, faults and  *)
(* cleans: the types, the promise that a manual edit survives, and that    *)
(* output and record are published together.  Then what holds without a    *)
(* pool.                                                                   *)
(***************************************************************************)
EXTENDS Workspace, CompileAllProofs

(***************************************************************************)
(* The user and clean                                                      *)
(***************************************************************************)

\* The user's edits leave texts that are texts, and touch no process.
LEMMA UserKeepsTypes ==
  ASSUME TypeOK, TaskInv, UserStep
  PROVE  TypeOK' /\ TaskInv'
<1> USE DEF TypeOK
<1>1. /\ CleanTypeOK' /\ faults' \in 0..MaxFaults /\ cleans' \in 0..MaxCleans
      /\ edits' \in 0..MaxEdits
  BY WorkspaceAssumption DEF UserStep, CleanTypeOK, cleanVars
<1>2. ASSUME NEW i \in Inputs, NEW r \in Revs, EditSource(i, r)
      PROVE  TreeTypeOK' /\ CompileTypeOK'
  BY <1>2 DEF EditSource, TreeTypeOK, CompileTypeOK, runVars, taskVars, treeVars
<1>3. ASSUME NEW f \in Templates, EditOutput(f)
      PROVE  TreeTypeOK' /\ CompileTypeOK'
  <2>1. out[f] \in Texts
    BY <1>3 DEF EditOutput, TreeTypeOK
  <2>2. /\ [out[f] EXCEPT !.doc = ManualDoc] \in Texts
        /\ [out[f] EXCEPT !.doc = CorruptDoc] \in Texts
        /\ [out[f] EXCEPT !.layout = "user"] \in Texts
    BY <2>1 DEF Texts
  <2>3. out' \in [Templates -> Texts \cup {Absent}]
    BY <1>3, <2>2 DEF EditOutput, TreeTypeOK
  <2> QED
    BY <1>3, <2>3 DEF EditOutput, TreeTypeOK, CompileTypeOK, runVars, taskVars, inputVars
<1>4. ASSUME NEW f \in Templates, DeleteOutput(f)
      PROVE  TreeTypeOK' /\ CompileTypeOK'
  BY <1>4 DEF DeleteOutput, TreeTypeOK, CompileTypeOK, Records, runVars, taskVars, inputVars
<1>5. ASSUME NEW f \in Templates, LoseRecord(f)
      PROVE  TreeTypeOK' /\ CompileTypeOK'
  BY <1>5 DEF LoseRecord, TreeTypeOK, CompileTypeOK, Records, runVars, taskVars, inputVars
<1>6. TreeTypeOK' /\ CompileTypeOK'
  BY <1>2, <1>3, <1>4, <1>5 DEF UserStep
<1>7. UNCHANGED <<runVars, taskVars>>
  BY DEF UserStep, EditSource, EditOutput, DeleteOutput, LoseRecord
<1>8. TaskInv'
  BY <1>7 DEF TaskInv, GlobalsRead, NewIsCompiled, TasksOnlyWhileCompiling, runVars, taskVars
<1> QED
  BY <1>1, <1>6, <1>8

\* clean removes files and nothing else.
LEMMA CleanKeepsTypes ==
  ASSUME TreeTypeOK, CleanTypeOK, ListPairs \/ CleanStep \/ CleanCrash
  PROVE  TreeTypeOK' /\ CleanTypeOK'
<1>1. CASE ListPairs
  BY <1>1 DEF ListPairs, TreeTypeOK, CleanTypeOK, treeVars
<1>2. ASSUME NEW pair \in Pairs, ComparePair(pair)
      PROVE  TreeTypeOK' /\ CleanTypeOK'
  <2>1. out[pair[1]] # Absent => out[pair[1]] \in Texts
    BY DEF TreeTypeOK, Pairs
  <2>2. /\ \/ /\ job' = [pair |-> pair, text |-> out[pair[1]]]
              /\ out[pair[1]] \in Texts
           \/ UNCHANGED job
        /\ cleanPc' \in {"scan", "unlinkOutput"}
    BY <1>2, <2>1 DEF ComparePair, is_target_unchanged
  <2> QED
    BY <1>2, <2>2 DEF ComparePair, TreeTypeOK, CleanTypeOK, treeVars
<1>3. ASSUME NEW pair \in Pairs, OutputVanished(pair)
      PROVE  TreeTypeOK' /\ CleanTypeOK'
  BY <1>3 DEF OutputVanished, TreeTypeOK, CleanTypeOK, treeVars
<1>4. CASE UnlinkOutput
  BY <1>4 DEF UnlinkOutput, TreeTypeOK, CleanTypeOK
<1>5. CASE UnlinkHash
  BY <1>5 DEF UnlinkHash, TreeTypeOK, CleanTypeOK, Records
<1>6. CASE CleanEnds
  BY <1>6 DEF CleanEnds, TreeTypeOK, CleanTypeOK, treeVars
<1>7. CASE CleanCrash
  BY <1>7 DEF CleanCrash, TreeTypeOK, CleanTypeOK, treeVars
<1> QED
  BY <1>1, <1>2, <1>3, <1>4, <1>5, <1>6, <1>7 DEF CleanStep

(***************************************************************************)
(* Type correctness                                                        *)
(***************************************************************************)

LEMMA InitTypes == Init => TypeOK /\ TaskInv
<1> SUFFICES ASSUME Init PROVE TypeOK /\ TaskInv
  OBVIOUS
<1>1. out \in [Templates -> Texts \cup {Absent}] /\ oldHash \in [Templates -> Records]
  BY CompiledTextsAreTexts
  DEF Init, EmptyTree, LegacyTree, NoTexts, Records
<1>2. TreeTypeOK
  BY <1>1 DEF TreeTypeOK, Init, EmptyTree, LegacyTree, NoTexts, Records
<1>3. CompileTypeOK
  BY DEF Init, CompileInit, CompileTypeOK, NoTasks, NoTexts, Rest, TaskStates, Ended
<1>4. CleanTypeOK
  BY DEF Init, CleanInit, CleanTypeOK
<1>5. TaskInv
  BY DEF Init, CompileInit, TaskInv, GlobalsRead, NewIsCompiled,
         TasksOnlyWhileCompiling, NoTasks, InFlight, Holding
<1> QED
  BY <1>2, <1>3, <1>4, <1>5, WorkspaceAssumption DEF TypeOK, Init

LEMMA StepTypes ==
  ASSUME TypeOK, TaskInv, [Next]_vars
  PROVE  TypeOK' /\ TaskInv'
<1> USE DEF TypeOK
<1>1. CASE UserStep
  BY <1>1, UserKeepsTypes
<1>2. CASE Compile
  <2>1. CleanTypeOK' /\ UNCHANGED <<edits, faults, cleans>>
    BY <1>2 DEF Compile, CleanTypeOK, cleanVars
  <2>2. ASSUME NEW p \in Procs, RunStep(p)
        PROVE  TreeTypeOK' /\ CompileTypeOK' /\ TaskInv'
    BY <2>2, RunStepKeepsTypes, RunStepKeepsTasks
  <2>3. ASSUME NEW p \in Procs, NEW f \in Templates, TaskStep(p, f)
        PROVE  TreeTypeOK' /\ CompileTypeOK' /\ TaskInv'
    BY <2>3, TaskStepKeepsTypes, TaskStepKeepsTasks
  <2> QED
    BY <1>2, <2>1, <2>2, <2>3 DEF Compile, CompileStep
<1>3. CASE CompileFails
  <2>1. CleanTypeOK' /\ UNCHANGED <<edits, cleans>> /\ faults' \in 0..MaxFaults
    BY <1>3, WorkspaceAssumption DEF CompileFails, CleanTypeOK, cleanVars
  <2> QED
    BY <1>3, <2>1, FaultKeepsTypes, FaultKeepsTasks DEF CompileFails
<1>4. CASE StartClean \/ Clean \/ CleanFails
  <2>1. TreeTypeOK' /\ CleanTypeOK'
    BY <1>4, CleanKeepsTypes DEF StartClean, Clean, CleanFails
  <2>2. /\ UNCHANGED <<runVars, taskVars, inputVars, edits>>
        /\ faults' \in 0..MaxFaults /\ cleans' \in 0..MaxCleans
    BY <1>4, WorkspaceAssumption DEF StartClean, Clean, CleanFails
  <2>3. CompileTypeOK' /\ TaskInv'
    BY <2>2 DEF CompileTypeOK, TaskInv, GlobalsRead, NewIsCompiled,
                TasksOnlyWhileCompiling, runVars, taskVars, inputVars
  <2> QED
    BY <2>1, <2>2, <2>3
<1>5. CASE UNCHANGED vars
  BY <1>5 DEF TreeTypeOK, CompileTypeOK, CleanTypeOK, TaskInv, GlobalsRead,
              NewIsCompiled, TasksOnlyWhileCompiling,
              vars, compileVars, runVars, taskVars, inputVars, treeVars, cleanVars
<1> QED
  BY <1>1, <1>2, <1>3, <1>4, <1>5 DEF Next

\* Every variable of the workspace keeps its type.  A task needs the globals
\* of its run to have a text to publish, hence TaskInv beside the types.
THEOREM TypeCorrectness == Spec => [](TypeOK /\ TaskInv)
<1>1. Init => TypeOK /\ TaskInv
  BY InitTypes
<1>2. TypeOK /\ TaskInv /\ [Next]_vars => (TypeOK /\ TaskInv)'
  BY StepTypes
<1> QED
  BY <1>1, <1>2, PTL DEF Spec

(***************************************************************************)
(* A manual edit survives                                                  *)
(***************************************************************************)

\* A record says what bash2yaml wrote, if it says anything.
RecordsCompiled ==
  \A f \in Templates : /\ newHash[f] \in CompiledTexts \cup {Absent, Garbled}
                       /\ oldHash[f] \in CompiledTexts \cup {Absent, Garbled}

\* A task that is about to replace an output found no manual edit there.
PublishChecked ==
  \A p \in Procs, f \in Templates : task[p][f] = "publish" => ~ IsManual(seen[p][f])

\* The pair clean is about to remove held a compiled text.
RemovalChecked == cleanPc = "unlinkOutput" => job.text \in CompiledTexts

EditInv == RecordsCompiled /\ PublishChecked /\ RemovalChecked

\* Compiled data is never a manual edit, nor is the absence of a file.
LEMMA CompiledIsNotManual ==
  /\ \A t \in CompiledTexts : ~ IsManual(t) /\ t.doc \in CompiledDocs
  /\ ~ IsManual(Absent)
BY TreeAssumption DEF CompiledTexts, IsManual

\* The writer replaces a file that is not there, or data its record vouches
\* for; the record holds compiled data, so neither is a manual edit.
LEMMA VerdictSparesEdits ==
  ASSUME TreeTypeOK, RecordsCompiled, NEW f \in Templates, NEW t,
         Verdict(f, t) = "publish"
  PROVE  ~ IsManual(out[f])
<1>1. CASE out[f] = Absent
  BY <1>1, CompiledIsNotManual
<1>2. CASE out[f] # Absent
  <2>1. Vouched(f)
    BY <1>2 DEF Verdict
  <2>2. find_hash_file(f) \in CompiledTexts
    BY <2>1, TreeAssumption DEF Vouched, find_hash_file, RecordsCompiled
  <2> QED
    BY <2>1, <2>2, CompiledIsNotManual DEF Vouched, IsManual
<1> QED
  BY <1>1, <1>2

LEMMA InitEdits == Init => EditInv
BY DEF Init, EmptyTree, LegacyTree, CompileInit, CleanInit, EditInv, RecordsCompiled,
       PublishChecked, RemovalChecked, NoTexts, NoTasks, CompiledTexts, CompiledText,
       CompiledDocs

\* Only a task at its record, and migration, write records.
LEMMA CompileKeepsRecords ==
  ASSUME TypeOK, TaskInv, RecordsCompiled, Compile \/ CompileFails
  PROVE  RecordsCompiled'
<1>1. ASSUME NEW p \in Procs, NEW f \in Templates, LockOutput(p, f)
      PROVE  RecordsCompiled'
  BY <1>1 DEF LockOutput, migrate_hash_file, RecordsCompiled, TypeOK, TreeTypeOK
<1>2. ASSUME NEW p \in Procs, NEW f \in Templates, RecordHash(p, f)
      PROVE  RecordsCompiled'
  <2>1. new[p][f] \in CompiledTexts
    BY <1>2 DEF RecordHash, TaskInv, NewIsCompiled, InFlight, Holding
  <2> QED
    BY <1>2, <2>1 DEF RecordHash, RecordsCompiled, TypeOK, TreeTypeOK
<1>3. ASSUME NEW p \in Procs, NEW f \in Templates,
             Render(p, f) \/ CheckOutput(p, f) \/ PublishOutput(p, f)
      PROVE  UNCHANGED <<newHash, oldHash>>
  BY <1>3 DEF Render, CheckOutput, PublishOutput, treeVars
<1>4. ASSUME NEW p \in Procs, RunStep(p)
      PROVE  UNCHANGED <<newHash, oldHash>>
  BY <1>4
  DEF RunStep, Acquire, SkipUnchanged, StartCompilation, HaltOnStrays, MarkPending,
      ReadGlobals, EndCompiling, RaiseFailure, MarkCompiled, ClearPending, treeVars
<1>5. CompileFault => UNCHANGED <<newHash, oldHash>>
  BY DEF CompileFault, Crash, TaskFails, WorkerDies, treeVars
<1>6. UNCHANGED <<newHash, oldHash>> => RecordsCompiled'
  BY DEF RecordsCompiled
<1> QED
  BY <1>1, <1>2, <1>3, <1>4, <1>5, <1>6
  DEF Compile, CompileFails, CompileStep, TaskStep

\* A task reaches "publish" through the integrity check alone.
LEMMA CompileKeepsPublishChecked ==
  ASSUME TreeTypeOK, CompileTypeOK, EditInv, Compile \/ CompileFails
  PROVE  PublishChecked'
<1> DEFINE Kept == \A q \in Procs, g \in Templates :
                     task'[q][g] = "publish" =>
                       task[q][g] = "publish" /\ seen'[q][g] = seen[q][g]
<1>0. ASSUME Kept PROVE PublishChecked'
  BY <1>0 DEF EditInv, PublishChecked
<1> USE DEF CompileTypeOK
<1>1. ASSUME NEW p \in Procs, NEW f \in Templates, CheckOutput(p, f)
      PROVE  PublishChecked'
  <2>1. CASE EndTask(p, f, Verdict(f, new[p][f])) /\ Verdict(f, new[p][f]) \in Ended
    <3>1. Kept
      BY <2>1 DEF EndTask, Ended
    <3> QED
      BY <3>1, <1>0
  <2>2. CASE /\ Verdict(f, new[p][f]) \in Holding
             /\ task' = [task EXCEPT ![p][f] = Verdict(f, new[p][f])]
             /\ seen' = [seen EXCEPT ![p][f] = out[f]]
    BY <2>2, VerdictSparesEdits DEF EditInv, PublishChecked
  <2> QED
    BY <1>1, <2>1, <2>2 DEF CheckOutput
<1>2. ASSUME NEW p \in Procs, NEW f \in Templates,
             Render(p, f) \/ LockOutput(p, f) \/ PublishOutput(p, f)
      PROVE  Kept
  <2>1. CASE Render(p, f)
    BY <2>1 DEF Render
  <2>2. CASE LockOutput(p, f)
    BY <2>2 DEF LockOutput
  <2>3. CASE PublishOutput(p, f)
    BY <2>3 DEF PublishOutput
  <2> QED
    BY <1>2, <2>1, <2>2, <2>3
<1>3. ASSUME NEW p \in Procs, NEW f \in Templates,
             RecordHash(p, f) \/ TaskFails(p, f) \/ WorkerDies(p, f)
      PROVE  Kept
  <2>1. PICK how \in Ended \cup {"lost"} : EndTask(p, f, how)
    BY <1>3 DEF RecordHash, TaskFails, WorkerDies, Ended
  <2> QED
    BY <2>1 DEF EndTask, Ended
<1>4. ASSUME NEW p \in Procs, RunStep(p)
      PROVE  Kept
  <2>1. CASE UNCHANGED taskVars
    BY <2>1 DEF taskVars
  <2>2. CASE UNCHANGED <<new, seen, outLock>> /\ task' = [task EXCEPT ![p] = NoTasks]
    BY <2>2 DEF NoTasks
  <2>3. CASE ReadGlobals(p)
    BY <2>3 DEF ReadGlobals
  <2> QED
    BY <1>4, <2>1, <2>2, <2>3
    DEF RunStep, Acquire, SkipUnchanged, StartCompilation, HaltOnStrays, MarkPending,
        EndCompiling, RaiseFailure, MarkCompiled, ClearPending
<1>5. ASSUME NEW p \in Procs, Crash(p)
      PROVE  Kept
  BY <1>5 DEF Crash
<1> QED
  BY <1>0, <1>1, <1>2, <1>3, <1>4, <1>5
  DEF Compile, CompileFails, CompileStep, CompileFault, TaskStep

LEMMA StepEdits ==
  ASSUME TypeOK, TaskInv, EditInv, [Next]_vars
  PROVE  EditInv'
<1>1. CASE UserStep
  <2>1. RecordsCompiled'
    BY <1>1
    DEF UserStep, EditSource, EditOutput, DeleteOutput, LoseRecord, EditInv,
        RecordsCompiled, TypeOK, TreeTypeOK, treeVars
  <2>2. UNCHANGED <<taskVars, cleanVars>>
    BY <1>1 DEF UserStep, EditSource, EditOutput, DeleteOutput, LoseRecord
  <2> QED
    BY <2>1, <2>2 DEF EditInv, PublishChecked, RemovalChecked, taskVars, cleanVars
<1>2. CASE Compile \/ CompileFails
  <2>1. UNCHANGED cleanVars
    BY <1>2 DEF Compile, CompileFails
  <2> QED
    BY <1>2, <2>1, CompileKeepsRecords, CompileKeepsPublishChecked
    DEF EditInv, RemovalChecked, cleanVars, TypeOK
<1>3. CASE StartClean \/ Clean \/ CleanFails
  <2>1. PublishChecked'
    BY <1>3 DEF StartClean, Clean, CleanFails, EditInv, PublishChecked, taskVars
  <2>2. RecordsCompiled'
    BY <1>3
    DEF StartClean, Clean, CleanFails, ListPairs, CleanStep, ComparePair,
        OutputVanished, UnlinkOutput, UnlinkHash, CleanEnds, CleanCrash, EditInv,
        RecordsCompiled, TypeOK, TreeTypeOK, treeVars
  <2>3. ASSUME NEW pair \in Pairs, ComparePair(pair)
        PROVE  RemovalChecked'
    <3>1. RecordAt(pair[1], pair[2]) \in CompiledTexts \cup {Absent, Garbled}
      BY DEF Pairs, RecordAt, EditInv, RecordsCompiled
    <3> QED
      BY <2>3, <3>1, TreeAssumption
      DEF ComparePair, is_target_unchanged, RemovalChecked, EditInv
  <2>4. ASSUME ~ \E pair \in Pairs : ComparePair(pair)
        PROVE  RemovalChecked'
    BY <1>3, <2>4
    DEF StartClean, Clean, CleanFails, ListPairs, CleanStep, OutputVanished,
        UnlinkOutput, UnlinkHash, CleanEnds, CleanCrash, RemovalChecked
  <2> QED
    BY <2>1, <2>2, <2>3, <2>4 DEF EditInv
<1>4. CASE UNCHANGED vars
  BY <1>4 DEF EditInv, RecordsCompiled, PublishChecked, RemovalChecked,
              vars, compileVars, taskVars, treeVars, cleanVars
<1> QED
  BY <1>1, <1>2, <1>3, <1>4 DEF Next

\* The workers and clean do what their checks entitle them to.
THEOREM ChecksPrecedeWrites == Spec => []EditInv
<1>1. Init => EditInv
  BY InitEdits
<1>2. TypeOK /\ TaskInv /\ EditInv /\ [Next]_vars => EditInv'
  BY StepEdits
<1> QED
  BY <1>1, <1>2, TypeCorrectness, PTL DEF Spec

\* What PublishOutput replaces is no manual edit, unless the edit came after
\* the check.
LEMMA PublishSparesEdits ==
  ASSUME TypeOK, EditInv, NEW p \in Procs, NEW f \in Templates, PublishOutput(p, f),
         NEW g \in Templates, IsManual(out[g]), out'[g] # out[g]
  PROVE  task[p][g] = "publish" /\ seen[p][g] # out[g]
<1>1. g = f /\ task[p][f] = "publish"
  BY DEF PublishOutput, TypeOK, TreeTypeOK
<1> QED
  BY <1>1 DEF EditInv, PublishChecked

\* The same of what clean unlinks.
LEMMA RemovalSparesEdits ==
  ASSUME TypeOK, EditInv, UnlinkOutput,
         NEW g \in Templates, IsManual(out[g]), out'[g] # out[g]
  PROVE  cleanPc = "unlinkOutput" /\ job.pair[1] = g /\ job.text # out[g]
<1>1. cleanPc = "unlinkOutput" /\ job.pair[1] = g
  BY DEF UnlinkOutput, TypeOK, TreeTypeOK
<1>2. job.text \in CompiledTexts
  BY <1>1 DEF EditInv, RemovalChecked
<1> QED
  BY <1>1, <1>2, CompiledIsNotManual

\* A manual edit of a compiled file disappears by the user's hand only, or
\* because it came after the check of a compile or clean under way
\* (_write_compiled_file, clean_targets).
THEOREM ManualEditsSurvive == Spec => EditsSurvive
<1> DEFINE Survives ==
      \A f \in Templates :
        IsManual(out[f]) /\ out'[f] # out[f] =>
          \/ edits' # edits
          \/ \E p \in Procs : task[p][f] = "publish" /\ seen[p][f] # out[f]
          \/ cleanPc = "unlinkOutput" /\ job.pair[1] = f /\ job.text # out[f]
<1>1. ASSUME TypeOK, EditInv, [Next]_vars
      PROVE  Survives
  <2>1. CASE UserStep
    BY <1>1, <2>1 DEF UserStep, TypeOK
  <2>2. CASE Compile \/ CompileFails
    <3>1. ASSUME NEW p \in Procs, NEW f \in Templates, PublishOutput(p, f)
          PROVE  Survives
      BY <1>1, <3>1, PublishSparesEdits
    <3>2. ASSUME NEW p \in Procs, NEW f \in Templates,
                 Render(p, f) \/ LockOutput(p, f) \/ CheckOutput(p, f) \/ RecordHash(p, f)
          PROVE  UNCHANGED out
      BY <3>2 DEF Render, LockOutput, CheckOutput, RecordHash, treeVars
    <3>3. ASSUME NEW p \in Procs, RunStep(p)
          PROVE  UNCHANGED out
      BY <3>3
      DEF RunStep, Acquire, SkipUnchanged, StartCompilation, HaltOnStrays, MarkPending,
          ReadGlobals, EndCompiling, RaiseFailure, MarkCompiled, ClearPending, treeVars
    <3>4. CompileFault => UNCHANGED out
      BY DEF CompileFault, Crash, TaskFails, WorkerDies, treeVars
    <3> QED
      BY <2>2, <3>1, <3>2, <3>3, <3>4 DEF Compile, CompileFails, CompileStep, TaskStep
  <2>3. CASE StartClean \/ Clean \/ CleanFails
    <3>1. CASE UnlinkOutput
      BY <1>1, <3>1, RemovalSparesEdits
    <3>2. ASSUME ~ UnlinkOutput
          PROVE  UNCHANGED out
      BY <2>3, <3>2
      DEF StartClean, Clean, CleanFails, ListPairs, CleanStep, ComparePair,
          OutputVanished, UnlinkHash, CleanEnds, CleanCrash, treeVars
    <3> QED
      BY <3>1, <3>2
  <2>4. CASE UNCHANGED vars
    BY <2>4 DEF vars, compileVars, treeVars
  <2> QED
    BY <1>1, <2>1, <2>2, <2>3, <2>4 DEF Next
<1>2. TypeOK /\ EditInv /\ [Next]_vars => [Survives]_vars
  BY <1>1
<1> QED
  BY <1>2, TypeCorrectness, ChecksPrecedeWrites, PTL DEF Spec, EditsSurvive

(***************************************************************************)
(* Publication: the lock of an output keeps the pair of output and record  *)
(* together, so that whichever runs compile a template at once, one that   *)
(* succeeds leaves them in agreement.                                      *)
(***************************************************************************)

\* The output's lock is held exactly by the task in its critical section.
LockOwned ==
  \A p \in Procs, f \in Templates : task[p][f] \in Holding <=> outLock[f] = p

\* Between the two writes the output is what the task wrote or found there,
\* unless a user or clean came in between.
RecordFollowsOutput ==
  \A p \in Procs, f \in Templates :
    task[p][f] = "record" => out[f] = new[p][f] \/ out[f] \notin CompiledTexts

PublishInv == LockOwned /\ RecordFollowsOutput

\* Two tasks are never in the critical section of one output.
LEMMA OneWriter ==
  ASSUME LockOwned, NEW f \in Templates, NEW p \in Procs, NEW q \in Procs,
         task[p][f] \in Holding, task[q][f] \in Holding
  PROVE  p = q
BY DEF LockOwned

\* When every chunk is over no task is under way.
LEMMA ChunksOverMeansIdle ==
  ASSUME NEW p \in Procs, \A c \in Chunks : ChunkOver(p, c), NEW f \in Templates
  PROVE  task[p][f] \notin InFlight
BY CompileAssumption DEF ChunkOver, ChunkIdle

LEMMA InitPublish == Init => PublishInv
BY CompileAssumption
DEF Init, CompileInit, PublishInv, LockOwned, RecordFollowsOutput, NoTasks, Holding

\* The main thread of a run starts and drops only tasks that hold no lock.
LEMMA RunStepKeepsLocks ==
  ASSUME CompileTypeOK, TaskInv, PublishInv, NEW p \in Procs, RunStep(p)
  PROVE  PublishInv'
<1> DEFINE Same == \A q \in Procs, g \in Templates :
                     /\ task'[q][g] \in Holding <=> task[q][g] \in Holding
                     /\ task'[q][g] = "record" => task[q][g] = "record"
<1>0. UNCHANGED <<out, new, outLock>>
  <2>1. UNCHANGED treeVars
    BY DEF RunStep, Acquire, SkipUnchanged, StartCompilation, HaltOnStrays, MarkPending,
           ReadGlobals, EndCompiling, RaiseFailure, MarkCompiled, ClearPending
  <2>2. UNCHANGED taskVars \/ UNCHANGED <<new, seen, outLock>>
    BY DEF RunStep, Acquire, SkipUnchanged, StartCompilation, HaltOnStrays, MarkPending,
           ReadGlobals, EndCompiling, RaiseFailure, MarkCompiled, ClearPending
  <2> QED
    BY <2>1, <2>2 DEF taskVars, treeVars
<1> USE DEF CompileTypeOK
<1>1. ASSUME UNCHANGED taskVars PROVE Same
  BY <1>1 DEF taskVars
<1>2. ASSUME \A g \in Templates : task[p][g] \notin InFlight,
             task' = [task EXCEPT ![p] = NoTasks]
      PROVE  Same
  BY <1>2 DEF NoTasks, InFlight, Holding
<1>3. ASSUME Acquire(p) PROVE Same
  BY <1>2, <1>3 DEF Acquire
<1>4. ASSUME ReadGlobals(p) PROVE Same
  <2>1. \A g \in Templates : task[p][g] = "none"
    BY <1>4 DEF ReadGlobals, TaskInv, TasksOnlyWhileCompiling
  <2> QED
    BY <1>4, <2>1 DEF ReadGlobals, Holding
<1>5. ASSUME EndCompiling(p) PROVE Same
  BY <1>2, <1>5, ChunksOverMeansIdle DEF EndCompiling
<1>6. ASSUME RaiseFailure(p) PROVE Same
  BY <1>2, <1>6, ChunksOverMeansIdle DEF RaiseFailure
<1>7. Same
  BY <1>1, <1>3, <1>4, <1>5, <1>6
  DEF RunStep, SkipUnchanged, StartCompilation, HaltOnStrays, MarkPending,
      MarkCompiled, ClearPending
<1> QED
  BY <1>0, <1>7 DEF PublishInv, LockOwned, RecordFollowsOutput

\* A task that ends releases the lock if it had it.
LEMMA EndTaskKeepsLocks ==
  ASSUME CompileTypeOK, PublishInv, NEW p \in Procs, NEW f \in Templates,
         NEW how \in Ended \cup {"lost"}, EndTask(p, f, how), UNCHANGED out
  PROVE  PublishInv'
<1>1. LockOwned'
  BY CompileAssumption
  DEF EndTask, CompileTypeOK, PublishInv, LockOwned, Holding, Ended
<1>2. RecordFollowsOutput'
  BY DEF EndTask, CompileTypeOK, PublishInv, RecordFollowsOutput, Ended
<1> QED
  BY <1>1, <1>2 DEF PublishInv

LEMMA TaskStepKeepsLocks ==
  ASSUME TreeTypeOK, CompileTypeOK, TaskInv, PublishInv,
         NEW p \in Procs, NEW f \in Templates, TaskStep(p, f)
  PROVE  PublishInv'
<1> USE DEF CompileTypeOK
<1>1. CASE Render(p, f)
  BY <1>1
  DEF Render, Ready, PublishInv, LockOwned, RecordFollowsOutput, Holding, treeVars
<1>2. CASE LockOutput(p, f)
  <2>1. LockOwned'
    BY <1>2, CompileAssumption DEF LockOutput, PublishInv, LockOwned, Holding
  <2>2. RecordFollowsOutput'
    BY <1>2 DEF LockOutput, PublishInv, RecordFollowsOutput
  <2> QED
    BY <2>1, <2>2 DEF PublishInv
<1>3. CASE CheckOutput(p, f)
  <2>1. CASE EndTask(p, f, Verdict(f, new[p][f])) /\ Verdict(f, new[p][f]) \in Ended
    BY <1>3, <2>1, EndTaskKeepsLocks DEF CheckOutput, treeVars
  <2>2. CASE /\ Verdict(f, new[p][f]) \in Holding
             /\ task' = [task EXCEPT ![p][f] = Verdict(f, new[p][f])]
             /\ UNCHANGED <<new, outLock>>
    <3>1. Verdict(f, new[p][f]) = "record" => out[f] = new[p][f]
      BY DEF Verdict
    <3>2. UNCHANGED out /\ task[p][f] \in Holding
      BY <1>3 DEF CheckOutput, treeVars, Holding
    <3>3. LockOwned'
      BY <2>2, <3>2 DEF PublishInv, LockOwned
    <3>4. RecordFollowsOutput'
      BY <2>2, <3>1, <3>2 DEF PublishInv, RecordFollowsOutput
    <3> QED
      BY <3>3, <3>4 DEF PublishInv
  <2> QED
    BY <1>3, <2>1, <2>2 DEF CheckOutput
<1>4. CASE PublishOutput(p, f)
  <2>1. LockOwned'
    BY <1>4 DEF PublishOutput, PublishInv, LockOwned, Holding
  <2>2. ASSUME NEW q \in Procs, NEW g \in Templates, task'[q][g] = "record"
        PROVE  out'[g] = new'[q][g] \/ out'[g] \notin CompiledTexts
    <3>1. CASE q = p /\ g = f
      BY <1>4, <3>1 DEF PublishOutput, TreeTypeOK
    <3>2. CASE g # f
      BY <1>4, <2>2, <3>2 DEF PublishOutput, PublishInv, RecordFollowsOutput, TreeTypeOK
    <3>3. CASE q # p /\ g = f
      BY <1>4, <2>2, <3>3, OneWriter DEF PublishOutput, PublishInv, Holding
    <3> QED
      BY <3>1, <3>2, <3>3
  <2> QED
    BY <2>1, <2>2 DEF PublishInv, RecordFollowsOutput
<1>5. CASE RecordHash(p, f)
  BY <1>5, EndTaskKeepsLocks DEF RecordHash, Ended
<1> QED
  BY <1>1, <1>2, <1>3, <1>4, <1>5 DEF TaskStep

\* A dead process leaves no lock behind: the operating system releases it.
LEMMA FaultKeepsLocks ==
  ASSUME CompileTypeOK, PublishInv, CompileFault
  PROVE  PublishInv'
<1>1. ASSUME NEW p \in Procs, NEW f \in Templates, TaskFails(p, f) \/ WorkerDies(p, f)
      PROVE  PublishInv'
  <2>1. PICK how \in Ended \cup {"lost"} : EndTask(p, f, how)
    BY <1>1 DEF TaskFails, WorkerDies, Ended
  <2>2. UNCHANGED out
    BY <1>1 DEF TaskFails, WorkerDies, treeVars
  <2> QED
    BY <2>1, <2>2, EndTaskKeepsLocks
<1>2. ASSUME NEW p \in Procs, Crash(p)
      PROVE  PublishInv'
  <2>1. LockOwned'
    BY <1>2, CompileAssumption DEF Crash, CompileTypeOK, PublishInv, LockOwned, Holding
  <2>2. RecordFollowsOutput'
    BY <1>2 DEF Crash, CompileTypeOK, PublishInv, RecordFollowsOutput, treeVars
  <2> QED
    BY <2>1, <2>2 DEF PublishInv
<1> QED
  BY <1>1, <1>2 DEF CompileFault

\* What a user or clean leaves in an output is no compiled text, or is what
\* was there.
LEMMA OthersLeaveNoCompiledText ==
  ASSUME TypeOK, UserStep \/ StartClean \/ Clean \/ CleanFails, NEW f \in Templates
  PROVE  out'[f] = out[f] \/ out'[f] \notin CompiledTexts
<1>1. Absent \notin CompiledTexts
  BY TreeAssumption, CompiledTextsAreTexts
<1>2. ASSUME NEW g \in Templates, EditOutput(g)
      PROVE  out'[f] = out[f] \/ out'[f] \notin CompiledTexts
  <2>1. out[g] \in Texts
    BY <1>2 DEF EditOutput, TypeOK, TreeTypeOK
  <2>2. /\ [out[g] EXCEPT !.doc = ManualDoc] \notin CompiledTexts
        /\ [out[g] EXCEPT !.doc = CorruptDoc] \notin CompiledTexts
        /\ [out[g] EXCEPT !.layout = "user"] \notin CompiledTexts
    BY <2>1, TreeAssumption DEF Texts, CompiledTexts
  <2> QED
    BY <1>2, <2>2 DEF EditOutput, TypeOK, TreeTypeOK
<1>3. ASSUME NEW g \in Templates, DeleteOutput(g)
      PROVE  out'[f] = out[f] \/ out'[f] \notin CompiledTexts
  BY <1>1, <1>3 DEF DeleteOutput, TypeOK, TreeTypeOK
<1>4. CASE UserStep
  BY <1>2, <1>3, <1>4 DEF UserStep, EditSource, LoseRecord, treeVars
<1>5. CASE StartClean \/ Clean \/ CleanFails
  BY <1>1, <1>5
  DEF StartClean, Clean, CleanFails, ListPairs, CleanStep, ComparePair, OutputVanished,
      UnlinkOutput, UnlinkHash, CleanEnds, CleanCrash, TypeOK, TreeTypeOK, treeVars
<1> QED
  BY <1>4, <1>5

LEMMA StepPublish ==
  ASSUME TypeOK, TaskInv, PublishInv, [Next]_vars
  PROVE  PublishInv'
<1>1. CASE Compile
  BY <1>1, RunStepKeepsLocks, TaskStepKeepsLocks DEF Compile, CompileStep, TypeOK
<1>2. CASE CompileFails
  BY <1>2, FaultKeepsLocks DEF CompileFails, TypeOK
<1>3. CASE UserStep \/ StartClean \/ Clean \/ CleanFails
  <2>1. UNCHANGED taskVars
    BY <1>3 DEF UserStep, EditSource, EditOutput, DeleteOutput, LoseRecord,
                StartClean, Clean, CleanFails
  <2> QED
    BY <1>3, <2>1, OthersLeaveNoCompiledText
    DEF PublishInv, LockOwned, RecordFollowsOutput, taskVars
<1>4. CASE UNCHANGED vars
  BY <1>4 DEF PublishInv, LockOwned, RecordFollowsOutput, vars, compileVars,
              taskVars, treeVars
<1> QED
  BY <1>1, <1>2, <1>3, <1>4 DEF Next

\* One writer per output, and the record it is about to write matches.
THEOREM OutputsAreLocked == Spec => []PublishInv
<1>1. Init => PublishInv
  BY InitPublish
<1>2. TypeOK /\ TaskInv /\ PublishInv /\ [Next]_vars => PublishInv'
  BY StepPublish
<1> QED
  BY <1>1, <1>2, TypeCorrectness, PTL DEF Spec

\* Only the task itself ends in success or is refused: by its record, or at
\* the check.
LEMMA OnlyTheTaskDecides ==
  ASSUME TypeOK, TaskInv, [Next]_vars, NEW p \in Procs, NEW f \in Templates,
         task[p][f] \in Holding, task'[p][f] \in {"done", "refused"}
  PROVE  \/ RecordHash(p, f) /\ task'[p][f] = "done"
         \/ CheckOutput(p, f) /\ Verdict(f, new[p][f]) = task'[p][f]
<1> USE DEF TypeOK, CompileTypeOK
<1>1. ~ UNCHANGED taskVars
  BY DEF taskVars, Holding
<1>2. ~ CompileFault
  <2>1. ASSUME NEW q \in Procs, NEW g \in Templates, TaskFails(q, g) \/ WorkerDies(q, g)
        PROVE  FALSE
    <3>1. PICK how \in {"failed", "lost"} : EndTask(q, g, how)
      BY <2>1 DEF TaskFails, WorkerDies
    <3> QED
      BY <3>1 DEF EndTask, Holding
  <2>2. ASSUME NEW q \in Procs, Crash(q)
        PROVE  FALSE
    BY <2>2 DEF Crash, Holding
  <2> QED
    BY <2>1, <2>2 DEF CompileFault
<1>3. ASSUME NEW q \in Procs, RunStep(q)
      PROVE  FALSE
  <2>1. CASE task' = [task EXCEPT ![q] = NoTasks]
    BY <2>1 DEF NoTasks, Holding
  <2>2. CASE ReadGlobals(q)
    BY <2>2 DEF ReadGlobals, Holding
  <2> QED
    BY <1>1, <1>3, <2>1, <2>2
    DEF RunStep, Acquire, SkipUnchanged, StartCompilation, HaltOnStrays, MarkPending,
        EndCompiling, RaiseFailure, MarkCompiled, ClearPending
<1>4. ASSUME NEW q \in Procs, NEW g \in Templates, TaskStep(q, g)
      PROVE  \/ RecordHash(p, f) /\ task'[p][f] = "done"
             \/ CheckOutput(p, f) /\ Verdict(f, new[p][f]) = task'[p][f]
  <2>0. ASSUME \A r \in Procs, h \in Templates :
                 ~ (r = q /\ h = g) => task'[r][h] = task[r][h]
        PROVE  q = p /\ g = f
    BY <2>0 DEF Holding
  <2>1. ASSUME Render(q, g) PROVE FALSE
    <3>1. /\ task'[q][g] = "rendered"
          /\ \A r \in Procs, h \in Templates :
               ~ (r = q /\ h = g) => task'[r][h] = task[r][h]
      BY <2>1 DEF Render
    <3> QED
      BY <2>0, <3>1
  <2>2. ASSUME LockOutput(q, g) PROVE FALSE
    <3>1. /\ task'[q][g] = "check"
          /\ \A r \in Procs, h \in Templates :
               ~ (r = q /\ h = g) => task'[r][h] = task[r][h]
      BY <2>2 DEF LockOutput
    <3> QED
      BY <2>0, <3>1
  <2>3. ASSUME PublishOutput(q, g) PROVE FALSE
    <3>1. /\ task'[q][g] = "record"
          /\ \A r \in Procs, h \in Templates :
               ~ (r = q /\ h = g) => task'[r][h] = task[r][h]
      BY <2>3 DEF PublishOutput
    <3> QED
      BY <2>0, <3>1
  <2>4. ASSUME RecordHash(q, g) PROVE q = p /\ g = f /\ task'[p][f] = "done"
    <3>1. task' = [task EXCEPT ![q][g] = "done"]
      BY <2>4 DEF RecordHash, EndTask
    <3>2. /\ task'[q][g] = "done"
          /\ \A r \in Procs, h \in Templates :
               ~ (r = q /\ h = g) => task'[r][h] = task[r][h]
      BY <3>1
    <3> QED
      BY <2>0, <3>2
  <2>5. ASSUME CheckOutput(q, g)
        PROVE  q = p /\ g = f /\ Verdict(f, new[p][f]) = task'[p][f]
    <3>1. task' = [task EXCEPT ![q][g] = Verdict(g, new[q][g])]
      BY <2>5 DEF CheckOutput, EndTask
    <3>2. /\ task'[q][g] = Verdict(g, new[q][g])
          /\ \A r \in Procs, h \in Templates :
               ~ (r = q /\ h = g) => task'[r][h] = task[r][h]
      BY <3>1
    <3> QED
      BY <2>0, <3>2
  <2> QED
    BY <1>4, <2>1, <2>2, <2>3, <2>4, <2>5 DEF TaskStep
<1> QED
  BY <1>1, <1>2, <1>3, <1>4
  DEF Next, UserStep, EditSource, EditOutput, DeleteOutput, LoseRecord, Compile,
      CompileStep, CompileFails, StartClean, Clean, CleanFails, vars, compileVars

\* A compilation that succeeds leaves an output and a record that agree
\* (_write_compiled_file), whatever else compiles, cleans or edits meanwhile.
THEOREM OutputAndRecordAgree == Spec => PublishedTogether
<1> DEFINE Agree(f) == \/ out'[f] \notin CompiledTexts
                       \/ find_hash_file(f)' \notin CompiledTexts
                       \/ out'[f] = find_hash_file(f)'
           Together == \A p \in Procs, f \in Templates :
                         task[p][f] \in Holding /\ task'[p][f] = "done" => Agree(f)
<1>1. ASSUME TypeOK, TaskInv, PublishInv, [Next]_vars,
             NEW p \in Procs, NEW f \in Templates,
             task[p][f] \in Holding, task'[p][f] = "done"
      PROVE  Agree(f)
  <2>1. new[p][f] \in CompiledTexts
    BY <1>1 DEF TaskInv, NewIsCompiled, InFlight
  <2>2. CASE RecordHash(p, f)
    <3>1. newHash'[f] = new[p][f] /\ newHash'[f] # Absent
      BY <1>1, <2>1, <2>2, TreeAssumption, CompiledTextsAreTexts
      DEF RecordHash, TypeOK, TreeTypeOK
    <3> QED
      BY <1>1, <2>2, <3>1 DEF RecordHash, find_hash_file, PublishInv, RecordFollowsOutput
  <2>3. CASE CheckOutput(p, f) /\ Verdict(f, new[p][f]) = "done"
    <3>1. UNCHANGED <<out, newHash, oldHash>>
      BY <2>3 DEF CheckOutput, treeVars
    <3>2. CASE out[f] = new[p][f]
      BY <2>1, <2>3, <3>1, <3>2, TreeAssumption, CompiledTextsAreTexts
      DEF Verdict, find_hash_file
    <3>3. CASE out[f] # new[p][f]
      <4>1. Vouched(f)
        BY <2>3, <3>3 DEF Verdict
      <4>2. out[f].doc = find_hash_file(f).doc
        BY <4>1 DEF Vouched
      <4>3. find_hash_file(f)' = find_hash_file(f)
        BY <3>1 DEF find_hash_file
      <4> QED
        BY <3>1, <4>2, <4>3 DEF CompiledTexts
    <3> QED
      BY <3>2, <3>3
  <2>4. RecordHash(p, f) \/ (CheckOutput(p, f) /\ Verdict(f, new[p][f]) = "done")
    BY <1>1, OnlyTheTaskDecides
  <2> QED
    BY <2>2, <2>3, <2>4
<1>2. TypeOK /\ TaskInv /\ PublishInv /\ [Next]_vars => [Together]_vars
  BY <1>1
<1> QED
  BY <1>2, TypeCorrectness, OutputsAreLocked, PTL DEF Spec, PublishedTogether

(***************************************************************************)
(* What a run publishes, with or without a pool: text of the sources as    *)
(* they are, unless the run was killed and a worker lived on.              *)
(***************************************************************************)

\* A task belongs to a run that compiles, or did when it was killed.
TasksInCompilation ==
  \A p \in Procs, f \in Templates :
    task[p][f] \in InFlight \cup {"todo"} => pc[p] \in {"compiling", "crashed"}

\* What a run under way has compiled, it would compile again.
LiveTextsAreCurrent ==
  \A p \in Procs, f \in Templates :
    task[p][f] \in InFlight /\ pc[p] = "compiling" =>
      new[p][f] = CompiledText(src[f], src[Globals])

LiveInv == SourcesRead /\ TasksInCompilation /\ LiveTextsAreCurrent

\* The main thread reads the globals as it starts its tasks.
LEMMA RunStepKeepsLive ==
  ASSUME CompileTypeOK, LiveInv, NEW p \in Procs, RunStep(p)
  PROVE  LiveInv'
<1> SUFFICES /\ \A q \in Procs : pc'[q] = "compiling" => globals'[q] = src'[Globals]
             /\ \A q \in Procs, f \in Templates :
                  /\ task'[q][f] \in InFlight \cup {"todo"} => pc'[q] \in {"compiling", "crashed"}
                  /\ task'[q][f] \in InFlight /\ pc'[q] = "compiling" =>
                       new'[q][f] = CompiledText(src'[f], src'[Globals])
  BY DEF LiveInv, SourcesRead, TasksInCompilation, LiveTextsAreCurrent
<1> USE DEF CompileTypeOK, LiveInv, SourcesRead, TasksInCompilation, LiveTextsAreCurrent
<1>0. "none" \notin InFlight /\ "todo" \notin InFlight
  BY DEF InFlight, Holding
<1>1. CASE Acquire(p)
  BY <1>0, <1>1 DEF Acquire, NoTasks, inputVars
<1>2. CASE SkipUnchanged(p)
  BY <1>2 DEF SkipUnchanged, EndRun, taskVars, inputVars
<1>3. CASE \E force \in BOOLEAN : StartCompilation(p, force)
  BY <1>3 DEF StartCompilation, Goto, taskVars, inputVars
<1>4. CASE HaltOnStrays(p)
  BY <1>4 DEF HaltOnStrays, EndRun, taskVars, inputVars
<1>5. CASE MarkPending(p)
  BY <1>5 DEF MarkPending, Goto, taskVars
<1>6. CASE ReadGlobals(p)
  BY <1>0, <1>6 DEF ReadGlobals, inputVars
<1>7. CASE EndCompiling(p)
  BY <1>0, <1>7 DEF EndCompiling, Goto, NoTasks, inputVars
<1>8. CASE RaiseFailure(p)
  BY <1>0, <1>8 DEF RaiseFailure, EndRun, NoTasks, inputVars
<1>9. CASE \E i \in Inputs : MarkCompiled(p, i)
  BY <1>9 DEF MarkCompiled, taskVars
<1>10. CASE ClearPending(p)
  BY <1>10 DEF ClearPending, EndRun, taskVars
<1> QED
  BY <1>1, <1>2, <1>3, <1>4, <1>5, <1>6, <1>7, <1>8, <1>9, <1>10 DEF RunStep

\* A task that goes on keeps its text; one that ends needs none.
LEMMA TaskKeepsLive ==
  ASSUME CompileTypeOK, LiveInv, NEW p \in Procs, NEW f \in Templates, NEW how,
         task' = [task EXCEPT ![p][f] = how], how # "todo",
         how \in InFlight => task[p][f] \in InFlight /\ new' = new,
         \A q \in Procs, g \in Templates :
           ~ (q = p /\ g = f) => new'[q][g] = new[q][g],
         UNCHANGED <<runVars, inputVars>>
  PROVE  LiveInv'
<1>1. SourcesRead'
  BY DEF LiveInv, SourcesRead, runVars, inputVars
<1>2. TasksInCompilation'
  BY DEF CompileTypeOK, LiveInv, TasksInCompilation, runVars
<1>3. LiveTextsAreCurrent'
  BY DEF CompileTypeOK, LiveInv, LiveTextsAreCurrent, runVars, inputVars
<1> QED
  BY <1>1, <1>2, <1>3 DEF LiveInv

LEMMA EndTaskKeepsLive ==
  ASSUME CompileTypeOK, LiveInv, NEW p \in Procs, NEW f \in Templates,
         NEW how \in Ended \cup {"lost"}, EndTask(p, f, how),
         UNCHANGED <<runVars, inputVars>>
  PROVE  LiveInv'
BY TaskKeepsLive DEF EndTask, CompileTypeOK, Ended, InFlight, Holding

LEMMA TaskStepKeepsLive ==
  ASSUME CompileTypeOK, LiveInv, NEW p \in Procs, NEW f \in Templates, TaskStep(p, f)
  PROVE  LiveInv'
<1>1. CASE Render(p, f)
  <2>1. pc[p] \in {"compiling", "crashed"} /\ (pc[p] = "compiling" => globals[p] = src[Globals])
    BY <1>1 DEF Render, Ready, LiveInv, TasksInCompilation, SourcesRead
  <2>2. SourcesRead'
    BY <1>1 DEF Render, LiveInv, SourcesRead, runVars, inputVars
  <2>3. TasksInCompilation'
    BY <1>1, <2>1 DEF Render, CompileTypeOK, LiveInv, TasksInCompilation, runVars
  <2>4. LiveTextsAreCurrent'
    BY <1>1, <2>1 DEF Render, CompileTypeOK, LiveInv, LiveTextsAreCurrent, runVars, inputVars
  <2> QED
    BY <2>2, <2>3, <2>4 DEF LiveInv
<1>2. CASE LockOutput(p, f)
  BY <1>2, TaskKeepsLive DEF LockOutput, InFlight, Holding
<1>3. CASE CheckOutput(p, f)
  <2>1. CASE EndTask(p, f, Verdict(f, new[p][f])) /\ Verdict(f, new[p][f]) \in Ended
    BY <1>3, <2>1, EndTaskKeepsLive DEF CheckOutput
  <2>2. CASE /\ Verdict(f, new[p][f]) \in Holding
             /\ task' = [task EXCEPT ![p][f] = Verdict(f, new[p][f])]
             /\ UNCHANGED new
    BY <1>3, <2>2, TaskKeepsLive DEF CheckOutput, InFlight, Holding
  <2> QED
    BY <1>3, <2>1, <2>2 DEF CheckOutput
<1>4. CASE PublishOutput(p, f)
  BY <1>4, TaskKeepsLive DEF PublishOutput, InFlight, Holding
<1>5. CASE RecordHash(p, f)
  BY <1>5, EndTaskKeepsLive DEF RecordHash, Ended
<1> QED
  BY <1>1, <1>2, <1>3, <1>4, <1>5 DEF TaskStep

\* A killed run is under way no more; the others are as they were.
LEMMA FaultKeepsLive ==
  ASSUME CompileTypeOK, LiveInv, CompileFault
  PROVE  LiveInv'
<1>1. ASSUME NEW p \in Procs, NEW f \in Templates, TaskFails(p, f)
      PROVE  LiveInv'
  BY <1>1, EndTaskKeepsLive DEF TaskFails, Ended
<1>2. ASSUME NEW p \in Procs, NEW f \in Templates, WorkerDies(p, f)
      PROVE  LiveInv'
  BY <1>2, EndTaskKeepsLive DEF WorkerDies
<1>3. ASSUME NEW p \in Procs, Crash(p)
      PROVE  LiveInv'
  <2>1. /\ \A q \in Procs : q # p => task'[q] = task[q] /\ new'[q] = new[q]
        /\ pc' = [pc EXCEPT ![p] = "crashed"]
        /\ UNCHANGED <<globals, inputVars>>
    BY <1>3 DEF Crash, CompileTypeOK
  <2> QED
    BY <2>1 DEF CompileTypeOK, LiveInv, SourcesRead, TasksInCompilation, LiveTextsAreCurrent, inputVars
<1> QED
  BY <1>1, <1>2, <1>3 DEF CompileFault

\* Nobody else touches a run, and the sources are left alone while one compiles.
LEMMA OthersKeepLive ==
  ASSUME LiveInv, "running" \notin EditWhen,
         UserStep \/ StartClean \/ Clean \/ CleanFails \/ UNCHANGED vars
  PROVE  LiveInv'
<1>1. UNCHANGED <<runVars, taskVars>>
  BY DEF UserStep, EditSource, EditOutput, DeleteOutput, LoseRecord, StartClean, Clean, CleanFails,
         vars, compileVars
<1>2. src' = src \/ ~ SourcesInUse
  BY DEF UserStep, EditSource, EditOutput, DeleteOutput, LoseRecord, StartClean, Clean, CleanFails,
         Situation, inputVars, vars, compileVars
<1> QED
  BY <1>1, <1>2 DEF LiveInv, SourcesRead, TasksInCompilation, LiveTextsAreCurrent, SourcesInUse,
                    runVars, taskVars

\* Only PublishOutput takes a task from its check to the record.
LEMMA OnlyThePublisherPublishes ==
  ASSUME TypeOK, [Next]_vars, NEW p \in Procs, NEW f \in Templates,
         task[p][f] = "publish", task'[p][f] = "record"
  PROVE  PublishOutput(p, f)
<1> USE DEF TypeOK, CompileTypeOK
<1>1. ~ UNCHANGED taskVars
  BY DEF taskVars
<1>2. ~ CompileFault
  <2>1. ASSUME NEW q \in Procs, NEW g \in Templates, TaskFails(q, g) \/ WorkerDies(q, g)
        PROVE  FALSE
    <3>1. PICK how \in {"failed", "lost"} : EndTask(q, g, how)
      BY <2>1 DEF TaskFails, WorkerDies
    <3> QED
      BY <3>1 DEF EndTask
  <2>2. ASSUME NEW q \in Procs, Crash(q)
        PROVE  FALSE
    BY <2>2 DEF Crash
  <2> QED
    BY <2>1, <2>2 DEF CompileFault
<1>3. ASSUME NEW q \in Procs, RunStep(q)
      PROVE  FALSE
  <2>1. CASE task' = [task EXCEPT ![q] = NoTasks]
    BY <2>1 DEF NoTasks
  <2>2. CASE ReadGlobals(q)
    BY <2>2 DEF ReadGlobals
  <2> QED
    BY <1>1, <1>3, <2>1, <2>2
    DEF RunStep, Acquire, SkipUnchanged, StartCompilation, HaltOnStrays, MarkPending,
        EndCompiling, RaiseFailure, MarkCompiled, ClearPending
<1>4. ASSUME NEW q \in Procs, NEW g \in Templates, TaskStep(q, g)
      PROVE  PublishOutput(p, f)
  <2>0. ASSUME NEW how, task' = [task EXCEPT ![q][g] = how] PROVE how = "record"
    <3>1. /\ task'[q][g] = how
          /\ \A r \in Procs, h \in Templates : ~ (r = q /\ h = g) => task'[r][h] = task[r][h]
      BY <2>0
    <3> QED
      BY <3>1
  <2>1. ~ Render(q, g)
    BY <2>0 DEF Render
  <2>2. ~ LockOutput(q, g)
    BY <2>0 DEF LockOutput
  <2>3. ~ RecordHash(q, g)
    BY <2>0 DEF RecordHash, EndTask
  <2>4. ~ CheckOutput(q, g)
    <3>1. ASSUME CheckOutput(q, g) PROVE task[q][g] = "check" /\ task'[q][g] = "record"
                   /\ \A r \in Procs, h \in Templates : ~ (r = q /\ h = g) => task'[r][h] = task[r][h]
      <4>1. task' = [task EXCEPT ![q][g] = Verdict(g, new[q][g])]
        BY <3>1 DEF CheckOutput, EndTask
      <4> QED
        BY <2>0, <3>1, <4>1 DEF CheckOutput
    <3> QED
      BY <3>1
  <2>5. PublishOutput(q, g) => q = p /\ g = f
    BY DEF PublishOutput
  <2> QED
    BY <1>4, <2>1, <2>2, <2>3, <2>4, <2>5 DEF TaskStep
<1> QED
  BY <1>1, <1>2, <1>3, <1>4
  DEF Next, UserStep, EditSource, EditOutput, DeleteOutput, LoseRecord, Compile,
      CompileStep, CompileFails, StartClean, Clean, CleanFails, vars, compileVars

\* A run under way has compiled its sources as they are (compile_single_file), if
\* nobody edits them while it compiles, on its main thread or in the pool.
THEOREM LiveRunsAreCurrent ==
  ASSUME "running" \notin EditWhen
  PROVE  Spec => []LiveInv
<1>1. Init => LiveInv
  BY DEF Init, CompileInit, LiveInv, SourcesRead, TasksInCompilation, LiveTextsAreCurrent,
         NoTasks, InFlight, Holding
<1>2. ASSUME TypeOK, LiveInv, [Next]_vars
      PROVE  LiveInv'
  BY <1>2, RunStepKeepsLive, TaskStepKeepsLive, FaultKeepsLive, OthersKeepLive
  DEF Next, Compile, CompileStep, CompileFails, TypeOK
<1>3. TypeOK /\ LiveInv /\ [Next]_vars => LiveInv'
  BY <1>2
<1> QED
  BY <1>1, <1>3, TypeCorrectness, PTL DEF Spec

\* Text of older sources is published by workers of killed runs only, for any
\* templates, chunks and runs (starmap in run_compile_all).
THEOREM OrphansAlonePublishStale ==
  ASSUME "running" \notin EditWhen
  PROVE  Spec => StaleComesFromOrphans
<1> DEFINE FromOrphans == \A p \in Procs, f \in Templates :
             task[p][f] = "publish" /\ task'[p][f] = "record" => UpToDate(f)' \/ pc[p] = "crashed"
<1>1. ASSUME TypeOK, TaskInv, LiveInv, [Next]_vars,
             NEW p \in Procs, NEW f \in Templates,
             task[p][f] = "publish", task'[p][f] = "record", pc[p] # "crashed"
      PROVE  UpToDate(f)'
  <2>1. PublishOutput(p, f)
    BY <1>1, OnlyThePublisherPublishes
  <2>2. new[p][f] = CompiledText(src[f], src[Globals]) /\ new[p][f] \in CompiledTexts
    BY <1>1 DEF LiveInv, TasksInCompilation, LiveTextsAreCurrent, TaskInv, NewIsCompiled,
                InFlight, Holding
  <2>3. out'[f] = new[p][f] /\ new[p][f] # Absent /\ src' = src
    BY <1>1, <2>1, <2>2, TreeAssumption, CompiledTextsAreTexts
    DEF PublishOutput, TypeOK, TreeTypeOK, inputVars
  <2> QED
    BY <2>2, <2>3 DEF UpToDate
<1>2. TypeOK /\ TaskInv /\ LiveInv /\ [Next]_vars => [FromOrphans]_vars
  BY <1>1
<1> QED
  BY <1>2, TypeCorrectness, LiveRunsAreCurrent, PTL DEF Spec, StaleComesFromOrphans

(***************************************************************************)
(* Records without an output                                               *)
(***************************************************************************)

\* What may leave a record of f behind.
Explained(f) ==
  \/ edits' # edits
  \/ cleanPc = "unlinkHash" /\ job.pair[1] = f /\ faults' # faults
  \/ /\ cleanPc = "unlinkHash" /\ job.pair[1] = f
     /\ \E place \in {"new", "old"} : place # job.pair[2] /\ RecordAt(f, place) # Absent
  \/ \E p \in Procs : task[p][f] = "record" /\ task'[p][f] = "done"

\* A task leaves a record without output only by writing it, when the output is gone.
LEMMA TasksLeaveNoOrphan ==
  ASSUME TypeOK, TaskInv, NEW p \in Procs, NEW g \in Templates, TaskStep(p, g), UNCHANGED cleanVars,
         NEW f \in Templates, OrphanRecord(f)', ~ OrphanRecord(f)
  PROVE  task[p][f] = "record" /\ task'[p][f] = "done"
<1> USE DEF TypeOK, TreeTypeOK, CompileTypeOK
<1>1. ASSUME UNCHANGED treeVars PROVE FALSE
  BY <1>1 DEF OrphanRecord, find_hash_file, treeVars, cleanVars
<1>2. ASSUME LockOutput(p, g) PROVE FALSE
  <2>1. out' = out /\ find_hash_file(f)' = find_hash_file(f)
    BY <1>2 DEF LockOutput, migrate_hash_file, find_hash_file
  <2> QED
    BY <2>1 DEF OrphanRecord, cleanVars
<1>3. ASSUME PublishOutput(p, g) PROVE FALSE
  <2>1. new[p][g] # Absent
    BY <1>3, TreeAssumption, CompiledTextsAreTexts
    DEF PublishOutput, TaskInv, NewIsCompiled, InFlight, Holding
  <2>2. /\ f = g => out'[f] # Absent
        /\ f # g => out'[f] = out[f]
        /\ find_hash_file(f)' = find_hash_file(f)
    BY <1>3, <2>1 DEF PublishOutput, find_hash_file
  <2> QED
    BY <2>2 DEF OrphanRecord, cleanVars
<1>4. ASSUME RecordHash(p, g) PROVE task[p][f] = "record" /\ task'[p][f] = "done"
  <2>1. out' = out /\ (f # g => find_hash_file(f)' = find_hash_file(f))
    BY <1>4 DEF RecordHash, find_hash_file
  <2>2. f = g
    BY <2>1 DEF OrphanRecord, cleanVars
  <2> QED
    BY <1>4, <2>2 DEF RecordHash, EndTask
<1> QED
  BY <1>1, <1>2, <1>3, <1>4 DEF TaskStep, Render, CheckOutput

\* clean leaves one only if it had a second record to look at, or dies.
LEMMA CleanLeavesNoOrphan ==
  ASSUME TypeOK, CleanStep \/ ListPairs, NEW f \in Templates, OrphanRecord(f)', ~ OrphanRecord(f)
  PROVE  /\ cleanPc = "unlinkHash" /\ job.pair[1] = f
         /\ \E place \in {"new", "old"} : place # job.pair[2] /\ RecordAt(f, place) # Absent
<1> USE DEF TypeOK, TreeTypeOK
<1>1. ASSUME UNCHANGED treeVars, cleanPc # "unlinkHash" PROVE FALSE
  BY <1>1 DEF OrphanRecord, find_hash_file, treeVars
<1>2. ASSUME UnlinkOutput PROVE FALSE
  BY <1>2 DEF UnlinkOutput, OrphanRecord, find_hash_file
<1>3. ASSUME UnlinkHash PROVE /\ cleanPc = "unlinkHash" /\ job.pair[1] = f
         /\ \E place \in {"new", "old"} : place # job.pair[2] /\ RecordAt(f, place) # Absent
  <2>1. cleanPc = "unlinkHash" /\ out' = out
    BY <1>3 DEF UnlinkHash
  <2>2. job.pair[1] = f
    BY <1>3 DEF UnlinkHash, OrphanRecord, find_hash_file
  <2>3. CASE job.pair[2] = "new"
    <3>1. oldHash[f] # Absent
      BY <1>3, <2>2, <2>3 DEF UnlinkHash, OrphanRecord, find_hash_file
    <3> QED
      BY <2>1, <2>2, <2>3, <3>1 DEF RecordAt
  <2>4. CASE job.pair[2] # "new"
    <3>1. newHash[f] # Absent
      BY <1>3, <2>2, <2>4 DEF UnlinkHash, OrphanRecord, find_hash_file
    <3> QED
      BY <2>1, <2>2, <2>4, <3>1 DEF RecordAt
  <2> QED
    BY <2>3, <2>4
<1> QED
  BY <1>1, <1>2, <1>3 DEF CleanStep, ListPairs, ComparePair, OutputVanished, CleanEnds

\* A record without output is left by the user, by a clean that dies between its two
\* unlinks or has two records, or by a compilation whose output was removed between
\* its two writes; for any runs of compile and clean (clean_targets,
\* write_yaml_and_hash).
THEOREM OrphansStayExplained == Spec => OrphansAreExplained
<1> DEFINE AllExplained == \A f \in Templates : OrphanRecord(f)' /\ ~ OrphanRecord(f) => Explained(f)
<1>1. ASSUME TypeOK, TaskInv, [Next]_vars, NEW f \in Templates, OrphanRecord(f)', ~ OrphanRecord(f)
      PROVE  Explained(f)
  <2>1. CASE UserStep
    BY <1>1, <2>1 DEF UserStep, TypeOK, Explained
  <2>2. ASSUME UNCHANGED treeVars, UNCHANGED cleanVars PROVE FALSE
    BY <1>1, <2>2 DEF OrphanRecord, find_hash_file, treeVars, cleanVars
  <2>3. CASE Compile
    <3>1. ASSUME NEW p \in Procs, RunStep(p) PROVE UNCHANGED treeVars
      BY <3>1 DEF RunStep, Acquire, SkipUnchanged, StartCompilation, HaltOnStrays, MarkPending,
                  ReadGlobals, EndCompiling, RaiseFailure, MarkCompiled, ClearPending
    <3> QED
      BY <1>1, <2>2, <2>3, <3>1, TasksLeaveNoOrphan DEF Compile, CompileStep, Explained
  <2>4. CASE CompileFails
    <3>1. UNCHANGED treeVars
      BY <2>4 DEF CompileFails, CompileFault, Crash, TaskFails, WorkerDies
    <3> QED
      BY <2>2, <2>4, <3>1 DEF CompileFails
  <2>5. CASE StartClean \/ Clean
    BY <1>1, <2>5, CleanLeavesNoOrphan DEF StartClean, Clean, Explained
  <2>6. CASE CleanFails
    <3>1. faults' # faults
      BY <1>1, <2>6 DEF CleanFails, TypeOK
    <3>2. cleanPc = "unlinkHash" /\ job.pair[1] = f
      BY <1>1, <2>6 DEF CleanFails, CleanCrash, OrphanRecord, find_hash_file, treeVars
    <3> QED
      BY <3>1, <3>2 DEF Explained
  <2>7. CASE UNCHANGED vars
    BY <2>2, <2>7 DEF vars, compileVars, treeVars
  <2> QED
    BY <1>1, <2>1, <2>3, <2>4, <2>5, <2>6, <2>7 DEF Next
<1>2. TypeOK /\ TaskInv /\ [Next]_vars => [AllExplained]_vars
  BY <1>1
<1> QED
  BY <1>2, TypeCorrectness, PTL DEF Spec, OrphansAreExplained, Explained

(***************************************************************************)
(* Without a pool                                                          *)
(*                                                                         *)
(* What a checkout whose templates are compiled by the main thread         *)
(* (~ Pool: parallelism off, or few templates) can rely on: the digests    *)
(* tell whether the outputs are up to date, detect-drift does not accuse   *)
(* the tool, and compile completes what a dead run left.  With a pool each *)
(* of these can fail, because the workers of a killed run live on.         *)
(***************************************************************************)

(***************************************************************************)
(* The run and its sources                                                 *)
(***************************************************************************)

\* Beside the compile steps nothing touches a run, the digests or the marker.
LEMMA OthersLeaveTheRun ==
  ASSUME UserStep \/ StartClean \/ Clean \/ CleanFails \/ UNCHANGED vars
  PROVE  /\ UNCHANGED <<runVars, taskVars, inHash, pending>>
         /\ "running" \notin EditWhen => src' = src \/ ~ SourcesInUse
BY DEF UserStep, EditSource, EditOutput, DeleteOutput, LoseRecord, StartClean, Clean,
       CleanFails, Situation, inputVars, vars, compileVars

\* A run holds compile.lock, has set the marker before it writes, and takes
\* its tasks with it when it ends.
THEOREM RunsTakeTurns ==
  ASSUME ~ Pool
  PROVE  Spec => []RunInv
<1>1. Init => RunInv
  BY DEF Init, CompileInit, RunInv, LockHeld, MarkedPending, TasksInRun, NoTasks, Active
<1>2. ASSUME TypeOK, RunInv, [Next]_vars
      PROVE  RunInv'
  <2>1. CASE Compile
    BY <1>2, <2>1, RunStepKeepsRun, TaskStepKeepsRun DEF Compile, CompileStep, TypeOK
  <2>2. CASE CompileFails
    BY <1>2, <2>2, FaultKeepsRun DEF CompileFails, TypeOK
  <2>3. CASE UserStep \/ StartClean \/ Clean \/ CleanFails \/ UNCHANGED vars
    BY <1>2, <2>3, OthersLeaveTheRun, BystandersKeepRun
  <2> QED
    BY <1>2, <2>1, <2>2, <2>3 DEF Next
<1>3. TypeOK /\ RunInv /\ [Next]_vars => RunInv'
  BY <1>2
<1> QED
  BY <1>1, <1>3, TypeCorrectness, PTL DEF Spec

\* If nobody edits while a run uses its sources, it compiles and marks what
\* the files hold.
THEOREM RunsReadTheSources ==
  ASSUME ~ Pool, "running" \notin EditWhen
  PROVE  Spec => []SourceInv
<1>1. Init => SourceInv
  BY DEF Init, CompileInit, SourceInv, SourcesRead, NewIsCurrent, MarkedCurrent,
         NoTasks, InFlight, Holding
<1>2. ASSUME TypeOK, RunInv, SourceInv, [Next]_vars
      PROVE  SourceInv'
  <2>1. CASE Compile
    BY <1>2, <2>1, RunStepKeepsSources, TaskStepKeepsSources
    DEF Compile, CompileStep, TypeOK
  <2>2. CASE CompileFails
    BY <1>2, <2>2, FaultKeepsSources DEF CompileFails, TypeOK
  <2>3. CASE UserStep \/ StartClean \/ Clean \/ CleanFails \/ UNCHANGED vars
    BY <1>2, <2>3, OthersLeaveTheRun, BystandersKeepSources DEF SourcesInUse
  <2> QED
    BY <1>2, <2>1, <2>2, <2>3 DEF Next
<1>3. TypeOK /\ RunInv /\ SourceInv /\ [Next]_vars => SourceInv'
  BY <1>2
<1> QED
  BY <1>1, <1>3, TypeCorrectness, RunsTakeTurns, PTL DEF Spec

(***************************************************************************)
(* The digests tell the truth                                              *)
(***************************************************************************)

\* The output is gone, a user's, or what its sources compile to.
Fresh(f) == out[f] = Absent \/ IsManual(out[f]) \/ UpToDate(f)

\* The output is gone, a user's, or compiled from what the digests say.
AsRecorded(f) ==
  \/ out[f] = Absent \/ IsManual(out[f])
  \/ /\ Digest[out[f].doc.own] = inHash[f]
     /\ Digest[out[f].doc.globals] = inHash[Globals]

\* A task that succeeded left a fresh output; a run that marks, all of them.
SuccessIsFresh ==
  /\ \A p \in Procs, f \in Templates : task[p][f] \in {"record", "done"} => Fresh(f)
  /\ \A p \in Procs : pc[p] = "marking" => \A f \in Templates : Fresh(f)

\* While no run is unfinished the digests, if complete, are the outputs'.
DigestsTell ==
  ~ pending /\ (\A i \in Inputs : inHash[i] # Absent) =>
    \A f \in Templates : AsRecorded(f)

FreshInv == SuccessIsFresh /\ DigestsTell

\* What a user or clean does to an output leaves it absent, manual, or with
\* the data it had.
LEMMA OthersKeepData ==
  ASSUME TypeOK, UserStep \/ StartClean \/ Clean \/ CleanFails, NEW f \in Templates
  PROVE  \/ out'[f] = out[f] \/ out'[f] = Absent \/ IsManual(out'[f])
         \/ /\ out[f] \in Texts /\ out'[f] \in Texts
            /\ out'[f].doc = out[f].doc
<1>1. ASSUME NEW g \in Templates, EditOutput(g), g = f
      PROVE  IsManual(out'[f]) \/ (/\ out[f] \in Texts /\ out'[f] \in Texts
                                   /\ out'[f].doc = out[f].doc)
  <2>1. out[f] \in Texts
    BY <1>1 DEF EditOutput, TypeOK, TreeTypeOK
  <2>2. /\ IsManual([out[f] EXCEPT !.doc = ManualDoc])
        /\ IsManual([out[f] EXCEPT !.doc = CorruptDoc])
        /\ [out[f] EXCEPT !.layout = "user"] \in Texts
        /\ [out[f] EXCEPT !.layout = "user"].doc = out[f].doc
    BY <2>1, TreeAssumption DEF Texts, IsManual
  <2>3. out'[f] \in {[out[f] EXCEPT !.doc = ManualDoc], [out[f] EXCEPT !.doc = CorruptDoc],
                     [out[f] EXCEPT !.layout = "user"]}
    BY <1>1 DEF EditOutput, TypeOK, TreeTypeOK
  <2> QED
    BY <2>1, <2>2, <2>3
<1>2. ASSUME NEW g \in Templates, EditOutput(g), g # f
      PROVE  out'[f] = out[f]
  BY <1>2 DEF EditOutput, TypeOK, TreeTypeOK
<1>3. CASE UserStep
  BY <1>1, <1>2, <1>3
  DEF UserStep, EditSource, DeleteOutput, LoseRecord, TypeOK, TreeTypeOK, treeVars
<1>4. CASE StartClean \/ Clean \/ CleanFails
  BY <1>4
  DEF StartClean, Clean, CleanFails, ListPairs, CleanStep, ComparePair, OutputVanished,
      UnlinkOutput, UnlinkHash, CleanEnds, CleanCrash, TypeOK, TreeTypeOK, treeVars
<1> QED
  BY <1>3, <1>4

\* A fresh output stays fresh when a user or clean comes by, and one built
\* from the recorded digests stays that.
LEMMA OthersKeepFresh ==
  ASSUME TypeOK, UserStep \/ StartClean \/ Clean \/ CleanFails, NEW f \in Templates
  PROVE  /\ Fresh(f) /\ src' = src => Fresh(f)'
         /\ AsRecorded(f) => AsRecorded(f)'
<1>1. \/ out'[f] = out[f] \/ out'[f] = Absent \/ IsManual(out'[f])
      \/ /\ out[f] \in Texts /\ out'[f] \in Texts
         /\ out'[f].doc = out[f].doc
  BY OthersKeepData
<1>2. inHash' = inHash
  BY OthersLeaveTheRun
<1>3. IsManual(out[f])' <=> IsManual(out'[f])
  BY DEF IsManual
<1>4. Absent \notin Texts
  BY TreeAssumption
<1>5. Fresh(f) /\ src' = src => Fresh(f)'
  BY <1>1, <1>3, <1>4 DEF Fresh, UpToDate, IsManual
<1>6. AsRecorded(f) => AsRecorded(f)'
  BY <1>1, <1>2, <1>3, <1>4 DEF AsRecorded, IsManual
<1> QED
  BY <1>5, <1>6

\* What a task compiled from current sources is fresh.
LEMMA TaskLeavesFresh ==
  ASSUME TypeOK, TaskInv, SourceInv, SuccessIsFresh,
         NEW p \in Procs, NEW f \in Templates, TaskStep(p, f),
         task'[p][f] \in {"record", "done"}
  PROVE  Fresh(f)'
<1> USE DEF TypeOK
<1>1. UNCHANGED src
  BY DEF TaskStep, Render, LockOutput, CheckOutput, PublishOutput, RecordHash, inputVars
<1>2. CASE PublishOutput(p, f)
  <2>1. new[p][f] = CompiledText(src[f], src[Globals]) /\ new[p][f] \in CompiledTexts
    BY <1>2 DEF PublishOutput, SourceInv, NewIsCurrent, InFlight, Holding, TaskInv,
                NewIsCompiled
  <2>2. out'[f] = new[p][f] /\ new[p][f] # Absent
    BY <1>2, <2>1, TreeAssumption, CompiledTextsAreTexts DEF PublishOutput, TreeTypeOK
  <2> QED
    BY <1>1, <2>1, <2>2 DEF Fresh, UpToDate
<1>3. CASE RecordHash(p, f)
  BY <1>1, <1>3 DEF RecordHash, SuccessIsFresh, Fresh, UpToDate, IsManual
<1>4. CASE CheckOutput(p, f) /\ Verdict(f, new[p][f]) \in {"record", "done"}
  <2>1. new[p][f] = CompiledText(src[f], src[Globals])
    BY <1>4 DEF CheckOutput, SourceInv, NewIsCurrent, InFlight, Holding
  <2>2. out[f] # Absent /\ out[f].doc = new[p][f].doc
    BY <1>4 DEF Verdict
  <2>3. UNCHANGED out
    BY <1>4 DEF CheckOutput, treeVars
  <2> QED
    BY <1>1, <2>1, <2>2, <2>3 DEF Fresh, UpToDate
<1> QED
  BY <1>2, <1>3, <1>4, HowTasksProceed

\* A run that has marked every input has recorded what the outputs are from.
LEMMA MarkedMeansRecorded ==
  ASSUME TypeOK, SourceInv, SuccessIsFresh, NEW p \in Procs, ClearPending(p),
         NEW f \in Templates
  PROVE  AsRecorded(f)'
<1>1. pc[p] = "marking" /\ marked[p] = Inputs /\ UNCHANGED <<inHash, treeVars>>
  BY DEF ClearPending
<1>2. inHash[f] = Digest[src[f]] /\ inHash[Globals] = Digest[src[Globals]]
  BY <1>1 DEF SourceInv, MarkedCurrent, Inputs
<1>3. Fresh(f)
  BY <1>1 DEF SuccessIsFresh
<1> QED
  BY <1>1, <1>2, <1>3
  DEF Fresh, AsRecorded, UpToDate, CompiledText, IsManual, treeVars

LEMMA InitFresh == Init => FreshInv
BY CompileAssumption
DEF Init, CompileInit, FreshInv, SuccessIsFresh, DigestsTell, NoTasks, Inputs

LEMMA StepFresh ==
  ASSUME TypeOK, TaskInv, RunInv, SourceInv, FreshInv,
         "running" \notin EditWhen, [Next]_vars
  PROVE  FreshInv'
<1> USE DEF TypeOK, FreshInv
<1>1. ASSUME NEW p \in Procs, RunStep(p)
      PROVE  FreshInv'
  <2>1. \A f \in Templates : Fresh(f)' = Fresh(f)
    BY <1>1, RunStepCounts DEF Fresh, UpToDate, IsManual, treeVars
  <2>2. SuccessIsFresh'
    BY <1>1, <2>1, RunStepCounts DEF SuccessIsFresh
  <2>3. ASSUME ~ pending, inHash' = inHash
        PROVE  DigestsTell'
    BY <1>1, <2>3, RunStepCounts DEF DigestsTell, AsRecorded, IsManual, treeVars
  <2>4. ASSUME ClearPending(p)
        PROVE  DigestsTell'
    BY <2>4, MarkedMeansRecorded DEF DigestsTell
  <2> QED
    BY <1>1, <2>2, <2>3, <2>4, RunStepCounts DEF DigestsTell
<1>2. ASSUME NEW p \in Procs, NEW f \in Templates, TaskStep(p, f)
      PROVE  FreshInv'
  <2>1. \A g \in Templates : g # f => Fresh(g)' = Fresh(g)
    BY <1>2, TaskStepIsLocal DEF Fresh, UpToDate, IsManual, inputVars
  <2>2. SuccessIsFresh'
    BY <1>2, <2>1, TaskStepIsLocal, TaskLeavesFresh DEF SuccessIsFresh
  <2>3. DigestsTell'
    BY <1>2, TaskStepIsLocal DEF DigestsTell
  <2> QED
    BY <2>2, <2>3
<1>3. ASSUME CompileFault
      PROVE  FreshInv'
  <2>1. /\ \A f \in Templates : Fresh(f)' = Fresh(f)
        /\ DigestsTell'
    BY <1>3, FaultCounts
    DEF Fresh, UpToDate, IsManual, DigestsTell, AsRecorded, inputVars, treeVars
  <2> QED
    BY <1>3, <2>1, FaultCounts DEF SuccessIsFresh
<1>4. CASE UserStep \/ StartClean \/ Clean \/ CleanFails
  <2>1. UNCHANGED <<runVars, taskVars, inHash, pending>>
    BY <1>4, OthersLeaveTheRun
  <2>2. DigestsTell'
    BY <1>4, <2>1, OthersKeepFresh DEF DigestsTell
  <2>3. CASE src' = src
    <3>1. \A f \in Templates : Fresh(f) => Fresh(f)'
      BY <1>4, <2>3, OthersKeepFresh
    <3>2. pc' = pc /\ task' = task
      BY <2>1 DEF runVars, taskVars
    <3>3. SuccessIsFresh'
      BY <3>1, <3>2 DEF SuccessIsFresh
    <3> QED
      BY <2>2, <3>3
  <2>4. CASE ~ SourcesInUse
    <3>1. \A p \in Procs : pc'[p] \notin {"compiling", "marking"}
      BY <2>1, <2>4 DEF SourcesInUse, runVars
    <3>2. \A p \in Procs, f \in Templates : task'[p][f] = "none"
      BY <2>1, <2>4 DEF SourcesInUse, RunInv, TasksInRun, taskVars
    <3> QED
      BY <2>2, <3>1, <3>2 DEF SuccessIsFresh
  <2> QED
    BY <1>4, <2>2, <2>3, <2>4, OthersLeaveTheRun
<1>5. CASE UNCHANGED vars
  BY <1>5 DEF SuccessIsFresh, DigestsTell, Fresh, AsRecorded, UpToDate, IsManual, vars,
              compileVars, runVars, taskVars, inputVars, treeVars
<1> QED
  BY <1>1, <1>2, <1>3, <1>4, <1>5 DEF Next, Compile, CompileStep, CompileFails

\* What the digests say of the outputs, at every moment.
THEOREM DigestsAreTrue ==
  ASSUME ~ Pool, "running" \notin EditWhen
  PROVE  Spec => []FreshInv
<1>1. Init => FreshInv
  BY InitFresh
<1>2. TypeOK /\ TaskInv /\ RunInv /\ SourceInv /\ FreshInv /\ [Next]_vars => FreshInv'
  BY StepFresh
<1> QED
  BY <1>1, <1>2, TypeCorrectness, RunsTakeTurns, RunsReadTheSources, PTL DEF Spec

\* When the next compile would skip, every output that is there and that no
\* user changed is what its sources compile to (needs_compilation in
\* run_compile_all).  Sources with one digest are taken to be one revision.
THEOREM SkippingIsSafe ==
  ASSUME ~ Pool, "running" \notin EditWhen,
         \A r, s \in Revs : Digest[r] = Digest[s] => r = s
  PROVE  Spec => []CurrentMeansUpToDate
<1>1. ASSUME TypeOK, FreshInv
      PROVE  CurrentMeansUpToDate
  <2> SUFFICES ASSUME Current, NEW f \in Templates, out[f] # Absent, ~ IsManual(out[f])
               PROVE  UpToDate(f)
    BY DEF CurrentMeansUpToDate
  <2>1. src[f] \in Revs /\ src[Globals] \in Revs
    BY <1>1 DEF TypeOK, CompileTypeOK, Inputs
  <2>2. \A i \in Inputs : inHash[i] = Digest[src[i]] /\ inHash[i] # Absent
    BY <1>1, CompileAssumption DEF Current, TypeOK, CompileTypeOK, Digests
  <2>3. AsRecorded(f)
    BY <1>1, <2>2 DEF Current, FreshInv, DigestsTell
  <2>4. Digest[out[f].doc.own] = Digest[src[f]]
        /\ Digest[out[f].doc.globals] = Digest[src[Globals]]
    BY <2>2, <2>3 DEF AsRecorded, Inputs
  <2>5. out[f].doc \in CompiledDocs
    BY <1>1 DEF TypeOK, TreeTypeOK, IsManual
  <2>6. out[f].doc.own = src[f] /\ out[f].doc.globals = src[Globals]
    BY <2>1, <2>4, <2>5 DEF CompiledDocs
  <2> QED
    BY <2>5, <2>6 DEF UpToDate, CompiledText, CompiledDocs
<1>2. TypeOK /\ FreshInv => CurrentMeansUpToDate
  BY <1>1
<1> QED
  BY <1>2, TypeCorrectness, DigestsAreTrue, PTL

(***************************************************************************)
(* detect-drift does not accuse the tool                                   *)
(***************************************************************************)

\* An output and a record that compile wrote say the same.
Agrees(f) ==
  out[f] \in CompiledTexts /\ newHash[f] \in CompiledTexts => out[f] = newHash[f]

\* Outputs and records agree except while a run is unfinished, and there as
\* soon as the template's task has succeeded.
AgreeInv ==
  /\ \A f \in Templates : oldHash[f] = Absent
  /\ \A p \in Procs, f \in Templates : task[p][f] = "done" => Agrees(f)
  /\ \A p \in Procs : pc[p] = "marking" => \A f \in Templates : Agrees(f)
  /\ ~ pending => \A f \in Templates : Agrees(f)

\* A task that succeeds leaves an output and a record that agree.
LEMMA TaskLeavesAgreement ==
  ASSUME TypeOK, TaskInv, PublishInv, AgreeInv,
         NEW p \in Procs, NEW f \in Templates, TaskStep(p, f), task'[p][f] = "done"
  PROVE  Agrees(f)'
<1> USE DEF TypeOK
<1>1. CASE RecordHash(p, f)
  <2>1. out'[f] = out[f] /\ newHash'[f] = new[p][f]
    BY <1>1 DEF RecordHash, TreeTypeOK
  <2>2. out[f] = new[p][f] \/ out[f] \notin CompiledTexts
    BY <1>1 DEF RecordHash, PublishInv, RecordFollowsOutput
  <2> QED
    BY <2>1, <2>2 DEF Agrees
<1>2. CASE CheckOutput(p, f) /\ Verdict(f, new[p][f]) = "done"
  <2>1. UNCHANGED <<out, newHash>>
    BY <1>2 DEF CheckOutput, treeVars
  <2>2. out[f] = newHash[f] \/ (Vouched(f) /\ out[f] # new[p][f])
    BY <1>2 DEF Verdict
  <2>3. Vouched(f) /\ newHash[f] \in CompiledTexts => out[f].doc = newHash[f].doc
    BY TreeAssumption, CompiledTextsAreTexts DEF Vouched, find_hash_file
  <2> QED
    BY <2>1, <2>2, <2>3 DEF Agrees, CompiledTexts
<1> QED
  BY <1>1, <1>2, HowTasksProceed

\* A user or clean may remove a record or spoil it, but writes none.
LEMMA OthersKeepAgreement ==
  ASSUME TypeOK, AgreeInv, UserStep \/ StartClean \/ Clean \/ CleanFails,
         NEW f \in Templates
  PROVE  /\ oldHash'[f] = Absent
         /\ Agrees(f) => Agrees(f)'
<1> USE DEF TypeOK, TreeTypeOK
<1>1. Absent \notin CompiledTexts /\ Garbled \notin CompiledTexts
  BY TreeAssumption, CompiledTextsAreTexts
<1>2. newHash'[f] \in {newHash[f], Absent, Garbled} /\ oldHash'[f] \in {oldHash[f], Absent}
  <2>1. CASE UserStep
    BY <2>1
    DEF UserStep, EditSource, EditOutput, DeleteOutput, LoseRecord, treeVars
  <2>2. CASE StartClean \/ Clean \/ CleanFails
    BY <2>2
    DEF StartClean, Clean, CleanFails, ListPairs, CleanStep, ComparePair,
        OutputVanished, UnlinkOutput, UnlinkHash, CleanEnds, CleanCrash, treeVars
  <2> QED
    BY <2>1, <2>2
<1>3. out'[f] = out[f] \/ out'[f] \notin CompiledTexts
  BY OthersLeaveNoCompiledText
<1> QED
  BY <1>1, <1>2, <1>3 DEF AgreeInv, Agrees

LEMMA StepAgree ==
  ASSUME ~ Pool, TypeOK, TaskInv, RunInv, PublishInv, AgreeInv, [Next]_vars
  PROVE  AgreeInv'
<1> USE DEF TypeOK
<1>1. ASSUME NEW p \in Procs, RunStep(p)
      PROVE  AgreeInv'
  <2>1. /\ \A f \in Templates : Agrees(f)' = Agrees(f)
        /\ oldHash' = oldHash
    BY <1>1, RunStepCounts DEF Agrees, treeVars
  <2>2. ClearPending(p) => pc[p] = "marking"
    BY DEF ClearPending
  <2> QED
    BY <1>1, <2>1, <2>2, RunStepCounts DEF AgreeInv
<1>2. ASSUME NEW p \in Procs, NEW f \in Templates, TaskStep(p, f)
      PROVE  AgreeInv'
  <2>1. \A g \in Templates : oldHash'[g] = Absent
    BY <1>2
    DEF TaskStep, Render, LockOutput, CheckOutput, PublishOutput, RecordHash, AgreeInv,
        migrate_hash_file, treeVars
  <2>2. \A g \in Templates : g # f => Agrees(g)' = Agrees(g)
    BY <1>2, TaskStepIsLocal DEF Agrees
  <2> QED
    BY <1>2, <2>1, <2>2, TaskStepIsLocal, TaskLeavesAgreement DEF AgreeInv
<1>3. ASSUME CompileFault
      PROVE  AgreeInv'
  <2>1. \A f \in Templates : Agrees(f)' = Agrees(f)
    BY <1>3, FaultCounts DEF Agrees, treeVars
  <2> QED
    BY <1>3, <2>1, FaultCounts DEF AgreeInv, inputVars, treeVars
<1>4. CASE UserStep \/ StartClean \/ Clean \/ CleanFails
  <2>1. pc' = pc /\ task' = task /\ pending' = pending
    BY <1>4, OthersLeaveTheRun DEF runVars, taskVars
  <2>2. \A f \in Templates : oldHash'[f] = Absent /\ (Agrees(f) => Agrees(f)')
    BY <1>4, OthersKeepAgreement
  <2> QED
    BY <2>1, <2>2 DEF AgreeInv
<1>5. CASE UNCHANGED vars
  BY <1>5 DEF AgreeInv, Agrees, vars, compileVars, runVars, taskVars, inputVars, treeVars
<1> QED
  BY <1>1, <1>2, <1>3, <1>4, <1>5 DEF Next, Compile, CompileStep, CompileFails

\* While no run is unfinished detect-drift reports no output that compile
\* itself wrote and recorded, whatever was killed, edited or cleaned before
\* (run_detect_drift).  The tree is one this release began: a sibling record
\* left by an older one may outlive a migration that failed.
THEOREM DriftIsTheUsers ==
  ASSUME ~ Pool, "legacy" \notin InitialTrees
  PROVE  Spec => []NoFalseDrift
<1>1. Init => AgreeInv
  BY TreeAssumption, CompiledTextsAreTexts
  DEF Init, EmptyTree, CompileInit, AgreeInv, Agrees, NoTexts, NoTasks
<1>2. TypeOK /\ TaskInv /\ RunInv /\ PublishInv /\ AgreeInv /\ [Next]_vars => AgreeInv'
  BY StepAgree
<1>3. AgreeInv => NoFalseDrift
  BY TreeAssumption, CompiledTextsAreTexts
  DEF AgreeInv, Agrees, NoFalseDrift, run_detect_drift, iter_hash_files_in_directory,
      is_target_unchanged, RecordAt, find_hash_file
<1> QED
  BY <1>1, <1>2, <1>3, TypeCorrectness, RunsTakeTurns, OutputsAreLocked, PTL DEF Spec

(***************************************************************************)
(* Compile completes what a dead run left                                  *)
(***************************************************************************)

\* Output and record are the pair that compile leaves.
Settled(f) == out[f] = Absent \/ find_hash_file(f) = out[f]

\* What the interrupted run published is what the next one compiles.
Published(f) == pending /\ out[f] = CompiledText(src[f], src[Globals])

\* Every output is a compiled text, recorded or of the unfinished run.
OwnInv ==
  /\ cleanPc = "idle"
  /\ \A f \in Templates : out[f] \in CompiledTexts \cup {Absent}
  /\ \A f \in Templates : Settled(f) \/ Published(f)
  /\ \A p \in Procs, f \in Templates : task[p][f] = "done" => Settled(f)
  /\ \A p \in Procs : pc[p] = "marking" => \A f \in Templates : Settled(f)

\* The outputs are left to compile, except that the user may delete one, and
\* the sources change only between finished runs.
OnlyCompileWrites ==
  EditWhen \subseteq {"current"} /\ Meddling \subseteq {"delete"} /\ MaxCleans = 0

\* Moving a record does not change what find_hash_file finds.
LEMMA MigrationKeepsRecord ==
  ASSUME TreeTypeOK, NEW f \in Templates, NEW g \in Templates, migrate_hash_file(f)
  PROVE  find_hash_file(g)' = find_hash_file(g)
BY DEF TreeTypeOK, migrate_hash_file, find_hash_file

\* A record that vouches for compiled text is that text.
LEMMA VouchedIsSettled ==
  ASSUME RecordsCompiled, NEW f \in Templates, out[f] \in CompiledTexts, Vouched(f)
  PROVE  Settled(f)
<1>1. find_hash_file(f) \in CompiledTexts
  BY TreeAssumption DEF Vouched, find_hash_file, RecordsCompiled
<1> QED
  BY <1>1 DEF Vouched, Settled, CompiledTexts

\* A task at work leaves its output settled or as published.
LEMMA TaskKeepsOwn ==
  ASSUME TypeOK, TaskInv, RunInv, SourceInv, PublishInv, RecordsCompiled, OwnInv,
         NEW p \in Procs, NEW f \in Templates, TaskStep(p, f)
  PROVE  /\ out'[f] \in CompiledTexts \cup {Absent}
         /\ Settled(f)' \/ Published(f)'
         /\ task'[p][f] = "done" => Settled(f)'
<1> USE DEF TypeOK, OwnInv
<1>0. pending' /\ UNCHANGED <<src, pending>>
  BY TaskStepIsLocal DEF inputVars
<1>1. CASE Render(p, f)
  BY <1>0, <1>1, HowTasksProceed
  DEF Render, RecordHash, CheckOutput, Ready, Settled, Published, find_hash_file, treeVars
<1>2. CASE LockOutput(p, f)
  <2>1. find_hash_file(f)' = find_hash_file(f) /\ out' = out /\ task'[p][f] = "check"
    BY <1>2, MigrationKeepsRecord DEF LockOutput, CompileTypeOK
  <2> QED
    BY <1>0, <2>1 DEF Settled, Published
<1>3. CASE CheckOutput(p, f)
  <2>1. UNCHANGED treeVars
    BY <1>3 DEF CheckOutput
  <2>2. Settled(f)' = Settled(f) /\ Published(f)' = Published(f)
    BY <1>0, <2>1 DEF Settled, Published, find_hash_file, treeVars
  <2>3. ASSUME Verdict(f, new[p][f]) = "done"
        PROVE  Settled(f)
    <3>1. CASE out[f] = newHash[f]
      BY <3>1 DEF Settled, find_hash_file
    <3>2. CASE out[f] # newHash[f]
      <4>1. out[f] # Absent /\ Vouched(f)
        BY <2>3, <3>2 DEF Verdict
      <4> QED
        BY <4>1, VouchedIsSettled
    <3> QED
      BY <3>1, <3>2
  <2>4. task'[p][f] = "done" => Verdict(f, new[p][f]) = "done"
    BY <1>3, HowTasksProceed DEF RecordHash, CheckOutput
  <2> QED
    BY <2>1, <2>2, <2>3, <2>4 DEF treeVars
<1>4. CASE PublishOutput(p, f)
  <2>1. /\ new[p][f] = CompiledText(src[f], src[Globals])
        /\ new[p][f] \in CompiledTexts
    BY <1>4 DEF PublishOutput, SourceInv, NewIsCurrent, InFlight, Holding, TaskInv,
                NewIsCompiled
  <2>2. out'[f] = new[p][f] /\ task'[p][f] = "record"
    BY <1>4 DEF PublishOutput, TreeTypeOK, CompileTypeOK
  <2> QED
    BY <1>0, <2>1, <2>2 DEF Published
<1>5. CASE RecordHash(p, f)
  <2>1. new[p][f] \in CompiledTexts /\ new[p][f] # Absent
    BY <1>5, TreeAssumption, CompiledTextsAreTexts
    DEF RecordHash, TaskInv, NewIsCompiled, InFlight, Holding
  <2>2. out' = out /\ newHash'[f] = new[p][f]
    BY <1>5 DEF RecordHash, TreeTypeOK
  <2>3. out[f] = new[p][f] \/ out[f] = Absent
    BY <1>5 DEF RecordHash, PublishInv, RecordFollowsOutput
  <2> QED
    BY <2>1, <2>2, <2>3 DEF Settled, find_hash_file
<1> QED
  BY <1>1, <1>2, <1>3, <1>4, <1>5 DEF TaskStep

\* A user who deletes an output, or edits a source that is not in use, and a
\* clean that never starts.
LEMMA OthersKeepOwn ==
  ASSUME OnlyCompileWrites, TypeOK, OwnInv, UserStep \/ StartClean \/ Clean \/ CleanFails
  PROVE  /\ cleanPc' = "idle" /\ UNCHANGED <<pc, task, pending>>
         /\ \A f \in Templates : out'[f] \in CompiledTexts \cup {Absent}
         /\ \A f \in Templates : Settled(f) => Settled(f)'
         /\ \A f \in Templates : Published(f) => Settled(f)' \/ Published(f)'
<1> USE DEF TypeOK, OwnInv
<1>1. UserStep
  <2>1. ~ StartClean
    BY DEF StartClean, OnlyCompileWrites
  <2>2. ~ Clean /\ ~ CleanFails
    BY DEF Clean, CleanFails, CleanStep, CleanCrash, ComparePair, OutputVanished,
           UnlinkOutput, UnlinkHash, CleanEnds
  <2> QED
    BY <2>1, <2>2
<1>2. cleanPc' = "idle" /\ UNCHANGED <<pc, task, pending>>
  BY <1>1, OthersLeaveTheRun DEF UserStep, cleanVars, runVars, taskVars
<1>3. ASSUME NEW i \in Inputs, NEW r \in Revs, EditSource(i, r)
      PROVE  ~ pending /\ UNCHANGED treeVars
  BY <1>3 DEF EditSource, Situation, OnlyCompileWrites
<1>4. ASSUME NEW g \in Templates, DeleteOutput(g)
      PROVE  /\ out' = [out EXCEPT ![g] = Absent] /\ UNCHANGED inputVars
             /\ \A f \in Templates : f # g =>
                  newHash'[f] = newHash[f] /\ oldHash'[f] = oldHash[f]
  BY <1>4 DEF DeleteOutput, TreeTypeOK
<1>5. \A g \in Templates : ~ EditOutput(g) /\ ~ LoseRecord(g)
  BY DEF EditOutput, LoseRecord, OnlyCompileWrites
<1>6. ASSUME NEW g \in Templates, DeleteOutput(g), NEW f \in Templates
      PROVE  /\ out'[f] \in CompiledTexts \cup {Absent}
             /\ Settled(f) => Settled(f)'
             /\ Published(f) => Settled(f)' \/ Published(f)'
  BY <1>4, <1>6 DEF Settled, Published, find_hash_file, inputVars, TreeTypeOK
<1>7. ASSUME NEW i \in Inputs, NEW r \in Revs, EditSource(i, r), NEW f \in Templates
      PROVE  /\ out'[f] \in CompiledTexts \cup {Absent}
             /\ Settled(f) => Settled(f)'
             /\ ~ Published(f)
  BY <1>3, <1>7 DEF Settled, Published, find_hash_file, treeVars
<1> QED
  BY <1>1, <1>2, <1>5, <1>6, <1>7 DEF UserStep

LEMMA StepOwn ==
  ASSUME ~ Pool, OnlyCompileWrites, TypeOK, TaskInv, RunInv, SourceInv, PublishInv,
         RecordsCompiled, OwnInv, [Next]_vars
  PROVE  OwnInv'
<1> USE DEF TypeOK
<1>0. Compile \/ CompileFails => UNCHANGED cleanPc
  BY DEF Compile, CompileFails, cleanVars
<1>1. ASSUME NEW p \in Procs, RunStep(p), UNCHANGED cleanPc
      PROVE  OwnInv'
  <2>1. UNCHANGED <<src, treeVars>>
    BY <1>1, RunStepCounts
  <2>2. \A f \in Templates : Settled(f)' = Settled(f) /\ out'[f] = out[f]
    BY <2>1 DEF Settled, find_hash_file, treeVars
  <2>3. CASE pending'
    <3>1. \A f \in Templates : Published(f) => Published(f)'
      BY <2>1, <2>3 DEF Published, treeVars
    <3> QED
      BY <1>1, <2>2, <3>1, RunStepCounts DEF OwnInv
  <2>4. CASE ~ pending'
    <3>1. \A f \in Templates : Settled(f)
      BY <1>1, <2>4, RunStepCounts DEF OwnInv, Published, ClearPending
    <3> QED
      BY <1>1, <2>2, <3>1, RunStepCounts DEF OwnInv
  <2> QED
    BY <2>3, <2>4
<1>2. ASSUME NEW p \in Procs, NEW f \in Templates, TaskStep(p, f), UNCHANGED cleanPc
      PROVE  OwnInv'
  <2>1. \A g \in Templates : g # f => /\ Settled(g)' = Settled(g)
                                      /\ Published(g) => Published(g)'
    BY <1>2, TaskStepIsLocal DEF Settled, Published, find_hash_file, inputVars
  <2>2. \A g \in Templates : g # f => out'[g] = out[g]
    BY <1>2, TaskStepIsLocal
  <2> QED
    BY <1>2, <2>1, <2>2, TaskStepIsLocal, TaskKeepsOwn DEF OwnInv
<1>3. ASSUME CompileFault, UNCHANGED cleanPc
      PROVE  OwnInv'
  <2>1. UNCHANGED <<src, pending, out, newHash, oldHash>>
    BY <1>3, FaultCounts DEF inputVars, treeVars
  <2>2. \A f \in Templates : Settled(f)' = Settled(f) /\ Published(f)' = Published(f)
    BY <2>1 DEF Settled, Published, find_hash_file
  <2> QED
    BY <1>3, <2>1, <2>2, FaultCounts DEF OwnInv
<1>4. CASE UserStep \/ StartClean \/ Clean \/ CleanFails
  BY <1>4, OthersKeepOwn DEF OwnInv
<1>5. CASE UNCHANGED vars
  BY <1>5 DEF OwnInv, Settled, Published, find_hash_file, vars, compileVars, runVars,
              taskVars, inputVars, treeVars, cleanVars
<1> QED
  BY <1>0, <1>1, <1>2, <1>3, <1>4, <1>5 DEF Next, Compile, CompileStep, CompileFails

\* Every output is compiled text, and its own record's or the unfinished
\* run's; so no run of compile meets one it does not know.
THEOREM OutputsAreKnown ==
  ASSUME ~ Pool, OnlyCompileWrites
  PROVE  Spec => []OwnInv
<1>1. Init => OwnInv
  <2>1. \A own \in [Templates -> Revs], g \in Revs, f \in Templates :
          CompiledText(own[f], g) \in CompiledTexts
    BY CompiledTextsAreTexts
  <2> QED
    BY <2>1
    DEF Init, EmptyTree, LegacyTree, CompileInit, CleanInit, OwnInv, Settled,
        find_hash_file, NoTexts, NoTasks
<1>2. ~ ("running" \in EditWhen)
  BY DEF OnlyCompileWrites
<1>3. TypeOK /\ TaskInv /\ RunInv /\ SourceInv /\ PublishInv /\ EditInv /\ OwnInv
        /\ [Next]_vars => OwnInv'
  BY StepOwn DEF EditInv
<1>4. Spec => []SourceInv
  BY <1>2, RunsReadTheSources
<1> QED
  BY <1>1, <1>3, <1>4, TypeCorrectness, RunsTakeTurns, OutputsAreLocked,
     ChecksPrecedeWrites, PTL DEF Spec

\* Where the user leaves the outputs to the tool, or deletes them, compile
\* never refuses one as a manual edit, in a tree of this release or of an
\* older one, however often runs are killed (_write_compiled_file repairs the
\* record of text it would write again, and trusts the records it wrote).
THEOREM RerunIsNeverRefused ==
  ASSUME ~ Pool, OnlyCompileWrites
  PROVE  Spec => RerunCompletes
<1> DEFINE Accepted == \A p \in Procs, f \in Templates :
                         task[p][f] = "check" /\ task'[p][f] = "refused" =>
                           out[f] \notin CompiledTexts
<1>1. ASSUME TypeOK, TaskInv, SourceInv, OwnInv, [Next]_vars,
             NEW p \in Procs, NEW f \in Templates,
             task[p][f] = "check", task'[p][f] = "refused", out[f] \in CompiledTexts
      PROVE  FALSE
  <2>1. CheckOutput(p, f) /\ Verdict(f, new[p][f]) = "refused"
    BY <1>1, OnlyTheTaskDecides DEF Holding
  <2>2. new[p][f] = CompiledText(src[f], src[Globals])
    BY <1>1 DEF SourceInv, NewIsCurrent, InFlight, Holding
  <2>3. out[f] # Absent /\ out[f] # new[p][f] /\ ~ Vouched(f)
    BY <2>1 DEF Verdict
  <2>4. find_hash_file(f) = out[f]
    BY <1>1, <2>2, <2>3 DEF OwnInv, Settled, Published
  <2>5. out[f] \in Texts /\ out[f].doc # CorruptDoc
    BY <1>1, TreeAssumption, CompiledTextsAreTexts DEF CompiledTexts
  <2> QED
    BY <2>3, <2>4, <2>5 DEF Vouched
<1>2. TypeOK /\ TaskInv /\ SourceInv /\ OwnInv /\ [Next]_vars => [Accepted]_vars
  BY <1>1
<1>3. Spec => []SourceInv
  BY RunsReadTheSources DEF OnlyCompileWrites
<1> QED
  BY <1>2, <1>3, TypeCorrectness, OutputsAreKnown, PTL DEF Spec, RerunCompletes
=============================================================================
