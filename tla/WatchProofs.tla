------------------------------ MODULE WatchProofs ---------------------------
(***************************************************************************)
(* Watch mode with a user who waits for the watcher to be idle before each *)
(* edit: when the watcher is at rest everything is built, unless its last  *)
(* run failed.                                                             *)
(***************************************************************************)
EXTENDS WatchMode, CompileAllProofs

WatchTypeOK ==
  /\ TreeTypeOK /\ CompileTypeOK
  /\ events \in Nat /\ recent \in BOOLEAN

Built(f) == out[f] = CompiledText(src[f], src[Globals])

\* No user touches the outputs: they and their records are compiled texts,
\* so none is a stray and none is refused.
TreeIsCompiled ==
  \A f \in Templates : /\ out[f] \in CompiledTexts /\ newHash[f] \in CompiledTexts
                       /\ oldHash[f] = Absent

\* While no run is unfinished the digests are those of the outputs' sources.
DigestsTell ==
  ~ pending => \A f \in Templates : /\ Digest[out[f].doc.own] = inHash[f]
                                    /\ Digest[out[f].doc.globals] = inHash[Globals]

SuccessIsBuilt ==
  /\ \A p \in Procs, f \in Templates : task[p][f] \in {"record", "done"} => Built(f)
  /\ \A p \in Procs : pc[p] = "marking" => AllBuilt

\* The handler forgets an edit only by failing: an edit that is not compiled
\* has its event still to come, and the event will not be dropped.
NothingForgotten ==
  Compiling \/ AllBuilt \/ pc[Watcher] = "failed" \/ (events > 0 /\ ~ recent)

CompileInv == TaskInv /\ RunInv /\ SourceInv
BuiltInv == TreeIsCompiled /\ DigestsTell /\ SuccessIsBuilt

WatchInv == WatchTypeOK /\ CompileInv /\ BuiltInv /\ NothingForgotten

\* Notices are sent for every edit, and the user waits.
WaitingUser == Patient /\ 0 \notin Notices

LEMMA InitWatch == Init => WatchInv
<1> SUFFICES ASSUME Init PROVE WatchInv
  OBVIOUS
<1>1. /\ src \in [Inputs -> Revs] /\ Inputs = Templates \cup {Globals}
      /\ \A f \in Templates : out[f] = CompiledText(src[f], src[Globals])
      /\ newHash = out /\ out = [f \in Templates |-> out[f]]
  BY DEF Init, Inputs
<1>2. \A f \in Templates : out[f] \in CompiledTexts
  BY <1>1, CompiledTextsAreTexts
<1>3. TreeTypeOK
  BY <1>1, <1>2, CompiledTextsAreTexts DEF Init, TreeTypeOK, Records, NoTexts
<1>4. inHash \in [Inputs -> Digests \cup {Absent}]
  BY DEF Init, Digests
<1>5. CompileTypeOK
  BY <1>4 DEF Init, CompileTypeOK, NoTasks, NoTexts, Rest, TaskStates, Ended
<1>6. CompileInv
  BY DEF Init, CompileInv, TaskInv, GlobalsRead, NewIsCompiled, TasksOnlyWhileCompiling,
         RunInv, LockHeld, MarkedPending, TasksInRun, SourceInv, SourcesRead,
         NewIsCurrent, MarkedCurrent, NoTasks, InFlight, Holding, Active
<1>7. TreeIsCompiled /\ SuccessIsBuilt
  BY <1>1, <1>2 DEF Init, TreeIsCompiled, SuccessIsBuilt, NoTasks, NoTexts
<1>8. DigestsTell
  BY <1>1 DEF Init, DigestsTell, CompiledText
<1> QED
  BY <1>1, <1>3, <1>5, <1>6, <1>7, <1>8
  DEF Init, WatchInv, WatchTypeOK, BuiltInv, NothingForgotten, AllBuilt

\* The steps of the run inside the handler.
LEMMA HandlerSteps ==
  /\ Compile => RunStep(Watcher) \/ \E f \in Templates : TaskStep(Watcher, f)
  /\ CompileFails => CompileFault
  /\ Watcher \in Procs /\ ~ Pool
BY WatchAssumption DEF Compile, CompileFails, RunStep, CompileFault

\* What the handler does keeps the types and the order of the run.
LEMMA HandlerKeepsRun ==
  ASSUME TreeTypeOK, CompileTypeOK, CompileInv,
         \/ RunStep(Watcher) \/ CompileFault
         \/ \E f \in Templates : TaskStep(Watcher, f)
  PROVE  TreeTypeOK' /\ CompileTypeOK' /\ CompileInv'
<1> USE HandlerSteps DEF CompileInv
<1>1. CASE RunStep(Watcher)
  BY <1>1, RunStepKeepsTypes, RunStepKeepsTasks, RunStepKeepsRun, RunStepKeepsSources
<1>2. ASSUME NEW f \in Templates, TaskStep(Watcher, f)
      PROVE  TreeTypeOK' /\ CompileTypeOK' /\ CompileInv'
  BY <1>2, TaskStepKeepsTypes, TaskStepKeepsTasks, TaskStepKeepsRun, TaskStepKeepsSources
<1>3. CASE CompileFault
  BY <1>3, FaultKeepsTypes, FaultKeepsTasks, FaultKeepsRun, FaultKeepsSources
<1> QED
  BY <1>1, <1>2, <1>3

\* With every output compiled and recorded, no file is a stray.
LEMMA NoStrays ==
  ASSUME TreeIsCompiled
  PROVE  list_stray_files = {}
BY TreeAssumption, CompiledTextsAreTexts
DEF TreeIsCompiled, list_stray_files, iter_hash_files_in_directory, find_hash_file

\* A task leaves compiled text, and what it built when it succeeds.
LEMMA TaskBuilds ==
  ASSUME TreeTypeOK, CompileTypeOK, CompileInv, BuiltInv,
         NEW f \in Templates, TaskStep(Watcher, f)
  PROVE  /\ out'[f] \in CompiledTexts /\ newHash'[f] \in CompiledTexts
         /\ oldHash'[f] = Absent
         /\ task'[Watcher][f] \in {"record", "done"} => Built(f)'
<1> USE HandlerSteps
<1>0. UNCHANGED src
  BY DEF TaskStep, Render, LockOutput, CheckOutput, PublishOutput, RecordHash, inputVars
<1>1. task[Watcher][f] \in InFlight =>
        /\ new[Watcher][f] = CompiledText(src[f], src[Globals])
        /\ new[Watcher][f] \in CompiledTexts
  BY DEF CompileInv, SourceInv, NewIsCurrent, TaskInv, NewIsCompiled
<1>2. CASE Render(Watcher, f) \/ LockOutput(Watcher, f)
  <2>1. task'[Watcher][f] \in {"rendered", "check"}
    BY <1>2 DEF Render, LockOutput, CompileTypeOK
  <2>2. UNCHANGED <<out, newHash, oldHash>>
    BY <1>2 DEF Render, LockOutput, migrate_hash_file, treeVars, BuiltInv, TreeIsCompiled
  <2> QED
    BY <2>1, <2>2 DEF BuiltInv, TreeIsCompiled
<1>3. CASE CheckOutput(Watcher, f)
  <2>1. /\ UNCHANGED <<out, newHash, oldHash>>
        /\ task[Watcher][f] \in InFlight
    BY <1>3 DEF CheckOutput, treeVars, InFlight, Holding
  <2>2. task'[Watcher][f] = Verdict(f, new[Watcher][f])
    BY <1>3 DEF CheckOutput, EndTask, CompileTypeOK
  <2>3. out[f] \in CompiledTexts /\ out[f] # Absent
    BY TreeAssumption, CompiledTextsAreTexts DEF BuiltInv, TreeIsCompiled
  <2>4. Verdict(f, new[Watcher][f]) \in {"record", "done"} =>
          out[f].doc = new[Watcher][f].doc
    BY <2>3 DEF Verdict
  <2>5. Verdict(f, new[Watcher][f]) \in {"record", "done"} => Built(f)
    BY <1>1, <2>1, <2>3, <2>4 DEF Built, CompiledTexts
  <2> QED
    BY <1>0, <2>1, <2>2, <2>5 DEF Built, BuiltInv, TreeIsCompiled
<1>4. CASE PublishOutput(Watcher, f)
  BY <1>0, <1>1, <1>4
  DEF PublishOutput, Built, BuiltInv, TreeIsCompiled, TreeTypeOK, InFlight, Holding
<1>5. CASE RecordHash(Watcher, f)
  <2>1. Built(f)
    BY <1>5 DEF RecordHash, BuiltInv, SuccessIsBuilt
  <2> QED
    BY <1>0, <1>1, <1>5, <2>1
    DEF RecordHash, Built, BuiltInv, TreeIsCompiled, TreeTypeOK, InFlight, Holding
<1> QED
  BY <1>2, <1>3, <1>4, <1>5 DEF TaskStep

\* A run builds everything or is unfinished; the digests follow.
LEMMA RunKeepsBuilt ==
  ASSUME CompileTypeOK, CompileInv, BuiltInv, RunStep(Watcher)
  PROVE  BuiltInv'
<1> USE HandlerSteps DEF CompileInv, BuiltInv
<1>1. UNCHANGED <<src, out, newHash, oldHash>>
  BY RunStepCounts DEF treeVars
<1>2. TreeIsCompiled'
  BY <1>1 DEF TreeIsCompiled
<1>3. SuccessIsBuilt'
  <2>1. (\A f \in Templates : Built(f)' = Built(f)) /\ (AllBuilt' = AllBuilt)
    BY <1>1 DEF Built, AllBuilt
  <2>2. (\A f \in Templates : Built(f)) => AllBuilt
    BY DEF Built, AllBuilt
  <2> QED
    BY <2>1, <2>2, RunStepCounts DEF SuccessIsBuilt
<1>4. ASSUME ~ pending, inHash' = inHash
      PROVE  DigestsTell'
  BY <1>1, <1>4 DEF DigestsTell
<1>5. ASSUME ClearPending(Watcher)
      PROVE  DigestsTell'
  <2>1. pc[Watcher] = "marking" /\ marked[Watcher] = Inputs /\ inHash' = inHash
    BY <1>5 DEF ClearPending
  <2>2. \A i \in Inputs : inHash[i] = Digest[src[i]]
    BY <2>1 DEF SourceInv, MarkedCurrent
  <2>3. AllBuilt
    BY <2>1 DEF SuccessIsBuilt
  <2> QED
    <3>1. \A f \in Templates : /\ out[f].doc.own = src[f]
                               /\ out[f].doc.globals = src[Globals]
      <4> TAKE f \in Templates
      <4>1. out[f] = CompiledText(src[f], src[Globals])
        BY <2>3 DEF AllBuilt
      <4>2. /\ CompiledText(src[f], src[Globals]).doc.own = src[f]
            /\ CompiledText(src[f], src[Globals]).doc.globals = src[Globals]
        BY DEF CompiledText
      <4> QED
        BY <4>1, <4>2
    <3>2. \A f \in Templates : inHash[f] = Digest[src[f]]
      BY <2>2 DEF Inputs
    <3>3. inHash[Globals] = Digest[src[Globals]]
      BY <2>2 DEF Inputs
    <3> QED
      BY <1>1, <2>1, <3>1, <3>2, <3>3 DEF DigestsTell
<1>6. pending' => DigestsTell'
  BY DEF DigestsTell
<1> QED
  BY <1>2, <1>3, <1>4, <1>5, <1>6, RunStepCounts

LEMMA TaskKeepsBuilt ==
  ASSUME TreeTypeOK, CompileTypeOK, CompileInv, BuiltInv,
         NEW f \in Templates, TaskStep(Watcher, f)
  PROVE  BuiltInv'
<1> USE HandlerSteps DEF CompileInv, BuiltInv
<1>1. DigestsTell'
  BY TaskStepIsLocal DEF DigestsTell
<1>2. TreeIsCompiled'
  BY TaskStepIsLocal, TaskBuilds DEF TreeIsCompiled
<1>3. \A g \in Templates : g # f => Built(g)' = Built(g)
  BY TaskStepIsLocal DEF Built, inputVars
<1>4. SuccessIsBuilt'
  BY <1>3, TaskStepIsLocal, TaskBuilds DEF SuccessIsBuilt
<1> QED
  BY <1>1, <1>2, <1>4

LEMMA FailureKeepsBuilt ==
  ASSUME CompileTypeOK, BuiltInv, CompileFault
  PROVE  BuiltInv'
<1> USE DEF BuiltInv
<1>1. UNCHANGED <<src, inHash, pending, out, newHash, oldHash>>
  BY FaultCounts DEF inputVars, treeVars
<1>2. TreeIsCompiled' /\ DigestsTell'
  BY <1>1 DEF TreeIsCompiled, DigestsTell
<1>3. (\A f \in Templates : Built(f)' = Built(f)) /\ (AllBuilt' = AllBuilt)
  BY <1>1 DEF Built, AllBuilt
<1>4. SuccessIsBuilt'
  BY <1>3, FaultCounts DEF SuccessIsBuilt
<1> QED
  BY <1>2, <1>4

\* A run ends with everything built, or fails.
LEMMA RunsEndWell ==
  ASSUME \A r, s \in Revs : Digest[r] = Digest[s] => r = s,
         TreeTypeOK, CompileTypeOK, CompileInv, BuiltInv, Compiling,
         RunStep(Watcher), ~ Compiling'
  PROVE  AllBuilt' \/ pc'[Watcher] = "failed"
<1> USE HandlerSteps DEF CompileTypeOK
<1>1. UNCHANGED <<src, treeVars>>
  BY RunStepCounts DEF CompileInv
<1>2. AllBuilt' = AllBuilt
  BY <1>1 DEF AllBuilt, treeVars
<1>3. CASE SkipUnchanged(Watcher)
  <2>1. ~ pending /\ \A i \in Inputs : inHash[i] = Digest[src[i]]
    BY <1>3 DEF SkipUnchanged, needs_compilation, has_file_changed
  <2>2. \A f \in Templates : /\ Digest[out[f].doc.own] = Digest[src[f]]
                             /\ Digest[out[f].doc.globals] = Digest[src[Globals]]
    BY <2>1 DEF BuiltInv, DigestsTell, Inputs
  <2>3. \A f \in Templates : src[f] \in Revs /\ src[Globals] \in Revs
    BY DEF Inputs
  <2>4. ASSUME NEW f \in Templates
        PROVE  out[f] = CompiledText(src[f], src[Globals])
    <3>1. out[f] \in CompiledTexts
      BY DEF BuiltInv, TreeIsCompiled
    <3>2. out[f].doc \in [own : Revs, globals : Revs] /\ out[f].layout = "tool"
      BY <3>1 DEF CompiledTexts, CompiledDocs
    <3>3. out[f].doc.own = src[f] /\ out[f].doc.globals = src[Globals]
      BY <2>2, <2>3, <3>2
    <3>4. out[f].doc = [own |-> src[f], globals |-> src[Globals]]
      BY <3>2, <3>3
    <3> QED
      BY <3>1, <3>2, <3>4 DEF CompiledTexts, CompiledText
  <2> QED
    BY <1>2, <2>4 DEF AllBuilt
<1>4. ~ HaltOnStrays(Watcher)
  BY NoStrays DEF HaltOnStrays, BlockingStrays, BuiltInv
<1>5. CASE RaiseFailure(Watcher)
  BY <1>5 DEF RaiseFailure, EndRun
<1>6. CASE ClearPending(Watcher)
  BY <1>2, <1>6 DEF ClearPending, BuiltInv, SuccessIsBuilt
<1>7. ~ Acquire(Watcher)
  BY DEF Acquire, Compiling, Rest, Active
<1>8. ~ (\/ \E force \in BOOLEAN : StartCompilation(Watcher, force)
         \/ MarkPending(Watcher) \/ ReadGlobals(Watcher) \/ EndCompiling(Watcher))
  BY DEF StartCompilation, MarkPending, ReadGlobals, EndCompiling, Goto, Compiling, Active
<1>9. ~ \E i \in Inputs : MarkCompiled(Watcher, i)
  BY DEF MarkCompiled, Compiling
<1> QED
  BY <1>3, <1>4, <1>5, <1>6, <1>7, <1>8, <1>9 DEF RunStep

LEMMA StepWatch ==
  ASSUME WaitingUser, \A r, s \in Revs : Digest[r] = Digest[s] => r = s,
         WatchInv, [Next]_watchVars
  PROVE  WatchInv'
<1> USE DEF WatchInv, WatchTypeOK
<1>1. ASSUME NEW i \in Inputs, NEW r \in Revs, NEW n \in Notices, EditSource(i, r, n)
      PROVE  WatchInv'
  <2>1. /\ ~ Compiling /\ events = 0 /\ ~ recent
        /\ UNCHANGED <<inHash, pending, runVars, taskVars, treeVars, recent>>
        /\ src' = [src EXCEPT ![i] = r]
    BY <1>1 DEF EditSource, WaitingUser
  <2>2. events' \in Nat /\ events' > 0
    BY <1>1, <2>1, WatchAssumption DEF EditSource, WaitingUser
  <2>3. WatchTypeOK'
    BY <2>1, <2>2 DEF TreeTypeOK, CompileTypeOK, runVars, taskVars, treeVars
  <2>4. \A p \in Procs : pc[p] \notin {"compiling", "marking"}
    BY <2>1, WatchAssumption DEF Compiling, Active
  <2>5. CompileInv'
    <3>1. TaskInv'
      BY <2>1 DEF CompileInv, TaskInv, GlobalsRead, NewIsCompiled,
                  TasksOnlyWhileCompiling, runVars, taskVars
    <3> QED
      BY <2>1, <2>4, <3>1, BystandersKeepRun, BystandersKeepSources DEF CompileInv
  <2>6. TreeIsCompiled' /\ DigestsTell'
    BY <2>1 DEF BuiltInv, TreeIsCompiled, DigestsTell, treeVars
  <2>7. \A p \in Procs, f \in Templates : task[p][f] = "none"
    BY <2>4 DEF CompileInv, RunInv, TasksInRun
  <2>8. SuccessIsBuilt'
    BY <2>1, <2>4, <2>7 DEF SuccessIsBuilt, runVars, taskVars
  <2> QED
    BY <2>1, <2>2, <2>3, <2>5, <2>6, <2>8 DEF BuiltInv, NothingForgotten
<1>2. ASSUME RunStep(Watcher)
      PROVE  TreeTypeOK' /\ CompileTypeOK' /\ CompileInv' /\ BuiltInv'
  BY <1>2, HandlerKeepsRun, RunKeepsBuilt
<1>3. ASSUME UNCHANGED compileVars
      PROVE  TreeTypeOK' /\ CompileTypeOK' /\ CompileInv' /\ BuiltInv'
  BY <1>3
  DEF TreeTypeOK, CompileTypeOK, CompileInv, TaskInv, GlobalsRead, NewIsCompiled,
      TasksOnlyWhileCompiling, RunInv, LockHeld, MarkedPending, TasksInRun, SourceInv,
      SourcesRead, NewIsCurrent, MarkedCurrent, BuiltInv, TreeIsCompiled, DigestsTell,
      SuccessIsBuilt, Built, AllBuilt, compileVars, runVars, taskVars, inputVars, treeVars
<1>4. CASE on_any_event
  <2>1. events' \in Nat /\ recent' \in BOOLEAN /\ ~ Compiling
    <3>1. events > 0 /\ events' = events - 1 /\ ~ Compiling
      BY <1>4 DEF on_any_event
    <3>2. recent' = recent \/ recent' = TRUE
      BY <1>4 DEF on_any_event
    <3>3. events' \in Nat
      BY <3>1
    <3>4. recent' \in BOOLEAN
      BY <3>2, Zenon
    <3> QED
      BY <3>1, <3>3, <3>4
  <2>2. CASE recent /\ UNCHANGED <<compileVars, recent>>
    <3>1. NothingForgotten'
      BY <2>1, <2>2 DEF NothingForgotten, AllBuilt, compileVars, runVars, inputVars, treeVars
    <3> QED
      BY <1>3, <2>1, <2>2, <3>1
  <2>3. CASE recent' = TRUE /\ Acquire(Watcher)
    <3>1. Compiling'
      BY <2>3, HandlerSteps DEF Acquire, Compiling, Active, CompileTypeOK
    <3> QED
      BY <1>2, <2>1, <2>3, <3>1 DEF RunStep, NothingForgotten
  <2>4. \/ recent /\ UNCHANGED <<compileVars, recent>>
        \/ recent' = TRUE /\ Acquire(Watcher)
    BY <1>4 DEF on_any_event
  <2> QED
    BY <2>2, <2>3, <2>4
<1>5. CASE WindowPasses
  <2>1. UNCHANGED <<compileVars, events>> /\ recent' = FALSE
    BY <1>5 DEF WindowPasses
  <2>2. NothingForgotten'
    BY <1>5, <2>1 DEF WindowPasses, NothingForgotten, Compiling, AllBuilt, compileVars,
                      runVars, inputVars, treeVars
  <2> QED
    BY <1>3, <2>1, <2>2
<1>6. CASE Compile
  <2>1. Compiling /\ UNCHANGED <<events, recent>>
    BY <1>6 DEF Compile
  <2>2. CASE RunStep(Watcher)
    <3>1. NothingForgotten'
      BY <2>1, <2>2, RunsEndWell DEF NothingForgotten
    <3> QED
      BY <1>2, <2>1, <2>2, <3>1
  <2>3. ASSUME NEW f \in Templates, TaskStep(Watcher, f)
        PROVE  WatchInv'
    <3>1. UNCHANGED runVars
      BY <2>3 DEF TaskStep, Render, LockOutput, CheckOutput, PublishOutput, RecordHash
    <3>2. NothingForgotten'
      BY <2>1, <3>1 DEF NothingForgotten, Compiling, runVars
    <3> QED
      BY <2>1, <2>3, <3>2, HandlerKeepsRun, TaskKeepsBuilt
  <2> QED
    BY <1>6, <2>2, <2>3, HandlerSteps
<1>7. CASE CompileFails
  <2>1. Compiling /\ UNCHANGED <<events, recent, runVars>>
    BY <1>7 DEF CompileFails, TaskFails
  <2>2. NothingForgotten'
    BY <2>1 DEF NothingForgotten, Compiling, runVars
  <2> QED
    BY <1>7, <2>1, <2>2, HandlerSteps, HandlerKeepsRun, FailureKeepsBuilt
<1>8. CASE UNCHANGED watchVars
  <2>1. NothingForgotten'
    BY <1>8 DEF NothingForgotten, Compiling, AllBuilt, watchVars, compileVars, runVars,
                inputVars, treeVars
  <2> QED
    BY <1>3, <1>8, <2>1 DEF watchVars
<1> QED
  BY <1>1, <1>4, <1>5, <1>6, <1>7, <1>8 DEF Next

\* The watcher forgets nothing that a patient user does.
THEOREM WatcherRemembers ==
  ASSUME WaitingUser, \A r, s \in Revs : Digest[r] = Digest[s] => r = s
  PROVE  Spec => []WatchInv
<1>1. Init => WatchInv
  BY InitWatch
<1>2. WatchInv /\ [Next]_watchVars => WatchInv'
  BY StepWatch
<1> QED
  BY <1>1, <1>2, PTL DEF Spec

\* At rest, with no event to come, the watcher has built everything or its
\* last run failed (on_any_event drops what comes within the debounce window,
\* which a user who waits never meets).
THEOREM QuietWatcherHasBuilt ==
  ASSUME WaitingUser, \A r, s \in Revs : Digest[r] = Digest[s] => r = s
  PROVE  Spec => []QuietMeansBuilt
<1>1. WatchInv => QuietMeansBuilt
  BY DEF WatchInv, NothingForgotten, QuietMeansBuilt
<1> QED
  BY <1>1, WatcherRemembers, PTL
=============================================================================
