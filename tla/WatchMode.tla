------------------------------ MODULE WatchMode -----------------------------
(***************************************************************************)
(* `bash2yaml compile --watch`: an observer thread hands the changes of    *)
(* the input directory to _RecompileHandler.on_any_event one at a time.    *)
(* The handler compiles inside the call, and ignores whatever comes within *)
(* half a second of the start of the last compilation.  It starts nothing  *)
(* by itself: what is not triggered by an event is not compiled.           *)
(***************************************************************************)
EXTENDS CompileAll, Naturals

CONSTANTS
  Watcher,    \* the watching process, the one member of Procs
  Patient,    \* the user waits for the watcher to be idle before each edit
  Notices,    \* how many events one edit can cause; 0 for a script whose
              \* extension the handler does not know (.py, .js, ...)
  MaxEdits, MaxFailures   \* bounds of the model

VARIABLES
  events,     \* relevant events that wait for the observer thread
  recent,     \* now - _last_run < _debounce
  edits, failures

watchVars == <<compileVars, events, recent, edits, failures>>

ASSUME WatchAssumption ==
  /\ Procs = {Watcher} /\ ~ Pool
  /\ Notices \subseteq Nat
  /\ MaxEdits \in Nat /\ MaxFailures \in Nat

\* The handler is inside run_compile_all.
Compiling == pc[Watcher] \in Active

\* Watching starts beside a compiled tree.
Init ==
  /\ src \in [Inputs -> Revs]
  /\ inHash = [i \in Inputs |-> Digest[src[i]]]
  /\ pending = FALSE
  /\ compileLock = NoProc
  /\ pc = [p \in Procs |-> "idle"]
  /\ globals = [p \in Procs |-> Absent]
  /\ marked = [p \in Procs |-> {}]
  /\ task = [p \in Procs |-> NoTasks]
  /\ new = [p \in Procs |-> NoTexts]
  /\ seen = [p \in Procs |-> NoTexts]
  /\ outLock = [f \in Templates |-> NoProc]
  /\ out = [f \in Templates |-> CompiledText(src[f], src[Globals])]
  /\ newHash = out
  /\ oldHash = NoTexts
  /\ events = 0 /\ recent = FALSE
  /\ edits = 0 /\ failures = 0

EditSource(i, r, n) ==
  /\ edits < MaxEdits /\ edits' = edits + 1
  /\ Patient => ~ Compiling /\ events = 0 /\ ~ recent
  /\ src[i] # r
  /\ src' = [src EXCEPT ![i] = r]
  /\ events' = events + n
  /\ UNCHANGED <<inHash, pending, runVars, taskVars, treeVars, recent, failures>>

\* Mutation of on_any_event: the debounce test is turned round.
on_any_event_inverted ==
  /\ events > 0 /\ ~ Compiling
  /\ events' = events - 1
  /\ \/ ~ recent /\ UNCHANGED <<compileVars, recent>>
     \/ recent /\ UNCHANGED recent /\ Acquire(Watcher)
  /\ UNCHANGED <<edits, failures>>

\* An event within the debounce window is dropped; another starts the window
\* and run_compile_all, without --force.
on_any_event ==
  /\ events > 0 /\ ~ Compiling
  /\ events' = events - 1
  /\ \/ recent /\ UNCHANGED <<compileVars, recent>>
     \/ ~ recent /\ recent' = TRUE /\ Acquire(Watcher)
  /\ UNCHANGED <<edits, failures>>

WindowPasses ==
  /\ recent
  /\ recent' = FALSE
  /\ UNCHANGED <<compileVars, events, edits, failures>>

\* run_compile_all goes on inside the handler.
Compile ==
  /\ Compiling
  /\ \/ SkipUnchanged(Watcher) \/ StartCompilation(Watcher, FALSE)
     \/ HaltOnStrays(Watcher) \/ MarkPending(Watcher) \/ ReadGlobals(Watcher)
     \/ EndCompiling(Watcher) \/ RaiseFailure(Watcher)
     \/ \E i \in Inputs : MarkCompiled(Watcher, i)
     \/ ClearPending(Watcher)
     \/ \E f \in Templates : TaskStep(Watcher, f)
  /\ UNCHANGED <<events, recent, edits, failures>>

\* A template fails to compile; the handler logs the exception and lives on.
CompileFails ==
  /\ failures < MaxFailures /\ failures' = failures + 1
  /\ Compiling
  /\ \E f \in Templates : TaskFails(Watcher, f)
  /\ UNCHANGED <<events, recent, edits>>

Next ==
  \/ \E i \in Inputs, r \in Revs, n \in Notices : EditSource(i, r, n)
  \/ on_any_event \/ WindowPasses \/ Compile \/ CompileFails

Spec == Init /\ [][Next]_watchVars

\* The observer thread runs and time passes; the user need not do anything.
FairSpec ==
  /\ Spec
  /\ WF_watchVars(on_any_event) /\ WF_watchVars(WindowPasses) /\ WF_watchVars(Compile)

----
(* Properties *)

AllBuilt == \A f \in Templates : out[f] = CompiledText(src[f], src[Globals])

\* With a user who waits, a watcher at rest has built everything, or its last
\* run failed (on_any_event keeps no memory of an edit but the event itself).
QuietMeansBuilt ==
  ~ Compiling /\ events = 0 => AllBuilt \/ pc[Watcher] = "failed"

\* With a user who waits the outputs settle on the last edit, unless the run
\* it triggered failed: no event, no retry.
PatientEditsBuilt == <>[](AllBuilt \/ pc[Watcher] = "failed")

\* When a source file changes it is compiled, however fast the edits come.
EveryEditBuilt == <>[]AllBuilt
=============================================================================
