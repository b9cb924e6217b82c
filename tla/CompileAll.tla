----------------------------- MODULE CompileAll -----------------------------
(***************************************************************************)
(* `bash2yaml compile`: run_compile_all with the input change detector and *)
(* the publication of each output and its integrity record (the sidecar    *)
(* mode, write_hashes on).  A run holds the input directory's compile.lock *)
(* from Acquire to its end; each output is published under a lock of its   *)
(* own, because the workers of a killed run may still be writing when the  *)
(* next run starts.                                                        *)
(*                                                                         *)
(* A run is one process p; pc[p] is where its main thread is.  task[p][f]  *)
(* is how far the compilation of template f has come, on the main thread   *)
(* (sequential) or on a pool worker.  Dry runs change no state and are     *)
(* not modelled.                                                           *)
(***************************************************************************)
EXTENDS OutputTree, FiniteSets

CONSTANTS
  Globals,   \* global_variables.sh, read once per run
  Procs,     \* runs of the compile command
  Digest,    \* Digest[r]: the normalized hash of a source revision
  Chunks,    \* the templates each worker compiles, one after the other
  Pool,      \* compiled by worker processes; otherwise by the main thread
  InPlace,   \* --in-place: the stray-file halt is skipped
  NoProc     \* nobody holds the lock

VARIABLES
  src,          \* the revision of each input file
  inHash,       \* the digest recorded for each input file
  pending,      \* the compilation.pending marker exists
  compileLock,  \* the run that holds compile.lock
  pc,           \* where the run is, or how it ended
  globals,      \* the revision of global_variables.sh the run read
  marked,       \* the inputs whose digest the run has recorded
  task,         \* how far each template's compilation is
  new,          \* the text a task compiled
  seen,         \* the output as the task's integrity check read it
  outLock       \* the run whose task holds the output's lock

runVars == <<compileLock, pc, globals, marked>>
taskVars == <<task, new, seen, outLock>>
inputVars == <<src, inHash, pending>>
compileVars == <<runVars, taskVars, inputVars, treeVars>>

Inputs == Templates \cup {Globals}
Digests == {Digest[r] : r \in Revs}

\* pc of a run that has ended says how; the others hold compile.lock.
Rest == {"idle", "skipped", "halted", "failed", "done", "crashed"}
Active == {"locked", "checked", "cleared", "compiling", "marking"}

\* Tasks: waiting; compiled; in the critical section of the output's lock
\* (before the integrity check, the output's write, the record's write);
\* ended; or lost with the worker that had it.
Holding == {"check", "publish", "record"}
InFlight == {"rendered"} \cup Holding
Ended == {"none", "done", "refused", "failed"}
TaskStates == {"todo", "lost"} \cup InFlight \cup Ended

ASSUME CompileAssumption ==
  /\ Globals \notin Templates
  /\ Digest \in [Revs -> Digests] /\ Absent \notin Digests \cup Revs
  /\ \A c \in Chunks : c \subseteq Templates
  /\ \A f \in Templates : \E c \in Chunks : f \in c
  /\ \A c, d \in Chunks : c = d \/ c \cap d = {}
  /\ Pool \in BOOLEAN /\ (~ Pool => Chunks = {Templates})
  /\ InPlace \in BOOLEAN
  /\ NoProc \notin Procs

CompileTypeOK ==
  /\ src \in [Inputs -> Revs]
  /\ inHash \in [Inputs -> Digests \cup {Absent}]
  /\ pending \in BOOLEAN
  /\ compileLock \in Procs \cup {NoProc}
  /\ pc \in [Procs -> Rest \cup Active]
  /\ globals \in [Procs -> Revs \cup {Absent}]
  /\ marked \in [Procs -> SUBSET Inputs]
  /\ task \in [Procs -> [Templates -> TaskStates]]
  /\ new \in [Procs -> [Templates -> CompiledTexts \cup {Absent}]]
  /\ seen \in [Procs -> [Templates -> Texts \cup {Absent}]]
  /\ outLock \in [Templates -> Procs \cup {NoProc}]

NoTasks == [f \in Templates |-> "none"]
NoTexts == [f \in Templates |-> Absent]

\* Nothing compiled in the input directory's memory, no process running.
CompileInit ==
  /\ src \in [Inputs -> Revs]
  /\ inHash = [i \in Inputs |-> Absent]
  /\ pending = FALSE
  /\ compileLock = NoProc
  /\ pc = [p \in Procs |-> "idle"]
  /\ globals = [p \in Procs |-> Absent]
  /\ marked = [p \in Procs |-> {}]
  /\ task = [p \in Procs |-> NoTasks]
  /\ new = [p \in Procs |-> NoTexts]
  /\ seen = [p \in Procs |-> NoTexts]
  /\ outLock = [f \in Templates |-> NoProc]

----
(* The chunks *)

\* A worker stops at the first failure of its chunk.
ChunkFailed(p, c) == \E f \in c : task[p][f] \in {"refused", "failed"}
ChunkLost(p, c) == \E f \in c : task[p][f] = "lost"
ChunkIdle(p, c) == \A f \in c : task[p][f] \notin InFlight

\* The worker has reported the chunk to the main process.
ChunkOver(p, c) ==
  /\ ChunkIdle(p, c) /\ ~ ChunkLost(p, c)
  /\ ChunkFailed(p, c) \/ \A f \in c : task[p][f] # "todo"

\* The worker of f's chunk can take f next.
Ready(p, f) ==
  /\ task[p][f] = "todo"
  /\ \A c \in Chunks : f \in c => /\ ChunkIdle(p, c)
                                  /\ ~ ChunkFailed(p, c) /\ ~ ChunkLost(p, c)

----
(* The run *)

Goto(p, where) ==
  /\ pc' = [pc EXCEPT ![p] = where]
  /\ UNCHANGED <<compileLock, globals, marked>>

\* The run ends: compile.lock is released.
EndRun(p, how) ==
  /\ pc' = [pc EXCEPT ![p] = how]
  /\ compileLock' = NoProc
  /\ globals' = [globals EXCEPT ![p] = Absent]
  /\ marked' = [marked EXCEPT ![p] = {}]

\* run_compile_all takes compile.lock.  A run that waits longer than the
\* lock's timeout ends having changed nothing, so waiting is not a state.
\* The name p is used again only when no worker of its last run is alive.
Acquire(p) ==
  /\ pc[p] \in Rest
  /\ \A f \in Templates : task[p][f] \notin InFlight /\ ~ Ready(p, f)
  /\ compileLock = NoProc
  /\ compileLock' = p
  /\ pc' = [pc EXCEPT ![p] = "locked"]
  /\ globals' = [globals EXCEPT ![p] = Absent]
  /\ task' = [task EXCEPT ![p] = NoTasks]
  /\ UNCHANGED <<marked, new, seen, outLock, inputVars, treeVars>>

has_file_changed(i) == inHash[i] # Digest[src[i]]

needs_compilation == pending \/ \E i \in Inputs : has_file_changed(i)

\* No input changed since the last compilation and no --force: skip.
SkipUnchanged(p) ==
  /\ pc[p] = "locked"
  /\ ~ needs_compilation
  /\ EndRun(p, "skipped")
  /\ UNCHANGED <<taskVars, inputVars, treeVars>>

\* Inputs changed, or --force was given.
StartCompilation(p, force) ==
  /\ pc[p] = "locked"
  /\ force \/ needs_compilation
  /\ Goto(p, "checked")
  /\ UNCHANGED <<taskVars, inputVars, treeVars>>

\* Mutation of BlockingStrays: the marker of a dead run earns no leniency.
AllStraysBlock == {s \in list_stray_files : ~ InPlace}

\* The strays that stop a run.  After an interrupted run an output whose
\* template exists is let through, for the writer to repair its record.
BlockingStrays ==
  {s \in list_stray_files : ~ InPlace /\ ~ (pending /\ s[1] = "out")}

HaltOnStrays(p) ==
  /\ pc[p] = "checked"
  /\ BlockingStrays # {}
  /\ EndRun(p, "halted")
  /\ UNCHANGED <<taskVars, inputVars, treeVars>>

\* Mutation of MarkPending: the run leaves no mark that it has begun.
MarkNothing(p) ==
  /\ pc[p] = "checked"
  /\ BlockingStrays = {}
  /\ Goto(p, "cleared")
  /\ UNCHANGED <<taskVars, inputVars, treeVars>>

MarkPending(p) ==
  /\ pc[p] = "checked"
  /\ BlockingStrays = {}
  /\ pending' = TRUE
  /\ Goto(p, "cleared")
  /\ UNCHANGED <<taskVars, src, inHash, treeVars>>

\* Mutation of ReadGlobals: the compilation goes ahead without the globals.
SkipGlobals(p) ==
  /\ pc[p] = "cleared"
  /\ task' = [task EXCEPT ![p] = [f \in Templates |-> "todo"]]
  /\ pc' = [pc EXCEPT ![p] = "compiling"]
  /\ UNCHANGED <<compileLock, globals, marked, new, seen, outLock, inputVars, treeVars>>

\* global_variables.sh is read and the templates are listed.
ReadGlobals(p) ==
  /\ pc[p] = "cleared"
  /\ globals' = [globals EXCEPT ![p] = src[Globals]]
  /\ task' = [task EXCEPT ![p] = [f \in Templates |-> "todo"]]
  /\ pc' = [pc EXCEPT ![p] = "compiling"]
  /\ UNCHANGED <<compileLock, marked, new, seen, outLock, inputVars, treeVars>>

\* Mutation of EndCompiling: the run goes on while workers are at it (map_async).
EndCompilingEarly(p) ==
  /\ pc[p] = "compiling"
  /\ \E c \in Chunks : ChunkOver(p, c) /\ ~ ChunkFailed(p, c)
  /\ Goto(p, "marking")
  /\ UNCHANGED <<taskVars, inputVars, treeVars>>

\* starmap, or the loop, returns once every chunk is over.
EndCompiling(p) ==
  /\ pc[p] = "compiling"
  /\ \A c \in Chunks : ChunkOver(p, c) /\ ~ ChunkFailed(p, c)
  /\ Goto(p, "marking")
  /\ task' = [task EXCEPT ![p] = NoTasks]
  /\ UNCHANGED <<new, seen, outLock, inputVars, treeVars>>

\* Mutation of RaiseFailure: the marker is removed in a `finally`.
RaiseFailureUnmarked(p) ==
  /\ pc[p] = "compiling"
  /\ \A c \in Chunks : ChunkOver(p, c)
  /\ \E c \in Chunks : ChunkFailed(p, c)
  /\ EndRun(p, "failed")
  /\ pending' = FALSE
  /\ task' = [task EXCEPT ![p] = NoTasks]
  /\ UNCHANGED <<new, seen, outLock, src, inHash, treeVars>>

\* A task failed: the run raises, and the marker stays for the next run.
RaiseFailure(p) ==
  /\ pc[p] = "compiling"
  /\ \A c \in Chunks : ChunkOver(p, c)
  /\ \E c \in Chunks : ChunkFailed(p, c)
  /\ EndRun(p, "failed")
  /\ task' = [task EXCEPT ![p] = NoTasks]
  /\ UNCHANGED <<new, seen, outLock, inputVars, treeVars>>

\* mark_compiled digests each input as it is now, not as it was compiled.
MarkCompiled(p, i) ==
  /\ pc[p] = "marking"
  /\ i \notin marked[p]
  /\ inHash' = [inHash EXCEPT ![i] = Digest[src[i]]]
  /\ marked' = [marked EXCEPT ![p] = @ \cup {i}]
  /\ UNCHANGED <<compileLock, pc, globals, taskVars, src, pending, treeVars>>

ClearPending(p) ==
  /\ pc[p] = "marking"
  /\ marked[p] = Inputs
  /\ pending' = FALSE
  /\ EndRun(p, "done")
  /\ UNCHANGED <<taskVars, src, inHash, treeVars>>

----
(* The compilation of one template *)

\* The task ends, its local variables go and the output's lock, if it has
\* it, is released.
EndTask(p, f, how) ==
  /\ task' = [task EXCEPT ![p][f] = how]
  /\ new' = [new EXCEPT ![p][f] = Absent]
  /\ seen' = [seen EXCEPT ![p][f] = Absent]
  /\ outLock' = [outLock EXCEPT ![f] = IF task[p][f] \in Holding THEN NoProc ELSE @]

\* compile_single_file reads the template and its scripts and inlines them.
Render(p, f) ==
  /\ Ready(p, f)
  /\ new' = [new EXCEPT ![p][f] = CompiledText(src[f], globals[p])]
  /\ task' = [task EXCEPT ![p][f] = "rendered"]
  /\ UNCHANGED <<seen, outLock, runVars, inputVars, treeVars>>

\* Mutation of LockOutput: the lock does not exclude another run's worker.
LockNothing(p, f) ==
  /\ task[p][f] = "rendered"
  /\ outLock' = [outLock EXCEPT ![f] = p]
  /\ task' = [task EXCEPT ![p][f] = "check"]
  /\ migrate_hash_file(f)
  /\ UNCHANGED <<new, seen, out, runVars, inputVars>>

\* write_compiled_file takes the output's lock; the sibling record is migrated.
LockOutput(p, f) ==
  /\ task[p][f] = "rendered"
  /\ outLock[f] = NoProc
  /\ outLock' = [outLock EXCEPT ![f] = p]
  /\ task' = [task EXCEPT ![p][f] = "check"]
  /\ migrate_hash_file(f)
  /\ UNCHANGED <<new, seen, out, runVars, inputVars>>

\* Mutation of Vouched: any record that decodes is good enough.
VouchedByAnyRecord(f) == find_hash_file(f) \in Texts

\* The record says that the output holds the data bash2yaml last wrote.
Vouched(f) ==
  LET record == find_hash_file(f) IN
  /\ record \in Texts
  /\ out[f].doc # CorruptDoc
  /\ out[f].doc = record.doc

\* Mutation of Verdict: the record is asked for before the repair.
VerdictWithoutRepair(f, t) ==
  IF out[f] = Absent THEN "publish"
  ELSE IF ~ Vouched(f) THEN "refused"
  ELSE IF out[f].doc = t.doc THEN "done" ELSE "publish"

\* _write_compiled_file, with t just compiled: what the output and its record
\* lead to.  Text equal to t needs at most its record repaired; other text
\* may be replaced only if it is vouched for, and only if its data differs.
Verdict(f, t) ==
  IF out[f] = Absent THEN "publish"
  ELSE IF out[f] = t THEN IF newHash[f] = t THEN "done" ELSE "record"
  ELSE IF ~ Vouched(f) THEN "refused"
  ELSE IF out[f].doc = t.doc THEN "done" ELSE "publish"

CheckOutput(p, f) ==
  /\ task[p][f] = "check"
  /\ \/ /\ Verdict(f, new[p][f]) \in Ended
        /\ EndTask(p, f, Verdict(f, new[p][f]))
     \/ /\ Verdict(f, new[p][f]) \in Holding
        /\ task' = [task EXCEPT ![p][f] = Verdict(f, new[p][f])]
        /\ seen' = [seen EXCEPT ![p][f] = out[f]]
        /\ UNCHANGED <<new, outLock>>
  /\ UNCHANGED <<runVars, inputVars, treeVars>>

\* write_yaml_and_hash: the output is replaced first, then its record.
PublishOutput(p, f) ==
  /\ task[p][f] = "publish"
  /\ out' = [out EXCEPT ![f] = new[p][f]]
  /\ task' = [task EXCEPT ![p][f] = "record"]
  /\ UNCHANGED <<new, seen, outLock, newHash, oldHash, runVars, inputVars>>

RecordHash(p, f) ==
  /\ task[p][f] = "record"
  /\ newHash' = [newHash EXCEPT ![f] = new[p][f]]
  /\ EndTask(p, f, "done")
  /\ UNCHANGED <<out, oldHash, runVars, inputVars>>

----
(* Failures *)

\* A source error, a validation error, a lock timeout or an I/O error: the
\* task raises where it is and leaves what it has written.
TaskFails(p, f) ==
  /\ task[p][f] \in InFlight \/ Ready(p, f)
  /\ EndTask(p, f, "failed")
  /\ UNCHANGED <<runVars, inputVars, treeVars>>

\* A pool worker is killed.  The pool starts another, which does not get the
\* lost task: starmap waits for its result for ever.
WorkerDies(p, f) ==
  /\ Pool
  /\ task[p][f] \in InFlight
  /\ EndTask(p, f, "lost")
  /\ UNCHANGED <<runVars, inputVars, treeVars>>

\* A worker has the chunk and is not through with it.
ChunkRunning(p, c) ==
  /\ \E f \in c : task[p][f] # "todo"
  /\ ~ ChunkOver(p, c) /\ ~ ChunkLost(p, c)

\* The main process is killed and the operating system releases its locks.
\* A pool worker may live on and finish the chunk it has.
Crash(p) ==
  /\ pc[p] \in Active
  /\ pc' = [pc EXCEPT ![p] = "crashed"]
  /\ compileLock' = NoProc
  /\ marked' = [marked EXCEPT ![p] = {}]
  /\ \E alive \in SUBSET {c \in Chunks : Pool /\ ChunkRunning(p, c)} :
       LET Lives(f) == f \in UNION alive IN
       /\ task' = [task EXCEPT ![p] =
                     [f \in Templates |-> IF Lives(f) THEN @[f] ELSE "none"]]
       /\ new' = [new EXCEPT ![p] =
                    [f \in Templates |-> IF Lives(f) THEN @[f] ELSE Absent]]
       /\ seen' = [seen EXCEPT ![p] =
                     [f \in Templates |-> IF Lives(f) THEN @[f] ELSE Absent]]
       /\ outLock' = [f \in Templates |->
                        IF outLock[f] = p /\ ~ Lives(f) THEN NoProc ELSE outLock[f]]
  /\ UNCHANGED <<globals, inputVars, treeVars>>

----
RunStep(p) ==
  \/ Acquire(p) \/ SkipUnchanged(p)
  \/ \E force \in BOOLEAN : StartCompilation(p, force)
  \/ HaltOnStrays(p) \/ MarkPending(p) \/ ReadGlobals(p)
  \/ EndCompiling(p) \/ RaiseFailure(p)
  \/ \E i \in Inputs : MarkCompiled(p, i)
  \/ ClearPending(p)

TaskStep(p, f) ==
  \/ Render(p, f) \/ LockOutput(p, f) \/ CheckOutput(p, f)
  \/ PublishOutput(p, f) \/ RecordHash(p, f)

CompileStep == \E p \in Procs : RunStep(p) \/ \E f \in Templates : TaskStep(p, f)

CompileFault ==
  \E p \in Procs :
    Crash(p) \/ \E f \in Templates : TaskFails(p, f) \/ WorkerDies(p, f)
=============================================================================
