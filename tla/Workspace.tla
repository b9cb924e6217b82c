------------------------------ MODULE Workspace -----------------------------
(***************************************************************************)
(* A checkout in use: runs of compile and clean, killed and failing, and a *)
(* user who edits the sources, meddles with the compiled files and their   *)
(* records, and starts the commands again.                                 *)
(***************************************************************************)
EXTENDS CompileAll, CleanAll, Naturals

CONSTANTS
  InitialTrees,  \* of "empty" and "legacy"
  EditWhen,      \* of "current", "interrupted" and "running"
  Meddling,      \* of "edit", "break", "reformat", "delete", "unhash", "damage"
  MaxEdits, MaxFaults, MaxCleans   \* bounds of the model

VARIABLES edits, faults, cleans   \* how many there have been

vars == <<compileVars, cleanVars, edits, faults, cleans>>

TypeOK ==
  /\ TreeTypeOK /\ CompileTypeOK /\ CleanTypeOK
  /\ edits \in 0..MaxEdits
  /\ faults \in 0..MaxFaults
  /\ cleans \in 0..MaxCleans

ASSUME WorkspaceAssumption ==
  MaxEdits \in Nat /\ MaxFaults \in Nat /\ MaxCleans \in Nat

EmptyTree == out = NoTexts /\ newHash = NoTexts /\ oldHash = NoTexts

\* What an older release left: every output with its sibling record.
LegacyTree ==
  /\ \E own \in [Templates -> Revs], g \in Revs :
       out = [f \in Templates |-> CompiledText(own[f], g)]
  /\ newHash = NoTexts
  /\ oldHash = out

Init ==
  /\ \/ "empty" \in InitialTrees /\ EmptyTree
     \/ "legacy" \in InitialTrees /\ LegacyTree
  /\ CompileInit /\ CleanInit
  /\ edits = 0 /\ faults = 0 /\ cleans = 0

----
(* The user *)

\* A run has read its sources and not yet recorded them as compiled.
SourcesInUse == \E p \in Procs : pc[p] \in {"compiling", "marking"}

Situation == IF SourcesInUse THEN "running"
             ELSE IF pending THEN "interrupted" ELSE "current"

EditSource(i, r) ==
  /\ Situation \in EditWhen
  /\ src[i] # r
  /\ src' = [src EXCEPT ![i] = r]
  /\ UNCHANGED <<inHash, pending, runVars, taskVars, treeVars>>

\* New data, text that does not parse, or the same data laid out otherwise.
EditOutput(f) ==
  /\ out[f] # Absent
  /\ \/ "edit" \in Meddling /\ out' = [out EXCEPT ![f].doc = ManualDoc]
     \/ "break" \in Meddling /\ out' = [out EXCEPT ![f].doc = CorruptDoc]
     \/ "reformat" \in Meddling /\ out' = [out EXCEPT ![f].layout = "user"]
  /\ out' # out
  /\ UNCHANGED <<newHash, oldHash, runVars, taskVars, inputVars>>

\* The advice of the error messages: remove the output, or with its record.
DeleteOutput(f) ==
  /\ "delete" \in Meddling
  /\ out[f] # Absent
  /\ out' = [out EXCEPT ![f] = Absent]
  /\ \/ UNCHANGED <<newHash, oldHash>>
     \/ /\ newHash' = [newHash EXCEPT ![f] = Absent]
        /\ oldHash' = [oldHash EXCEPT ![f] = Absent]
  /\ UNCHANGED <<runVars, taskVars, inputVars>>

\* The record is lost or damaged (a bad merge of a committed .hash file).
LoseRecord(f) ==
  /\ newHash[f] \in Texts
  /\ \/ "unhash" \in Meddling /\ newHash' = [newHash EXCEPT ![f] = Absent]
     \/ "damage" \in Meddling /\ newHash' = [newHash EXCEPT ![f] = Garbled]
  /\ UNCHANGED <<out, oldHash, runVars, taskVars, inputVars>>

UserStep ==
  /\ edits < MaxEdits /\ edits' = edits + 1
  /\ \/ \E i \in Inputs, r \in Revs : EditSource(i, r)
     \/ \E f \in Templates : EditOutput(f) \/ DeleteOutput(f) \/ LoseRecord(f)
  /\ UNCHANGED <<cleanVars, faults, cleans>>

----
Compile == CompileStep /\ UNCHANGED <<cleanVars, edits, faults, cleans>>

CompileFails ==
  /\ faults < MaxFaults /\ faults' = faults + 1
  /\ CompileFault
  /\ UNCHANGED <<cleanVars, edits, cleans>>

StartClean ==
  /\ cleans < MaxCleans /\ cleans' = cleans + 1
  /\ ListPairs
  /\ UNCHANGED <<runVars, taskVars, inputVars, edits, faults>>

Clean == /\ CleanStep
         /\ UNCHANGED <<runVars, taskVars, inputVars, edits, faults, cleans>>

CleanFails ==
  /\ faults < MaxFaults /\ faults' = faults + 1
  /\ CleanCrash
  /\ UNCHANGED <<runVars, taskVars, inputVars, edits, cleans>>

Next == UserStep \/ Compile \/ CompileFails \/ StartClean \/ Clean \/ CleanFails

Spec == Init /\ [][Next]_vars

\* The user's shell and the operating system run what was started: a command
\* in progress keeps going, and after a run ends the user compiles again.
FairSpec ==
  /\ Spec
  /\ \A p \in Procs : WF_vars(RunStep(p) /\ Compile)
  /\ \A p \in Procs, f \in Templates : WF_vars(TaskStep(p, f) /\ Compile)

----
(* Properties *)

\* Nothing to be done by another compile: no marker, every digest current.
Current == ~ pending /\ \A i \in Inputs : inHash[i] = Digest[src[i]]

UpToDate(f) == out[f] # Absent /\ out[f].doc = CompiledText(src[f], src[Globals]).doc

\* When the next compile would find nothing to do, an output that no user
\* has changed holds what its sources compile to (run_compile_all skips on
\* needs_compilation alone, without looking at the outputs).
CurrentMeansUpToDate ==
  Current => \A f \in Templates :
               out[f] # Absent => UpToDate(f) \/ IsManual(out[f])

\* While no run is unfinished, detect-drift never accuses the tool's own
\* writing: an output and a record that compile both wrote agree.  The two
\* are replaced one after the other and a run can die in between.
NoFalseDrift ==
  ~ pending => \A f \in run_detect_drift :
                 out[f] \notin CompiledTexts \/ find_hash_file(f) \notin CompiledTexts

\* Text that a user changed in substance disappears only by the user's hand,
\* or because it was written after the integrity check of the compilation,
\* or of the clean, that is already in progress there.
EditsSurvive ==
  [][\A f \in Templates :
       IsManual(out[f]) /\ out'[f] # out[f] =>
         \/ edits' # edits
         \/ \E p \in Procs : task[p][f] = "publish" /\ seen[p][f] # out[f]
         \/ cleanPc = "unlinkOutput" /\ job.pair[1] = f /\ job.text # out[f]]_vars

\* A compilation that succeeds leaves an output and a record that agree, also
\* when a worker of a killed run compiles the same template beside it.
PublishedTogether ==
  [][\A p \in Procs, f \in Templates :
       task[p][f] \in Holding /\ task'[p][f] = "done" =>
         \/ out'[f] \notin CompiledTexts
         \/ find_hash_file(f)' \notin CompiledTexts
         \/ out'[f] = find_hash_file(f)']_vars

\* A run publishes what its sources compile to.  Older text comes only from a pool
\* worker that outlives its run, and no later compile notices (starmap in
\* run_compile_all; the worker compiles its chunk to the end).
StaleComesFromOrphans ==
  [][\A p \in Procs, f \in Templates :
       task[p][f] = "publish" /\ task'[p][f] = "record" =>
         UpToDate(f)' \/ pc[p] = "crashed"]_vars

\* A record without output, which clean is not about to remove: a compile that
\* sees it halts.
OrphanRecord(f) ==
  /\ out[f] = Absent /\ find_hash_file(f) # Absent
  /\ ~ (cleanPc = "unlinkHash" /\ job.pair[1] = f)

\* The tool leaves one only where clean dies between its two unlinks, where clean
\* has listed one record and there is by then one in the other place, and where the
\* output goes between the two writes of a compilation (a user or clean beside it).
\* Moving the record of an older release leaves none.
OrphansAreExplained ==
  [][\A f \in Templates :
       OrphanRecord(f)' /\ ~ OrphanRecord(f) =>
         \/ edits' # edits
         \/ cleanPc = "unlinkHash" /\ job.pair[1] = f /\ faults' # faults
         \/ /\ cleanPc = "unlinkHash" /\ job.pair[1] = f
            /\ \E place \in {"new", "old"} : place # job.pair[2] /\ RecordAt(f, place) # Absent
         \/ \E p \in Procs : task[p][f] = "record" /\ task'[p][f] = "done"]_vars

\* Where nobody touches the outputs, compile never takes its own output for a
\* manual edit: running it again completes what a dead run left.
RerunCompletes ==
  [][\A p \in Procs, f \in Templates :
       task[p][f] = "check" /\ task'[p][f] = "refused" => out[f] \notin CompiledTexts]_vars

\* A compile that skips leaves every template with its output.
SkipMeansBuilt ==
  [][\A p \in Procs : pc[p] = "locked" /\ pc'[p] = "skipped" /\ cleanPc = "idle" =>
                        \A f \in Templates : out[f] # Absent]_vars

\* Edits and faults being bounded, the workspace comes to rest: from some
\* point on every output is what its sources compile to, and again and again
\* (a forced compile sets the marker anew) nothing is left to do.
Converges == <>[](\A f \in Templates : UpToDate(f)) /\ []<>Current
=============================================================================
