----------------------------- MODULE InputChanges -----------------------------
(***************************************************************************)
(* The input change detector (commands/input_change_detector.py) over a    *)
(* set of input files that grows and shrinks.  CompileAll has a fixed set  *)
(* of inputs and the whole of compile; here compile is what it reads and   *)
(* what it records.                                                        *)
(*                                                                         *)
(* A file is its name: a stem and the suffixes after it.  A text is its    *)
(* words and whether it has extra white space, which may be inside quotes. *)
(***************************************************************************)
EXTENDS Naturals, Sequences, SequencesExt

CONSTANTS
  Files,  \* the input files there may be
  Words,  \* what they may say
  None,
  MaxEdits, MaxOthers  \* bounds: edits; forced runs, stops and removals of records in all

VARIABLES
  input,    \* the input directory
  hashes,   \* .bash2yaml/input_hashes
  pending,  \* .bash2yaml/compilation.pending
  run,      \* what compile does: where it is, what it has read, what is left to mark
  counts,   \* counters of the bounds
  compiled, \* history: the input as the last run that completed had read it
  raced,    \* history: the files changed after that run had read them
  gone      \* history: the files deleted since their digest was recorded

inputsVars == <<input, hashes, pending, run, counts, compiled, raced, gone>>

Text == [words : Words, spaced : BOOLEAN]
Stages == {"idle", "begun", "read", "marking"}
Bounds == [edits |-> MaxEdits, others |-> MaxOthers]

ASSUME InputsAssumption ==
  /\ \A f \in Files : f.suffixes # <<>>
  /\ None \notin Words /\ None \notin Text
  /\ Bounds \in [{"edits", "others"} -> Nat]

InputsTypeOK ==
  /\ input \in [Files -> Text \cup {None}]
  /\ hashes \in [Files -> Words \cup {None}]
  /\ pending \in BOOLEAN
  /\ run.at \in Stages
  /\ run.read \in [Files -> Text \cup {None}]
  /\ run.todo \subseteq Files /\ run.late \subseteq Files
  /\ compiled \in [Files -> Text \cup {None}]
  /\ raced \subseteq Files /\ gone \subseteq Files

NoTexts == [f \in Files |-> None]
Idle == [at |-> "idle", read |-> NoTexts, todo |-> {}, late |-> {}]

\* Nothing has been compiled; any of the files are there.
InputsInit ==
  /\ input \in [Files -> [words : Words, spaced : {FALSE}] \cup {None}]
  /\ hashes = NoTexts /\ pending = FALSE /\ run = Idle
  /\ counts = [b \in DOMAIN Bounds |-> 0]
  /\ compiled = NoTexts /\ raced = {} /\ gone = {}

Spend(bound) == /\ counts[bound] < Bounds[bound]
                /\ counts' = [counts EXCEPT ![bound] = @ + 1]

----
(* What the detector sees *)

Patterns == {"yml", "yaml", "sh", "py", "js", "rb", "php", "fish"}
InputFiles == {f \in Files : input[f] # None /\ Last(f.suffixes) \in Patterns}

\* The normalized hash of a text: white space is not in it.
compute_content_hash(text) == text.words

\* Mutation of has_file_changed: a file without a digest is not news.
has_recorded_file_changed(f) ==
  hashes[f] # None /\ hashes[f] # compute_content_hash(input[f])

has_file_changed(f) ==
  hashes[f] = None \/ hashes[f] # compute_content_hash(input[f])

needs_compilation == pending \/ \E f \in InputFiles : has_file_changed(f)

----
(* A run of compile *)

StartCompile(force) ==
  /\ run.at = "idle"
  /\ IF force THEN Spend("others") ELSE needs_compilation /\ UNCHANGED counts
  /\ pending' = TRUE
  /\ run' = [run EXCEPT !.at = "begun"]
  /\ UNCHANGED <<input, hashes, compiled, raced, gone>>

\* The templates and the scripts are read and compiled.
ReadInputs ==
  /\ run.at = "begun"
  /\ run' = [run EXCEPT !.at = "read", !.read = input]
  /\ UNCHANGED <<input, hashes, pending, counts, compiled, raced, gone>>

\* mark_compiled lists the files that are there now.
ListInputs ==
  /\ run.at = "read"
  /\ run' = [run EXCEPT !.at = "marking", !.todo = InputFiles]
  /\ UNCHANGED <<input, hashes, pending, counts, compiled, raced, gone>>

\* Each is read again for its hash.
MarkCompiled(f) ==
  /\ run.at = "marking" /\ f \in run.todo /\ input[f] # None
  /\ hashes' = [hashes EXCEPT ![f] = compute_content_hash(input[f])]
  /\ run' = [run EXCEPT !.todo = @ \ {f}]
  /\ gone' = gone \ {f}
  /\ UNCHANGED <<input, pending, counts, compiled, raced>>

\* Mutation of Complete: the marker outlives the run.
CompleteMarked ==
  /\ run.at = "marking" /\ run.todo = {}
  /\ compiled' = run.read /\ raced' = run.late
  /\ run' = Idle
  /\ UNCHANGED <<input, hashes, pending, counts, gone>>

Complete ==
  /\ run.at = "marking" /\ run.todo = {}
  /\ pending' = FALSE
  /\ compiled' = run.read /\ raced' = run.late
  /\ run' = Idle
  /\ UNCHANGED <<input, hashes, counts, gone>>

\* A listed file that has been deleted fails the run.
FileVanishes ==
  /\ run.at = "marking" /\ \E f \in run.todo : input[f] = None
  /\ run' = Idle
  /\ UNCHANGED <<input, hashes, pending, counts, compiled, raced, gone>>

\* A failure or a kill.
Stop ==
  /\ run.at # "idle" /\ Spend("others")
  /\ run' = Idle
  /\ UNCHANGED <<input, hashes, pending, compiled, raced, gone>>

----
(* Others *)

\* The path that cleanup_stale_hashes reconstructs from a.sh.hash: not .hash
\* is removed but the first suffix is put in its place.
Reconstructed(f) == [stem |-> f.stem, suffixes |-> Append(f.suffixes, Head(f.suffixes))]

cleanup_stale_hashes ==
  LET kept == {f \in Files : Reconstructed(f) \in InputFiles} IN
  /\ Spend("others")
  /\ hashes' = [f \in Files |-> IF f \in kept THEN hashes[f] ELSE None]
  /\ UNCHANGED <<input, pending, run, compiled, raced, gone>>

\* The user writes, changes or deletes a file.
Edit(f) ==
  /\ Spend("edits")
  /\ \E text \in Text \cup {None} :
       /\ text # input[f] /\ input' = [input EXCEPT ![f] = text]
       /\ gone' = IF text = None /\ hashes[f] # None THEN gone \cup {f} ELSE gone
  /\ run' = IF run.at \in {"read", "marking"} THEN [run EXCEPT !.late = @ \cup {f}] ELSE run
  /\ UNCHANGED <<hashes, pending, compiled, raced>>

CompileStep ==
  \/ StartCompile(FALSE) \/ ReadInputs \/ ListInputs
  \/ \E f \in Files : MarkCompiled(f)
  \/ Complete \/ FileVanishes

InputsNext ==
  \/ CompileStep \/ StartCompile(TRUE) \/ Stop
  \/ cleanup_stale_hashes
  \/ \E f \in Files : Edit(f)

InputsSpec == InputsInit /\ [][InputsNext]_inputsVars

----
(* Properties *)

WouldSkip == run.at = "idle" /\ ~ needs_compilation

\* Where compile would skip, a file is as the last completed run read it, but
\* for what the detector cannot see: suffixes it does not look at, files that
\* are not there, white space, changes made while that run compiled, and a file
\* that was deleted, left out by a run and put back with its old digest.
SkipsAreExplained ==
  WouldSkip => \A f \in InputFiles \ (raced \cup gone) :
    compiled[f] # None /\ compiled[f].words = input[f].words

\* When edits, stops and forced runs are over, compile finds that nothing is
\* left to do and its marker is gone.
Settles == <>[]WouldSkip
=============================================================================
