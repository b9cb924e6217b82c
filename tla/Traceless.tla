------------------------------ MODULE Traceless ------------------------------
(***************************************************************************)
(* Traceless mode (commands/traceless_cmds.py with run_decompile_traceless *)
(* and write_compiled_file_no_sidecar): YAML files of the working tree are *)
(* adopted into the state directory, where their scripts are edited, and   *)
(* compiled back in place.  Saves of the state are atomic here; that they  *)
(* are is what StateStore shows.                                           *)
(*                                                                         *)
(* A text is the revision of its script and its layout: written by hand or *)
(* the tool's; a bare text holds no script and no variables.  Any other    *)
(* has one job with one script, kept at Script(f) in the state directory.  *)
(***************************************************************************)
EXTENDS Naturals, Sequences, SequencesExt

CONSTANTS
  Order,             \* the files of the repository, sorted by path
  Folder(_), Job(_), \* the directory of a file, and the name of its job
  Procs,             \* processes that run traceless commands
  None,
  QuietAdopt, \* nothing else is under way while a file is adopted
  MaxEdits, MaxStops, MaxShreds  \* bounds of the model

VARIABLES
  tree,      \* the working tree
  sources,   \* <state-dir>/sources: the revision of each extracted script
  yaml,      \* the files whose uncompiled YAML is there
  hashes,    \* state.json: the recorded text of each file
  adopted,   \* state.json: the files with a source record
  proc,      \* what each process does
  shredding, \* what a shred has still to remove; {} when none is under way
  edits, stops, shreds,  \* counters of the bounds
  manual,    \* history: the text of the tree is the user's, not captured yet
  blind,     \* history: it was recorded by an adopt that did not extract it
  torn,      \* history: it was published and its record not written
  own,       \* history: the revisions that belong to a file
  scripted,  \* history: the files registered with a script
  damaged    \* history: a shred died half-way and no adopt repaired the file

stateDir == <<sources, yaml, hashes, adopted>>
counters == <<edits, stops, shreds>>
history == <<manual, blind, torn, own, scripted, damaged>>
tracelessVars == <<tree, stateDir, proc, shredding, counters, history>>

Files == ToSet(Order)
First(f) == CHOOSE i \in 1..Len(Order) : Order[i] = f
Revs == 1..(Len(Order) + MaxEdits)
Text == [rev : Revs, layout : {"tool", "hand", "bare"}]

\* Mutation of Script: all extracted scripts go to one directory.
ScriptInOneFolder(f) == <<"sources", Job(f)>>

\* dest_dir mirrors the directory of the file; the name comes from the job.
Script(f) == <<Folder(f), Job(f)>>
Scripts == {Script(f) : f \in Files}

ASSUME TracelessAssumption ==
  /\ Order \in Seq(Files) /\ IsInjective(Order)
  /\ None \notin Text /\ None \notin Revs
  /\ QuietAdopt \in BOOLEAN
  /\ {MaxEdits, MaxStops, MaxShreds} \subseteq Nat

Idle == [at |-> "idle", file |-> None, text |-> None, seen |-> None, todo |-> {}, force |-> FALSE]

TracelessTypeOK ==
  /\ tree \in [Files -> Text \cup {None}]
  /\ sources \in [Scripts -> Revs \cup {None}]
  /\ yaml \subseteq Files
  /\ hashes \in [Files -> Text \cup {None}]
  /\ adopted \subseteq Files
  /\ \A p \in Procs :
       /\ proc[p].at \in {"idle", "extract", "rewrite", "register", "recompile", "render",
                          "lock", "publish", "record"}
       /\ proc[p].file \in Files \cup {None}
       /\ proc[p].text \in Text \cup {None} /\ proc[p].seen \in Text \cup {None}
       /\ proc[p].todo \subseteq Files /\ proc[p].force \in BOOLEAN
  /\ shredding \subseteq {"state", "sources"}
  /\ manual \subseteq Files /\ blind \subseteq Files /\ torn \subseteq Files
  /\ scripted \subseteq Files /\ damaged \subseteq Files
  /\ own \in [Files -> SUBSET Revs]
  /\ edits \in 0..MaxEdits

\* A repository of hand-written files and no state directory.
TracelessInit ==
  /\ \E bare \in SUBSET Files :
       tree = [f \in Files |-> [rev |-> First(f), layout |-> IF f \in bare THEN "bare" ELSE "hand"]]
  /\ sources = [s \in Scripts |-> None] /\ yaml = {}
  /\ hashes = [f \in Files |-> None] /\ adopted = {}
  /\ proc = [p \in Procs |-> Idle]
  /\ shredding = {}
  /\ edits = 0 /\ stops = 0 /\ shreds = 0
  /\ manual = Files /\ blind = {} /\ torn = {} /\ scripted = {} /\ damaged = {}
  /\ own = [f \in Files |-> {First(f)}]

----
(* adopt *)

Fresh == Len(Order) + edits + 1
Goto(p, step) == proc' = [proc EXCEPT ![p] = [@ EXCEPT !.at = step]]
Return(p) == proc' = [proc EXCEPT ![p] = Idle]

Adopting(p) == proc[p].at \in {"extract", "rewrite", "register", "recompile"}

\* run_traceless_adopt reads the file for the comparison at the end.
StartAdopt(p, f) ==
  /\ proc[p].at = "idle"
  /\ shredding = {} /\ tree[f] # None
  /\ QuietAdopt => \A q \in Procs : proc[q].at = "idle"
  /\ proc' = [proc EXCEPT ![p] = [Idle EXCEPT !.at = "extract", !.file = f, !.seen = tree[f]]]
  /\ UNCHANGED <<tree, stateDir, shredding, counters, history>>

HasScript(text) == text.layout # "bare"

\* run_decompile_gitlab_file reads the file again and writes its scripts.
Extract(p) ==
  LET f == proc[p].file IN
  /\ proc[p].at = "extract" /\ tree[f] # None
  /\ sources' = IF HasScript(tree[f]) THEN [sources EXCEPT ![Script(f)] = tree[f].rev] ELSE sources
  /\ proc' = [proc EXCEPT ![p] = [@ EXCEPT !.at = "rewrite", !.text = tree[f]]]
  /\ UNCHANGED <<tree, yaml, hashes, adopted, shredding, counters, history>>

\* Where nothing was extracted no YAML is written, and the adoption goes on.
WriteUncompiled(p) ==
  /\ proc[p].at = "rewrite"
  /\ yaml' = IF HasScript(proc[p].text) THEN yaml \cup {proc[p].file} ELSE yaml
  /\ Goto(p, "register")
  /\ UNCHANGED <<tree, sources, hashes, adopted, shredding, counters, history>>

\* Mutation of Register: the files are not waited for.
RegisterEarly(p) ==
  LET f == proc[p].file IN
  /\ proc[p].at \in {"rewrite", "register"} /\ tree[f] # None
  /\ hashes' = [hashes EXCEPT ![f] = tree[f]]
  /\ adopted' = adopted \cup {f}
  /\ scripted' = IF HasScript(proc[p].text) THEN scripted \cup {f} ELSE scripted
  /\ Goto(p, IF proc[p].at = "rewrite" THEN "rewrite" ELSE "recompile")
  /\ UNCHANGED <<tree, sources, yaml, shredding, counters, manual, blind, torn, own, damaged>>

\* The source record, and the hash of what the file is now, in one save; also
\* for a file that nothing was extracted from.
Register(p) ==
  LET f == proc[p].file
      extracted == HasScript(proc[p].text)
  IN
  /\ proc[p].at = "register" /\ tree[f] # None
  /\ hashes' = [hashes EXCEPT ![f] = tree[f]]
  /\ adopted' = adopted \cup {f}
  /\ Goto(p, "recompile")
  /\ manual' = IF tree[f] = proc[p].text /\ extracted THEN manual \ {f} ELSE manual
  /\ blind' = IF tree[f] = proc[p].text /\ extracted THEN blind \ {f} ELSE blind \cup {f}
  /\ torn' = torn \ {f}
  /\ scripted' = IF extracted THEN scripted \cup {f} ELSE scripted
  /\ damaged' = IF extracted THEN damaged \ {f} ELSE damaged
  /\ UNCHANGED <<tree, sources, yaml, shredding, counters, own>>

\* Mutation of Renderable: the uncompiled YAML is taken to be there.
RenderableUnchecked(f) == f \in adopted

\* _compile_state_source: the uncompiled YAML with its script.
Renderable(f) == f \in yaml /\ sources[Script(f)] # None
Rendered(f) == [rev |-> sources[Script(f)], layout |-> "tool"]

\* The round trip is compared with what was read first; the verdict is saved
\* with the source record.
ReportRoundTrip(p) ==
  LET f == proc[p].file IN
  /\ proc[p].at = "recompile" /\ Renderable(f)
  /\ adopted' = adopted \cup {f}
  /\ Return(p)
  /\ UNCHANGED <<tree, sources, yaml, hashes, shredding, counters, history>>

----
(* compile *)

StartCompile(p, force) ==
  /\ proc[p].at = "idle"
  /\ shredding = {} /\ adopted # {}
  /\ QuietAdopt => \A q \in Procs : ~ Adopting(q)
  /\ proc' = [proc EXCEPT ![p] = [Idle EXCEPT !.at = "render", !.todo = adopted, !.force = force]]
  /\ UNCHANGED <<tree, stateDir, shredding, counters, history>>

\* The records are taken in the order of their paths.
Turn(p, f) ==
  proc[p].at = "render" /\ f \in proc[p].todo /\ \A g \in proc[p].todo : First(f) <= First(g)

RenderNext(p, f) ==
  /\ Turn(p, f) /\ Renderable(f)
  /\ proc' = [proc EXCEPT ![p] = [@ EXCEPT !.at = "lock", !.file = f, !.text = Rendered(f)]]
  /\ UNCHANGED <<tree, stateDir, shredding, counters, history>>

\* The lock of the output, held until its record is saved.
OutputFree(p) == \A q \in Procs \ {p} :
  proc[q].at \in {"publish", "record"} => proc[q].file # proc[p].file

NextFile(p) ==
  proc' = [proc EXCEPT ![p] =
             [Idle EXCEPT !.at = "render", !.force = proc[p].force,
                          !.todo = proc[p].todo \ {proc[p].file}]]

\* Mutation of UpToDate: an equal text is left with the record it has.
UpToDateUnrepaired(p) ==
  LET f == proc[p].file IN
  /\ proc[p].at = "lock" /\ OutputFree(p) /\ tree[f] = proc[p].text
  /\ NextFile(p) /\ torn' = torn \ {f}
  /\ manual' = manual \ {f} /\ blind' = blind \ {f}
  /\ UNCHANGED <<tree, stateDir, shredding, counters, own, scripted, damaged>>

\* An equal text is not written; its record is repaired if it differs.
UpToDate(p) ==
  LET f == proc[p].file IN
  /\ proc[p].at = "lock" /\ OutputFree(p) /\ tree[f] = proc[p].text
  /\ IF hashes[f] # tree[f]
     THEN /\ proc' = [proc EXCEPT ![p] = [@ EXCEPT !.at = "record", !.seen = tree[f]]]
          /\ UNCHANGED <<manual, blind, torn>>
     ELSE /\ NextFile(p) /\ torn' = torn \ {f}
          /\ manual' = manual \ {f} /\ blind' = blind \ {f}
  /\ UNCHANGED <<tree, stateDir, shredding, counters, own, scripted, damaged>>

\* Mutation of Vouches: any record vouches for any text.
AnyRecordVouches(p) ==
  LET f == proc[p].file IN
  tree[f] = None \/ proc[p].force \/ hashes[f] # None

\* content_matches, unless the output is missing or --force was given.
Vouches(p) ==
  LET f == proc[p].file IN
  tree[f] = None \/ proc[p].force \/ hashes[f] = tree[f]

Accept(p) ==
  LET f == proc[p].file IN
  /\ proc[p].at = "lock" /\ OutputFree(p) /\ tree[f] # proc[p].text /\ Vouches(p)
  /\ proc' = [proc EXCEPT ![p] = [@ EXCEPT !.at = "publish", !.seen = tree[f]]]
  /\ UNCHANGED <<tree, stateDir, shredding, counters, history>>

\* A CompileError ends the run: the files after this one are not compiled.
Refuse(p) ==
  LET f == proc[p].file IN
  /\ proc[p].at = "lock" /\ OutputFree(p) /\ tree[f] # proc[p].text /\ ~ Vouches(p)
  /\ Return(p)
  /\ UNCHANGED <<tree, stateDir, shredding, counters, history>>

Publish(p) ==
  LET f == proc[p].file IN
  /\ proc[p].at = "publish"
  /\ tree' = [tree EXCEPT ![f] = proc[p].text]
  /\ Goto(p, "record")
  /\ manual' = manual \ {f} /\ blind' = blind \ {f} /\ torn' = torn \cup {f}
  /\ UNCHANGED <<stateDir, shredding, counters, own, scripted, damaged>>

SaveRecord(p) ==
  LET f == proc[p].file IN
  /\ proc[p].at = "record"
  /\ hashes' = [hashes EXCEPT ![f] = proc[p].text]
  /\ IF tree[f] = proc[p].text
     THEN manual' = manual \ {f} /\ blind' = blind \ {f} /\ torn' = torn \ {f}
     ELSE UNCHANGED <<manual, blind, torn>>
  /\ NextFile(p)
  /\ UNCHANGED <<tree, sources, yaml, adopted, shredding, counters, own, scripted, damaged>>

EndCompile(p) ==
  /\ proc[p].at = "render" /\ proc[p].todo = {}
  /\ Return(p)
  /\ UNCHANGED <<tree, stateDir, shredding, counters, history>>

\* A file that is gone, a source that is missing: the command raises.
Raise(p) ==
  LET f == proc[p].file IN
  /\ \/ proc[p].at \in {"extract", "register"} /\ tree[f] = None
     \/ proc[p].at = "recompile" /\ ~ Renderable(f)
     \/ \E g \in Files : Turn(p, g) /\ ~ Renderable(g)
  /\ Return(p)
  /\ UNCHANGED <<tree, stateDir, shredding, counters, history>>

\* A validation, lock or I/O failure, or a kill, at any step.
Stop(p) ==
  /\ proc[p].at # "idle" /\ stops < MaxStops /\ stops' = stops + 1
  /\ Return(p)
  /\ UNCHANGED <<tree, stateDir, shredding, edits, shreds, history>>

----
(* shred, while no other command is under way *)

StartShred ==
  /\ shreds < MaxShreds /\ shreds' = shreds + 1
  /\ shredding = {} /\ \A p \in Procs : proc[p].at = "idle"
  /\ shredding' = {"state", "sources"}
  /\ UNCHANGED <<tree, stateDir, proc, edits, stops, history>>

\* rmtree removes in any order.
ShredState ==
  /\ "state" \in shredding /\ shredding' = shredding \ {"state"}
  /\ hashes' = [f \in Files |-> None] /\ adopted' = {} /\ scripted' = {}
  /\ manual' = {f \in Files : tree[f] # None}
  /\ UNCHANGED <<tree, sources, yaml, proc, counters, blind, torn, own, damaged>>

ShredSources ==
  /\ "sources" \in shredding /\ shredding' = shredding \ {"sources"}
  /\ sources' = [s \in Scripts |-> None] /\ yaml' = {}
  /\ UNCHANGED <<tree, hashes, adopted, proc, counters, history>>

ShredDies ==
  /\ shredding # {} /\ stops < MaxStops /\ stops' = stops + 1
  /\ shredding' = {} /\ damaged' = Files
  /\ UNCHANGED <<tree, stateDir, proc, edits, shreds, manual, blind, torn, own, scripted>>

----
(* The user *)

EditTree(f) ==
  /\ edits < MaxEdits /\ edits' = edits + 1
  /\ \E layout \in {"tool", "hand", "bare"} :
       tree' = [tree EXCEPT ![f] = [rev |-> Fresh, layout |-> layout]]
  /\ manual' = manual \cup {f} /\ blind' = blind \ {f}
  /\ own' = [own EXCEPT ![f] = @ \cup {Fresh}]
  /\ UNCHANGED <<stateDir, proc, shredding, stops, shreds, torn, scripted, damaged>>

DeleteFromTree(f) ==
  /\ edits < MaxEdits /\ edits' = edits + 1
  /\ tree[f] # None /\ tree' = [tree EXCEPT ![f] = None]
  /\ manual' = manual \ {f} /\ blind' = blind \ {f}
  /\ UNCHANGED <<stateDir, proc, shredding, stops, shreds, torn, own, scripted, damaged>>

EditScript(s) ==
  /\ edits < MaxEdits /\ edits' = edits + 1
  /\ shredding = {} /\ sources[s] # None
  /\ sources' = [sources EXCEPT ![s] = Fresh]
  /\ own' = [f \in Files |-> IF Script(f) = s THEN own[f] \cup {Fresh} ELSE own[f]]
  /\ UNCHANGED <<tree, yaml, hashes, adopted, proc, shredding, stops, shreds,
                 manual, blind, torn, scripted, damaged>>

Compile(p) ==
  \/ \E f \in Files : RenderNext(p, f)
  \/ UpToDate(p) \/ Accept(p) \/ Refuse(p) \/ Publish(p)
  \/ SaveRecord(p) \/ EndCompile(p)
Adopt(p) == Extract(p) \/ WriteUncompiled(p) \/ Register(p) \/ ReportRoundTrip(p)

TracelessNext ==
  \/ \E p \in Procs, f \in Files : StartAdopt(p, f)
  \/ \E p \in Procs, force \in BOOLEAN : StartCompile(p, force)
  \/ \E p \in Procs : \/ Adopt(p) \/ Compile(p) \/ Raise(p) \/ Stop(p)
  \/ StartShred \/ ShredState \/ ShredSources \/ ShredDies
  \/ \E f \in Files : EditTree(f) \/ DeleteFromTree(f)
  \/ \E s \in Scripts : EditScript(s)

TracelessSpec == TracelessInit /\ [][TracelessNext]_tracelessVars

----
(* Properties *)

\* compile without --force replaces a text of the user only if it was put
\* there after the check under the output lock (write_compiled_file_no_sidecar),
\* or if an adopt has recorded it without extracting it: it came between the two
\* reads of the adopt, or holds no script while an older YAML is still there.
TracelessEditsSurvive ==
  [][\A p \in Procs :
       LET f == proc[p].file IN
       Publish(p) /\ ~ proc[p].force /\ f \in manual
       => tree[f] # proc[p].seen \/ f \in blind]_tracelessVars

\* A text of the tool is taken for a manual edit only where an interruption
\* between the output and its record has not been repaired by a later run.
RefusalsAreReal ==
  [][\A p \in Procs :
       LET f == proc[p].file IN
       Refuse(p) => f \in manual \cup torn \cup damaged]_tracelessVars

\* What was once registered with a script can be compiled, whatever is adopted
\* after: adopt writes the scripts and the uncompiled YAML before the record that
\* names them, and a text without scripts takes nothing away.  A file that never
\* had a script when it was adopted is registered too and has no YAML
\* (decompile_all.py): every compile raises when its turn comes.
AdoptedIsRenderable ==
  shredding = {} => \A f \in scripted \ damaged : f \in adopted /\ Renderable(f)

\* compile publishes for a file only what was adopted from that file or
\* written by the user into its script.
PublishesOwnScript ==
  [][\A p \in Procs : Publish(p) => proc[p].text.rev \in own[proc[p].file]]_tracelessVars
=============================================================================
