----------------------------- MODULE OutputTree -----------------------------
(***************************************************************************)
(* The output directory that compile, clean and detect-drift share: one    *)
(* compiled file per template and the integrity record (".hash" file) that *)
(* says what bash2yaml last wrote there.  A record lives in one of two     *)
(* places: centralized, under <out>/.bash2yaml/output_hashes (newHash), or *)
(* beside the output as <file>.yml.hash, the layout of older releases      *)
(* (oldHash).                                                              *)
(*                                                                         *)
(* A text is abstracted to what the code compares: doc is the data the     *)
(* YAML parses to, layout is everything yaml_is_same looks through         *)
(* (comments, quoting, trailing blanks).  Text equality is the exact       *)
(* comparison of clean and detect-drift, equality of doc the comparison    *)
(* compile makes.                                                          *)
(***************************************************************************)

CONSTANTS
  Templates,    \* the *.yml / *.yaml files of the input directory
  Revs,         \* the contents a source file can have
  ManualDoc,    \* YAML data that no compilation produces
  CorruptDoc,   \* stands for text that does not parse as YAML
  Absent,       \* no file at the path
  Garbled       \* a hash file that does not decode, or decodes to non-YAML

VARIABLES out, newHash, oldHash

treeVars == <<out, newHash, oldHash>>

\* The data a template compiles to: its own revision (with the scripts it
\* inlines) and the revision of global_variables.sh it was compiled with.
CompiledDocs == [own : Revs, globals : Revs]

CompiledText(own, globals) ==
  [doc |-> [own |-> own, globals |-> globals], layout |-> "tool"]

CompiledTexts == [doc : CompiledDocs, layout : {"tool"}]

Texts == [doc : CompiledDocs \cup {ManualDoc, CorruptDoc},
          layout : {"tool", "user"}]

Records == Texts \cup {Absent, Garbled}

ASSUME TreeAssumption ==
  /\ ManualDoc \notin CompiledDocs /\ CorruptDoc \notin CompiledDocs
  /\ ManualDoc # CorruptDoc
  /\ Absent \notin Texts /\ Garbled \notin Texts /\ Absent # Garbled

TreeTypeOK ==
  /\ out \in [Templates -> Texts \cup {Absent}]
  /\ newHash \in [Templates -> Records]
  /\ oldHash \in [Templates -> Records]

\* A user changed the data of the file, or broke it.
IsManual(text) == text \in Texts /\ text.doc \notin CompiledDocs

----
(* hash_path_helpers.py *)

\* find_hash_file: what the centralized record says, else the sibling one.
find_hash_file(f) == IF newHash[f] # Absent THEN newHash[f] ELSE oldHash[f]

\* iter_hash_files_in_directory: the places listed for f; the sibling file is
\* listed only when there is no centralized one.
iter_hash_files_in_directory(f) ==
  {p \in {"new", "old"} : \/ p = "new" /\ newHash[f] # Absent
                          \/ p = "old" /\ oldHash[f] # Absent /\ newHash[f] = Absent}

RecordAt(f, place) == IF place = "new" THEN newHash[f] ELSE oldHash[f]

\* Mutation of migrate_hash_file: the new record is made from the output.
migrate_hash_file_from_output(f) ==
  /\ oldHash[f] # Absent
  /\ newHash' = IF newHash[f] = Absent
                THEN [newHash EXCEPT ![f] = out[f]] ELSE newHash
  /\ oldHash' = [oldHash EXCEPT ![f] = Absent]

\* migrate_hash_file: drop the sibling record when a centralized one exists,
\* otherwise move it there.  Both file operations may fail; the failure is
\* logged and the record stays where it was.
migrate_hash_file(f) ==
  \/ /\ oldHash[f] # Absent
     /\ newHash' = IF newHash[f] = Absent
                   THEN [newHash EXCEPT ![f] = oldHash[f]] ELSE newHash
     /\ oldHash' = [oldHash EXCEPT ![f] = Absent]
  \/ UNCHANGED <<newHash, oldHash>>

----
(* clean_all.py and detect_drift.py: inspection *)

\* list_stray_files, as <<which file, template>>.  An output with no record
\* and a record with no output are strays.  So is every sibling record that
\* stands alone: paired with its output it falls through to the test for
\* ordinary files, which looks for "<file>.yml.hash.hash".
list_stray_files ==
  {<<"out", f>> : f \in {g \in Templates : /\ out[g] # Absent
                                           /\ find_hash_file(g) = Absent}}
  \cup {<<"newHash", f>> : f \in {g \in Templates : /\ newHash[g] # Absent
                                                    /\ out[g] = Absent}}
  \cup {<<"oldHash", f>> : f \in {g \in Templates :
                                    "old" \in iter_hash_files_in_directory(g)}}

\* is_target_unchanged: the exact comparison; clean acts on TRUE only.
is_target_unchanged(f, place) == RecordAt(f, place) = out[f]

\* run_detect_drift: the outputs it reports, as drifted or as errors.
run_detect_drift ==
  {f \in Templates : \E place \in iter_hash_files_in_directory(f) :
                        ~ is_target_unchanged(f, place)}
=============================================================================
