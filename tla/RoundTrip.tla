------------------------------- MODULE RoundTrip -------------------------------
(***************************************************************************)
(* decompile followed by compile, for the six CI platforms: the scripts    *)
(* and variables of a document go to files of their own, named after jobs  *)
(* (commands/decompile_all.py), and come back (inline_gitlab_scripts of    *)
(* commands/compile_all.py).  Where each looks for them is the business of *)
(* targets/*.py: job_entries and script_keys for decompile,                *)
(* script_key_paths for compile.                                           *)
(*                                                                         *)
(* A slot is a place of the document that holds a script or variables.     *)
(* What it held at first is named by its number; a text is a sequence that *)
(* begins with the number of the slot it comes from.                       *)
(***************************************************************************)
EXTENDS Naturals, Sequences, SequencesExt

CONSTANT MaxSlots  \* bound: the slots of a document

VARIABLES
  platform,   \* the platform
  slots,      \* the slots, in the order of the document
  round,      \* writing, decompiling, unwritten, decompiled, invalid, compiled
  visiting,   \* the slot decompile looks at
  callOf,     \* the file that each slot calls after decompile, or NoFile
  fileText,   \* the texts of the files
  runsOf,     \* what each script slot runs after compile
  heldBy,     \* where the variables of each slot come from after compile
  heldByRoot  \* and those of the document

roundVars == <<platform, slots, round, visiting, callOf, fileText, runsOf, heldBy, heldByRoot>>

Targets6 == {"gitlab", "github", "circleci", "buildspec", "bitbucket", "semaphore"}
JobNames == {"build", "Build", "build_before_script", "global"}
Slot(place, name, key) == [place |-> place, name |-> name, key |-> key]
NoFile == <<>>
Nothing == <<>>

JobSlots(place, keys) == {Slot(place, name, key) : name \in JobNames, key \in keys}

SlotsOf(t) ==
  CASE t = "gitlab" -> JobSlots("job", {"script", "before_script", "variables"})
         \cup {Slot("anchored", "template", "script"), Slot("reserved", "pages", "script"),
               Slot("hooks", "build", "pre_get_sources_script"), Slot("run list", "build", "script"),
               Slot("list", "build", "list"), Slot("root", "root", "before_script"),
               Slot("root", "root", "variables")}
    [] t = "github" -> JobSlots("step", {"run"}) \cup JobSlots("job", {"variables"})
         \cup {Slot("root", "root", "variables")}
    [] t = "circleci" -> JobSlots("step", {"run"}) \cup JobSlots("job", {"variables"})
         \cup {Slot("object", "deploy", "command")}
    [] t = "buildspec" -> {Slot("phase", "build", "commands"), Slot("finally", "build", "commands")}
    [] t = "bitbucket" -> JobSlots("step", {"script", "after-script"})
    [] t = "semaphore" -> JobSlots("task", {"commands"}) \cup {Slot("prologue", "build", "commands")}

----
(* The platforms *)

IsVariables(s) == s.key = "variables"

\* script_key_paths: a job with an anchor is passed over unless it says
\* must-inline, and so is the reserved name pages.
GitLabSections == {"root", "job", "hooks", "run list", "list"}
GitHubSections == {"step"}
CircleCISections == {"step", "object"}
BuildspecSections == {"phase", "finally"}

\* Of the other platforms decompile writes no document.
Sections(t) ==
  CASE t = "gitlab" -> GitLabSections [] t = "github" -> GitHubSections
    [] t = "circleci" -> CircleCISections [] t = "buildspec" -> BuildspecSections
    [] OTHER -> {}

\* job_entries and script_keys: where decompile looks.  The run of a step is
\* taken whatever its form.
Entries(t) ==
  CASE t = "gitlab" -> {"job", "anchored"} [] t = "github" -> {"step", "job"}
    [] t = "circleci" -> {"step", "object", "job"} [] t = "buildspec" -> {"phase"}
    [] OTHER -> {}

\* target.validate: the commands of a phase are a list, not the call of a script.
Valid == ~ \E i \in DOMAIN slots : callOf[i] # NoFile /\ slots[i].place = "phase"

----
(* File names *)

\* Lower case, and what is no letter, digit, underscore, dot or dash a dash.
Sanitized(name) ==
  CASE name \in {"build", "Build"} -> <<"build">>
    [] name = "build_before_script" -> <<"build", "before_script">>
    [] OTHER -> <<name>>

\* Mutation of create_script_filename: the key is left out.
create_script_filename_of_job(name, key) == Sanitized(name)

create_script_filename(name, key) ==
  IF key = "script" THEN Sanitized(name) ELSE Append(Sanitized(name), key)

VariablesFile(s) ==
  IF s.place = "root" THEN <<"global", "variables">> ELSE Append(Sanitized(s.name), "variables")

FileOf(s) == IF IsVariables(s) THEN VariablesFile(s)
             ELSE create_script_filename(s.name, IF s.place = "object" THEN "run" ELSE s.key)

\* compile asks for the name of the job as it is
CompiledVariablesFile(s) == <<s.name, "variables">>

FileNames == {FileOf(s) : s \in UNION {SlotsOf(t) : t \in Targets6}}
Read(file) == IF file \in FileNames THEN fileText[file] ELSE Nothing

----
(* The commands *)

RoundInit ==
  /\ platform \in Targets6 /\ slots = <<>> /\ round = "writing" /\ visiting = 1
  /\ callOf = <<>> /\ runsOf = <<>> /\ heldBy = <<>> /\ heldByRoot = {}
  /\ fileText = [f \in FileNames |-> Nothing]

\* The variables of the document come first, as decompile takes them first.  Two
\* steps of a job of GitHub may have one name.
WriteSlot(s) ==
  /\ round = "writing" /\ Len(slots) < MaxSlots
  /\ Contains(slots, s) => platform = "github" /\ s.place = "step"
  /\ s = Slot("root", "root", "variables") => slots = <<>>
  /\ slots' = Append(slots, s) /\ callOf' = Append(callOf, NoFile)
  /\ UNCHANGED <<platform, round, visiting, fileText, runsOf, heldBy, heldByRoot>>

StartDecompile ==
  /\ round = "writing" /\ round' = "decompiling"
  /\ UNCHANGED <<platform, slots, visiting, callOf, fileText, runsOf, heldBy, heldByRoot>>

\* decompile_variables_block leaves the variables in the document.
ExtractVariables(s) ==
  /\ fileText' = [fileText EXCEPT ![FileOf(s)] = <<visiting>>]
  /\ UNCHANGED callOf

\* decompile_script_block.  Of the object form of run only the keys are written.
ExtractScript(s) ==
  /\ fileText' = [fileText EXCEPT ![FileOf(s)] =
                 IF s.place = "object" THEN <<visiting, "keys">> ELSE <<visiting>>]
  /\ callOf' = [callOf EXCEPT ![visiting] = FileOf(s)]

\* process_decompile_job.  The document's own variables are extracted whatever
\* the platform.
DecompileSlot ==
  /\ round = "decompiling" /\ visiting <= Len(slots) /\ visiting' = visiting + 1
  /\ LET s == slots[visiting] IN
       IF IsVariables(s) THEN ExtractVariables(s)
       ELSE IF s.place \in Entries(platform) THEN ExtractScript(s)
       ELSE UNCHANGED <<fileText, callOf>>
  /\ UNCHANGED <<platform, slots, round, runsOf, heldBy, heldByRoot>>

\* The rewritten document is written only if something was extracted and it is
\* valid; the scripts are there.
EndDecompile ==
  /\ round = "decompiling" /\ visiting > Len(slots)
  /\ round' = IF \A file \in FileNames : fileText[file] = Nothing THEN "unwritten"
              ELSE IF Valid THEN "decompiled" ELSE "invalid"
  /\ UNCHANGED <<platform, slots, visiting, callOf, fileText, runsOf, heldBy, heldByRoot>>

CompiledRun(i) ==
  IF callOf[i] = NoFile THEN <<i>>
  ELSE IF slots[i].place \in Sections(platform) THEN Read(callOf[i]) ELSE <<i, "call">>

\* What a variables block gets from the file named after its job: what it holds
\* itself wins, but nothing is taken away.
Merged(i) ==
  IF slots[i].place = "root" THEN {i}
  ELSE {i} \cup ToSet(Read(CompiledVariablesFile(slots[i])))

\* inline_gitlab_scripts over the output of decompile
Compile ==
  /\ round = "decompiled" /\ round' = "compiled"
  /\ runsOf' = [i \in DOMAIN slots |-> CompiledRun(i)]
  /\ heldBy' = [i \in DOMAIN slots |-> IF IsVariables(slots[i]) THEN Merged(i) ELSE {}]
  /\ heldByRoot' = ToSet(Read(<<"global", "variables">>))
                    \cup {i \in DOMAIN slots : slots[i] = Slot("root", "root", "variables")}
  /\ UNCHANGED <<platform, slots, visiting, callOf, fileText>>

RoundNext ==
  \/ \E s \in SlotsOf(platform) : WriteSlot(s)
  \/ StartDecompile \/ DecompileSlot \/ EndDecompile \/ Compile

RoundSpec == RoundInit /\ [][RoundNext]_roundVars

----
(* Properties *)

\* Two jobs have names alike, in another case or one with the name of a key, or
\* two steps of a job have the same name.
Alike(i, j) ==
  \/ i # j /\ slots[i] = slots[j]
  \/ /\ slots[i].name # slots[j].name
     /\ {slots[i].name, slots[j].name} \subseteq {"build", "Build", "build_before_script"}
Alone(i) == \A j \in DOMAIN slots : ~ Alike(i, j)
NoJobGlobal == \A i \in DOMAIN slots : slots[i] # Slot("job", "global", "variables")

\* What decompile takes apart, compile puts together: each script is again in its
\* place and each job has its own variables, if no two jobs and no two steps of a
\* job have names alike: else they share a file, and one script is lost.  A job
\* with an anchor keeps the call, as compile passes over it; the object form of a
\* run of CircleCI is lost; a job global gives its variables to all.  It is about
\* GitLab, GitHub and CircleCI: of the other platforms decompile never writes a
\* document that compile could read.
RoundTripKeeps ==
  round = "compiled" =>
    /\ \A i \in DOMAIN slots :
         Alone(i) => /\ runsOf[i] = <<i>> \/ slots[i].place \in {"anchored", "object"}
                     /\ heldBy[i] \subseteq {i}
    /\ NoJobGlobal => \A i \in heldByRoot : slots[i].place = "root"
=============================================================================
