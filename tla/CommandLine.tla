----------------------------- MODULE CommandLine -----------------------------
(***************************************************************************)
(* One use of a command from a front end to its report.  The graphical     *)
(* interface (gui.py) and the terminal interface (tui.py) turn a form into *)
(* a command line, which main of __main__.py parses; the menu of           *)
(* interactive.py calls the handler with a namespace of its own making.    *)
(* The handler's result goes to autogit and then to the exit status.       *)
(*                                                                         *)
(* A command line is the set of its flags; their values are abstracted.    *)
(***************************************************************************)
EXTENDS Naturals

VARIABLES
  call,    \* the command: front end, command, flags or attributes
  stage,   \* how far it has come
  result,  \* what the handler returned or raised
  commits, \* whether autogit has run
  report   \* what the caller is told: a status, or a message of the menu

cliVars == <<call, stage, result, commits, report>>

Common == {"dry-run", "verbose", "quiet", "quiet-attribution"}
Volume == {"verbose", "quiet"}
TuiCommon == {"dry-run"} \cup Volume
----
(* The parser *)

\* Mutation of ProjectFlags: clean does not take --autogit.
ProjectFlagsShort(c) ==
  CASE c = "compile" -> {"in", "out", "parallelism", "watch", "force", "autogit"} \cup Common
    [] c = "clean" -> {"out"} \cup Common
    [] OTHER -> {}

ProjectFlags(c) ==
  CASE c = "compile" -> {"in", "out", "parallelism", "watch", "force", "no-header", "no-fences",
                         "no-hash", "in-place", "traceless", "state-dir", "json", "autogit",
                         "target"} \cup Common
    [] c = "clean" -> {"out", "autogit"} \cup Common
    [] c = "decompile" -> {"in-file", "in-folder", "out", "traceless", "no-rewrite", "state-dir",
                           "autogit", "target"} \cup Common
    [] c = "detect-drift" -> {"out", "json"} \cup Common
    [] OTHER -> {}

TreeFlags(c) ==
  CASE c = "copy2local" -> {"repo-url", "branch", "copy-dir", "source-dir"} \cup Common
    [] c = "init" -> {"force", "component"} \cup Common
    [] c \in {"map-deploy", "commit-map"} -> {"pyproject", "force", "autogit"} \cup Common
    [] OTHER -> {}

NetworkFlags(c) ==
  CASE c = "lint" -> {"out", "gitlab-url", "token", "project-id", "ref", "include-merged-yaml",
                      "parallelism", "timeout", "json"} \cup Common
    [] c = "check-pins" -> {"file", "gitlab-url", "token", "oauth-token", "pin-all", "json"}
                             \cup Common
    [] c = "trigger-pipelines" -> {"project", "variable", "gitlab-url", "token", "wait", "timeout",
                                   "poll-interval"} \cup Common
    [] OTHER -> {}

RepositoryFlags(c) ==
  CASE c \in {"install-precommit", "uninstall-precommit"} ->
         {"repo-root", "force", "quiet-attribution"} \cup Volume
    [] c \in {"doctor", "show-config"} -> Common
    [] c = "detect-uncompiled" -> {"check-only", "list-changed", "in"}
    [] c = "validate" -> {"in", "out", "parallelism", "json", "target"} \cup Common
    [] c = "autogit" -> {"message"} \cup Common
    [] OTHER -> {}

Accepts(c) == ProjectFlags(c) \cup TreeFlags(c) \cup NetworkFlags(c) \cup RepositoryFlags(c)

\* Flags that argparse requires, whatever the configuration says.
Required(c) ==
  CASE c = "copy2local" -> {"repo-url", "branch", "copy-dir", "source-dir"}
    [] c = "trigger-pipelines" -> {"project"}
    [] OTHER -> {}

\* Flags that the configuration can stand in for.
RequiredOrSet(c) ==
  CASE c = "compile" -> {"in", "out"}
    [] c \in {"clean", "decompile", "lint", "detect-drift"} -> {"out"}
    [] c \in {"check-pins", "trigger-pipelines"} -> {"gitlab-url"}
    [] c \in {"validate", "detect-uncompiled"} -> {"in"}
    [] OTHER -> {}

\* What the parser and the checks after the merge find missing.
Missing(c, flags, configured) ==
  (Required(c) \ flags)
    \cup (IF configured \/ "traceless" \in flags THEN {} ELSE RequiredOrSet(c) \ flags)
    \cup (IF c = "decompile" /\ flags \cap {"in-file", "in-folder"} = {} THEN {"in-file"} ELSE {})
----
(* The forms.  Each gives the sets of flags it can put on a command line. *)

Form(always, may) == {always \cup some : some \in SUBSET may}

\* gui.py: run_compile to run_lint
GuiProject(c) ==
  CASE c = "compile" -> Form({"in", "out"},
                             {"parallelism", "dry-run", "watch", "verbose", "force", "autogit"})
    [] c = "clean" -> Form({"out"}, {"dry-run", "autogit"})
    [] c = "decompile" -> UNION {Form({"out", source}, {"dry-run", "verbose", "autogit"}) :
                                   source \in {"in-file", "in-folder"}}
    [] c = "init" -> Form({}, {"dry-run"})
    [] c = "copy2local" -> Form({"repo-url", "branch", "source-dir", "copy-dir"}, {"dry-run"})
    [] c = "detect-drift" -> {{"out"}}
    [] c = "lint" -> Form({"out", "gitlab-url"}, {"token", "project-id", "ref",
                           "include-merged-yaml", "parallelism", "timeout", "verbose"})
    [] OTHER -> {}

\* gui.py: run_install_precommit to run_trigger_pipelines
GuiRepository(c) ==
  CASE c \in {"install-precommit", "uninstall-precommit"} -> Form({}, {"repo-root", "force"})
    [] c \in {"map-deploy", "commit-map"} -> Form({}, {"force", "dry-run"})
    [] c \in {"doctor", "show-config"} -> {{}}
    [] c = "check-pins" -> Form({"file", "gitlab-url"}, {"token", "json", "pin-all"})
    [] c = "validate" -> Form({"in", "out"}, {"parallelism"})
    [] c = "detect-uncompiled" -> Form({"in"}, {"check-only", "list-changed"})
    [] c = "autogit" -> Form({}, {"message"})
    [] c = "trigger-pipelines" ->
         {flags \in Form({"gitlab-url", "token"}, {"project", "variable", "wait", "timeout"}) :
            "timeout" \in flags => "wait" \in flags}
    [] OTHER -> {}

\* tui.py: CompileForm to CleanForm
TuiProject(c) ==
  CASE c = "compile" -> Form({}, {"in", "out", "parallelism", "watch", "force"} \cup TuiCommon)
    [] c = "decompile" -> UNION {Form({}, {source, "out"} \cup TuiCommon) :
                                   source \in {"in-file", "in-folder"}}
    [] c = "lint" -> Form({}, {"out", "gitlab-url", "token", "project-id", "ref", "parallelism",
                               "timeout", "include-merged-yaml"} \cup TuiCommon)
    [] c = "clean" -> Form({}, {"out"} \cup TuiCommon)
    [] OTHER -> {}

\* tui.py: InitForm to CommitMapForm
TuiTree(c) ==
  CASE c = "init" -> Form({}, {"force"} \cup TuiCommon)
    [] c = "copy2local" -> Form({}, {"repo-url", "branch", "source-dir", "copy-dir"} \cup TuiCommon)
    [] c \in {"map-deploy", "commit-map"} -> Form({}, {"pyproject", "force"} \cup TuiCommon)
    [] OTHER -> {}

\* tui.py: CheckPinsForm and TriggerPipelinesForm
TuiNetwork(c) ==
  CASE c = "check-pins" -> Form({}, {"file", "gitlab-url", "token", "oauth-token", "pin-all",
                                     "json"} \cup Volume)
    [] c = "trigger-pipelines" -> Form({}, {"gitlab-url", "token", "project", "variable", "wait",
                                            "timeout", "poll-interval"} \cup Volume)
    [] OTHER -> {}

\* tui.py: PrecommitForm and UtilityForm
TuiUtility(c) ==
  CASE c \in {"install-precommit", "uninstall-precommit"} ->
         Form({}, {"repo-root", "force"} \cup Volume)
    [] c \in {"doctor", "show-config"} -> Form({}, Volume)
    [] c = "detect-drift" -> Form({}, {"out"} \cup Volume)
    [] OTHER -> {}

\* tui.py: DetectUncompiledForm to AutogitForm
TuiCheck(c) ==
  CASE c = "detect-uncompiled" -> Form({}, {"in", "check-only", "list-changed"})
    [] c = "validate" -> Form({}, {"in", "out", "parallelism"} \cup Volume)
    [] c = "autogit" -> Form({}, {"message"} \cup Volume)
    [] OTHER -> {}

Commands == {"compile", "clean", "decompile", "detect-drift", "copy2local", "init", "map-deploy",
             "commit-map", "lint", "check-pins", "trigger-pipelines", "install-precommit",
             "uninstall-precommit", "doctor", "show-config", "detect-uncompiled", "validate",
             "autogit"}

Gui(c) == GuiProject(c) \cup GuiRepository(c)
Tui(c) == TuiProject(c) \cup TuiTree(c) \cup TuiNetwork(c) \cup TuiUtility(c) \cup TuiCheck(c)
----
(* The menu.  Each handler of interactive.py gives the attributes of the   *)
(* namespace it builds; the handlers of __main__.py read some of them.     *)

Options == {"dry_run", "verbose", "quiet"}

\* interactive.py: handle_compile_command to handle_init_command
MenuProject(c) ==
  CASE c = "compile" -> {{"input_dir", "output_dir", "parallelism", "watch", "force"}}
    [] c = "decompile" -> {{"input_file", "output_dir"}, {"input_folder", "output_dir"}}
    [] c = "clean" -> {{"output_dir"}}
    [] c = "lint" -> {{"output_dir", "gitlab_url", "token", "project_id", "ref",
                       "include_merged_yaml", "parallelism", "timeout"}}
    [] c = "init" -> {{"directory"}}
    [] OTHER -> {}

\* interactive.py: handle_copy2local_command to handle_validate_command
MenuRepository(c) ==
  CASE c = "copy2local" -> {{"repo_url", "branch", "source_dir", "copy_dir"}}
    [] c \in {"map-deploy", "commit-map"} -> {{"pyproject_path", "force"}}
    [] c = "detect-drift" -> {{"out"}}
    [] c \in {"doctor", "show-config"} -> {{}}
    [] c \in {"install-precommit", "uninstall-precommit"} -> {{"repo_root", "force"}}
    [] c = "validate" -> {{"input_dir", "output_dir", "parallelism"}}
    [] OTHER -> {}

\* Mutation of MenuRemote: detect-uncompiled is not given list_changed.
MenuRemoteShort(c) ==
  CASE c = "detect-uncompiled" -> {{"input_dir", "check_only"}}
    [] OTHER -> {}

\* interactive.py: handle_detect_uncompiled_command to handle_autogit_command
MenuRemote(c) ==
  CASE c = "detect-uncompiled" -> {{"input_dir", "check_only", "list_changed"}}
    [] c = "check-pins" -> {{"file", "gitlab_url", "token", "oauth_token", "pin_tags_only", "json"}}
    [] c = "trigger-pipelines" ->
         {{"gitlab_url", "token", "project", "wait"} \cup variables \cup waiting :
            variables \in {{}, {"variable"}}, waiting \in {{}, {"timeout", "poll_interval"}}}
    [] c = "autogit" -> {{"message"}}
    [] OTHER -> {}

Menu(c) == {flags \cup Options : flags \in MenuProject(c) \cup MenuRepository(c) \cup MenuRemote(c)}

(* What the handlers of __main__.py read without a default *)

\* lint_handler to trigger_pipelines_handler
ReadsNetwork(c) ==
  CASE c = "lint" -> {"output_dir", "gitlab_url", "token", "project_id", "ref",
                      "include_merged_yaml", "parallelism", "timeout"}
    [] c = "check-pins" -> {"file", "gitlab_url", "token", "oauth_token", "pin_tags_only", "json"}
    [] c = "trigger-pipelines" -> {"variable", "project", "gitlab_url", "token", "wait"}
    [] OTHER -> {}

\* init_handler to compile_handler
ReadsSources(c) ==
  CASE c = "init" -> {"directory", "force"}
    [] c = "copy2local" -> {"dry_run", "repo_url", "branch", "source_dir", "copy_dir"}
    [] c = "compile" -> {"dry_run", "input_dir", "output_dir", "force", "parallelism", "watch"}
    [] OTHER -> {}

\* validate_handler and drift_handler
ReadsOutput(c) ==
  CASE c = "validate" -> {"input_dir", "parallelism"}
    [] c = "detect-drift" -> {"out"}
    [] OTHER -> {}

\* decompile_handler
ReadsPipeline(c) == IF c = "decompile" THEN {"output_dir", "dry_run", "input_file"} ELSE {}

\* commit_map_handler to autogit_handler
ReadsRepository(c) ==
  CASE c \in {"map-deploy", "commit-map"} -> {"dry_run", "force"}
    [] c \in {"install-precommit", "uninstall-precommit"} -> {"repo_root", "force"}
    [] c = "autogit" -> {"message"}
    [] OTHER -> {}

\* clean_handler and handle_change_detection_commands
ReadsChanges(c) ==
  CASE c = "clean" -> {"output_dir", "dry_run"}
    [] c = "detect-uncompiled" -> {"input_dir", "check_only", "list_changed"}
    [] OTHER -> {}

Reads(c) == ReadsNetwork(c) \cup ReadsSources(c) \cup ReadsOutput(c) \cup ReadsPipeline(c)
              \cup ReadsRepository(c) \cup ReadsChanges(c)
----
(* A use of a command *)

NoCall == [front |-> "none", command |-> "none", given |-> {}]

CliInit ==
  /\ call = NoCall /\ stage = "open" /\ result = "pending" /\ commits = 0 /\ report = "pending"

Enter(front, c, flags) ==
  /\ stage = "open" /\ stage' = "entered"
  /\ call' = [front |-> front, command |-> c, given |-> flags]
  /\ UNCHANGED <<result, commits, report>>

\* SmartParser and the merge with the configuration.
Parse(configured) ==
  /\ stage = "entered" /\ call.front \in {"gui", "tui"}
  /\ LET wrong == \/ ~ call.given \subseteq Accepts(call.command)
                  \/ Missing(call.command, call.given, configured) # {}
     IN /\ stage' = IF wrong THEN "done" ELSE "parsed"
        /\ report' = IF wrong THEN "usage" ELSE report
  /\ UNCHANGED <<call, result, commits>>

\* What a handler returns when all went well.
Success(c) == IF c \in {"clean", "detect-uncompiled"} THEN "nothing" ELSE "zero"

\* The handler runs and returns, or raises one of the errors of exit_codes.
Handle(outcome) ==
  /\ stage = "parsed"
  /\ result' = IF outcome = "good" THEN Success(call.command) ELSE outcome
  /\ stage' = "handled"
  /\ UNCHANGED <<call, commits, report>>

\* Mutation of Autogit: it runs whatever the handler returned.
AutogitAlways(succeeds) ==
  /\ stage = "handled" /\ stage' = "settled"
  /\ IF "autogit" \in call.given
     THEN /\ commits' = commits + 1 /\ result' = IF succeeds THEN result ELSE "error"
     ELSE UNCHANGED <<commits, result>>
  /\ UNCHANGED <<call, report>>

\* autogit_after_command, if asked for and the handler returned 0.
Autogit(succeeds) ==
  /\ stage = "handled" /\ stage' = "settled"
  /\ IF result = "zero" /\ "autogit" \in call.given
     THEN /\ commits' = commits + 1 /\ result' = IF succeeds THEN result ELSE "error"
     ELSE UNCHANGED <<commits, result>>
  /\ UNCHANGED <<call, report>>

\* run_cli and resolve_exit_code: no error has the status 0.
Exit ==
  /\ stage = "settled" /\ stage' = "done"
  /\ report' = IF result \in {"zero", "nothing"} THEN "ok" ELSE "failed"
  /\ UNCHANGED <<call, result, commits>>

\* execute_command of the menu: no parser, no autogit.
CallHandler(outcome) ==
  /\ stage = "entered" /\ call.front = "menu" /\ stage' = "done"
  /\ result' = IF ~ Reads(call.command) \subseteq call.given THEN "missing"
               ELSE IF outcome = "good" THEN Success(call.command) ELSE outcome
  /\ report' = IF result' = "zero" THEN "ok" ELSE "failed"
  /\ UNCHANGED <<call, commits>>

Outcomes == {"good", "problems", "error"}

CliNext ==
  \/ \E c \in Commands : \/ \E flags \in Gui(c) : Enter("gui", c, flags)
                         \/ \E flags \in Tui(c) : Enter("tui", c, flags)
                         \/ \E flags \in Menu(c) : Enter("menu", c, flags)
  \/ \E configured \in BOOLEAN : Parse(configured)
  \/ \E outcome \in Outcomes : Handle(outcome) \/ CallHandler(outcome)
  \/ \E succeeds \in BOOLEAN : Autogit(succeeds)
  \/ Exit

CliSpec == CliInit /\ [][CliNext]_cliVars

----
(* Properties *)

\* A form is turned down only for a value its user left empty, never for a
\* flag that the parser of __main__.py does not know for the command.
FormsAreUnderstood ==
  report = "usage" => Missing(call.command, call.given, FALSE) # {}
                      /\ call.given \subseteq Accepts(call.command)

\* The menu gives each handler the attributes it reads, except for init, for
\* a folder to decompile and for a trigger without variables, which fail.
MenuIsComplete ==
  result = "missing"
    => \/ call.command = "init"
       \/ call.command = "decompile" /\ "input_folder" \in call.given
       \/ call.command = "trigger-pipelines" /\ "variable" \notin call.given

\* A command reported as done has succeeded, with the autogit it was asked for;
\* only clean, whose handler returns nothing, drops the request.
ReportIsHonest ==
  stage = "done" =>
    /\ report = "ok" => result \in {"zero", "nothing"}
    /\ report = "ok" /\ "autogit" \in call.given /\ call.command # "clean" => commits = 1
    /\ commits > 0 => result \in {"zero", "error"}
=============================================================================
