---------------------------- MODULE PrecommitHook ----------------------------
(***************************************************************************)
(* install and uninstall of commands/precommit.py against hooks of other   *)
(* origin: the check, the write, the mode bits and the report are steps of *)
(* their own.                                                              *)
(*                                                                         *)
(* A repository is a plain one, one with core.hooksPath inside or outside  *)
(* of it, a submodule or a worktree (.git is a file in both).  A hooksPath *)
(* is unread when git follows it and the tool does not: it is set in the   *)
(* user's own configuration or in an included file, it begins with ~, or   *)
(* configparser refuses a .git/config that git accepts, as one with a key  *)
(* given twice.                                                            *)
(***************************************************************************)
EXTENDS Naturals

VARIABLES
  shape,    \* the repository
  hook,     \* the pre-commit file: none, ours, that of an older release, another's
  runs,     \* it is executable
  step,     \* what the command does next
  force,
  checked,  \* what the command saw
  told,     \* what the user was told
  halfway   \* history: a command stopped between the write and the mode bits

hookVars == <<shape, hook, runs, step, force, checked, told, halfway>>

Shapes == {"plain", "hooksPath inside", "hooksPath outside", "hooksPath unread", "submodule",
           "worktree"}
Hooks == {"none", "ours", "older", "foreign", "cut short"}

HookTypeOK ==
  /\ shape \in Shapes /\ hook \in Hooks /\ checked \in Hooks
  /\ runs \in BOOLEAN /\ force \in BOOLEAN /\ halfway \in BOOLEAN
  /\ step \in {"none", "install", "write", "chmod", "log", "uninstall", "unlink"}
  /\ told \in {"nothing", "ok", "refused", "raised"}

HookInit ==
  /\ shape \in Shapes /\ hook \in {"none", "older", "foreign"} /\ runs = (hook # "none")
  /\ step = "none" /\ force = FALSE /\ checked = "none" /\ told = "nothing"
  /\ halfway = FALSE

\* hooks_dir: .git/config is read for core.hooksPath, but not that of the
\* common directory of a worktree, and where none is read it is .git/hooks.
HookDirInRepository == shape \in {"plain", "hooksPath inside", "hooksPath unread"}
GitReadsHookDir == shape \notin {"worktree", "hooksPath unread"}

Tell(words) == step' = "none" /\ told' = words

UserWritesHook ==
  /\ step \in {"none", "write", "chmod", "unlink"}
  /\ hook' = "foreign" /\ runs' = TRUE
  /\ told' = "nothing" /\ halfway' = FALSE
  /\ UNCHANGED <<shape, step, force, checked>>

NewRelease ==
  /\ step = "none" /\ hook = "ours" /\ hook' = "older" /\ told' = "nothing"
  /\ UNCHANGED <<shape, runs, step, force, checked, halfway>>

StartHookCommand(command, forced) ==
  /\ step = "none" /\ step' = command /\ force' = forced
  /\ told' = "nothing" /\ checked' = "none"
  /\ UNCHANGED <<shape, hook, runs, halfway>>

\* Mutation of CheckInstall: a hook of an older release is up to date.
CheckInstallAnyRelease ==
  /\ step = "install" /\ checked' = hook
  /\ IF hook \in {"ours", "older"} /\ ~ force THEN step' = "log" /\ UNCHANGED told
     ELSE IF hook # "none" /\ ~ force THEN Tell("refused")
     ELSE step' = "write" /\ UNCHANGED told
  /\ UNCHANGED <<shape, hook, runs, force, halfway>>

CheckInstall ==
  /\ step = "install" /\ checked' = hook
  /\ IF hook = "ours" /\ ~ force THEN step' = "log" /\ UNCHANGED told
     ELSE IF hook # "none" /\ ~ force THEN Tell("refused")
     ELSE step' = "write" /\ UNCHANGED told
  /\ UNCHANGED <<shape, hook, runs, force, halfway>>

\* No repository, or has_required_config is false.
Unconfigured ==
  /\ step = "install" /\ Tell("refused")
  /\ UNCHANGED <<shape, hook, runs, force, checked, halfway>>

\* A new file is not executable; one that is replaced keeps its mode.
WriteHook ==
  /\ step = "write" /\ step' = "chmod"
  /\ hook' = "ours" /\ runs' = (hook # "none" /\ runs)
  /\ UNCHANGED <<shape, force, checked, told, halfway>>

MakeExecutable ==
  /\ step = "chmod" /\ step' = "log" /\ runs' = TRUE
  /\ halfway' = FALSE
  /\ UNCHANGED <<shape, hook, force, checked, told>>

\* The last message names the hook relative to the repository, and raises
\* ValueError when it lies elsewhere.
LogPath ==
  /\ step = "log"
  /\ Tell(IF HookDirInRepository THEN "ok" ELSE "raised")
  /\ UNCHANGED <<shape, hook, runs, force, checked, halfway>>

\* Mutation of CheckUninstall: whatever hook there is goes.
CheckUninstallAny ==
  /\ step = "uninstall" /\ checked' = hook
  /\ IF hook = "none" THEN Tell("ok") ELSE step' = "unlink" /\ UNCHANGED told
  /\ UNCHANGED <<shape, hook, runs, force, halfway>>

CheckUninstall ==
  /\ step = "uninstall" /\ checked' = hook
  /\ IF hook = "none" THEN Tell("ok")
     ELSE IF hook # "ours" /\ ~ force THEN Tell("refused")
     ELSE step' = "unlink" /\ UNCHANGED told
  /\ UNCHANGED <<shape, hook, runs, force, halfway>>

\* Its message, too, names the hook relative to the repository.
RemoveHook ==
  /\ step = "unlink" /\ Tell(IF HookDirInRepository THEN "ok" ELSE "raised")
  /\ hook' = "none" /\ runs' = FALSE
  /\ UNCHANGED <<shape, force, checked, halfway>>

\* A kill or an I/O error; one within the write leaves a part of the text.
HookCommandDies ==
  /\ step # "none" /\ Tell("raised")
  /\ \/ step = "write" /\ hook' = "cut short" /\ runs' = (hook # "none" /\ runs)
     \/ UNCHANGED <<hook, runs>>
  /\ halfway' = (halfway \/ step = "chmod")
  /\ UNCHANGED <<shape, force, checked>>

HookNext ==
  \/ UserWritesHook \/ NewRelease
  \/ \E command \in {"install", "uninstall"}, forced \in BOOLEAN : StartHookCommand(command, forced)
  \/ Unconfigured \/ CheckInstall \/ WriteHook \/ MakeExecutable \/ LogPath
  \/ CheckUninstall \/ RemoveHook \/ HookCommandDies

HookSpec == HookInit /\ [][HookNext]_hookVars

----
(* Properties *)

\* Without --force a hook of another origin is replaced or removed only if it
\* was put there after the check (install and uninstall).
HookOfOthersSurvives ==
  [][hook = "foreign" /\ hook' # "foreign" => force \/ checked # "foreign"]_hookVars

\* An install that is reported has left our hook of this release where git
\* reads it and executable, unless the user has written in between or an
\* earlier install stopped before the mode bits, which no later one sets.  Where
\* git follows a core.hooksPath that read_hooks_path does not see, the report is
\* of a hook that git never runs.
ReportedInstallRuns ==
  [][LogPath /\ told' = "ok" /\ hook # "foreign" =>
       /\ hook = "ours" /\ (runs \/ halfway)
       /\ GitReadsHookDir \/ shape = "hooksPath unread"]_hookVars
=============================================================================
