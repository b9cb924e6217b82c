------------------------------- MODULE Autogit -------------------------------
(***************************************************************************)
(* run_autogit (commands/autogit.py): stage the configured directories,    *)
(* look at the status of the whole repository, commit and push, each a git *)
(* command of its own that may fail, while the user works on, by hand and  *)
(* with git.                                                               *)
(*                                                                         *)
(* The repository has the input directory, the output directory and the    *)
(* rest.  A text is the number of changes of its area.                     *)
(***************************************************************************)
EXTENDS Naturals

CONSTANT MaxSaves  \* bound: changes of the user, in all areas together

VARIABLES
  work, index, head, upstream,  \* the text of each area in the four places of git
  absent,   \* the configured directories that do not exist
  git,      \* the next git command
  autogitMode,     \* config.autogit_mode
  gitStatus,  \* what run_autogit returned
  started,  \* history: what the configured directories held when it began
  skipped,  \* history: those it passed over as they did not exist
  unpushed  \* history: a commit not pushed was made by hand, or by a run that ended since

gitPlaces == <<work, index, head, upstream>>
gitRun == <<autogitMode, started, skipped>>
gitVars == <<gitPlaces, absent, git, gitStatus, gitRun, unpushed>>

Configured == {"input", "output"}
Areas == Configured \cup {"other"}
Contents == [Areas -> 0..MaxSaves]

ASSUME AutogitAssumption == MaxSaves \in Nat

AutogitTypeOK ==
  /\ {work, index, head, upstream} \subseteq Contents
  /\ absent \subseteq Configured /\ skipped \subseteq Configured
  /\ git \in {"none", "root", "add", "status", "commit", "push"}
  /\ autogitMode \in {"off", "stage", "commit", "push"}
  /\ gitStatus \in {"none", "zero", "one"}
  /\ started \in [Configured -> 0..MaxSaves] /\ unpushed \in BOOLEAN

AutogitInit ==
  /\ work = [a \in Areas |-> 0] /\ index = work /\ head = work /\ upstream = work
  /\ absent = {} /\ skipped = {}
  /\ git = "none" /\ autogitMode = "off" /\ gitStatus = "none"
  /\ started = [d \in Configured |-> 0] /\ unpushed = FALSE

Give(status) == git' = "none" /\ gitStatus' = status
Go(command) == git' = command /\ UNCHANGED gitStatus

----
(* The user *)

\* A file is saved or removed, or the whole directory is removed.
UserChanges(a) ==
  /\ work["input"] + work["output"] + work["other"] < MaxSaves
  /\ work' = [work EXCEPT ![a] = @ + 1]
  /\ absent' \in {absent \ {a}, (absent \cup {a}) \cap Configured}
  /\ UNCHANGED <<index, head, upstream, git, gitStatus, gitRun, unpushed>>

UserStages(a) ==
  /\ index' = [index EXCEPT ![a] = work[a]]
  /\ UNCHANGED <<work, head, upstream, absent, git, gitStatus, gitRun, unpushed>>

UserCommits ==
  /\ index # head /\ head' = index /\ unpushed' = TRUE
  /\ UNCHANGED <<work, index, upstream, absent, git, gitStatus, gitRun>>

UserPushes ==
  /\ upstream' = head /\ unpushed' = FALSE
  /\ UNCHANGED <<work, index, head, absent, git, gitStatus, gitRun>>

----
(* run_autogit *)

StartAutogit(m) ==
  /\ git = "none" /\ autogitMode' = m
  /\ IF m = "off" THEN gitStatus' = "zero" /\ UNCHANGED git
     ELSE gitStatus' = "none" /\ git' = "root"
  /\ started' = [d \in Configured |-> work[d]] /\ skipped' = {}
  /\ UNCHANGED <<gitPlaces, absent, unpushed>>

\* git rev-parse is called in the input directory, which must exist.
GitRoot ==
  /\ git = "root"
  /\ IF "input" \in absent THEN Give("one") ELSE Go("add")
  /\ UNCHANGED <<gitPlaces, absent, gitRun, unpushed>>

\* Mutation of GitAdd: nothing is staged.
GitAddNothing ==
  /\ git = "add" /\ absent # Configured /\ Go("status")
  /\ skipped' = absent
  /\ UNCHANGED <<gitPlaces, absent, autogitMode, started, unpushed>>

\* A directory that does not exist is passed over, though its removal is a change.
GitAdd ==
  /\ git = "add" /\ absent # Configured /\ Go("status")
  /\ index' = [a \in Areas |-> IF a \in Configured \ absent THEN work[a] ELSE index[a]]
  /\ skipped' = absent
  /\ UNCHANGED <<work, head, upstream, absent, autogitMode, started, unpushed>>

\* Neither exists any more: the user is told so, and it is a success.
NoPaths ==
  /\ git = "add" /\ absent = Configured /\ Give("zero")
  /\ skipped' = absent
  /\ UNCHANGED <<gitPlaces, absent, autogitMode, started, unpushed>>

\* The status is that of the repository, not of the configured directories.
GitStatus ==
  /\ git = "status"
  /\ IF work = index /\ index = head THEN Give("zero")
     ELSE IF autogitMode = "stage" THEN Give("zero")
     ELSE Go("commit")
  /\ UNCHANGED <<gitPlaces, absent, gitRun, unpushed>>

\* git commit commits the whole index, and fails when it holds nothing new.
GitCommit ==
  /\ git = "commit"
  /\ IF index = head THEN Give("one") ELSE IF autogitMode = "push" THEN Go("push") ELSE Give("zero")
  /\ head' = index
  /\ unpushed' = (unpushed \/ (index # head /\ autogitMode = "commit"))
  /\ UNCHANGED <<work, index, upstream, absent, gitRun>>

GitPush ==
  /\ git = "push" /\ Give("zero")
  /\ upstream' = head /\ unpushed' = FALSE
  /\ UNCHANGED <<work, index, head, absent, gitRun>>

\* A git command fails, a path lies outside the repository or goes before it is
\* staged, or the HEAD is detached when a branch is needed.
GitFails ==
  /\ git # "none" /\ Give("one")
  /\ unpushed' = (unpushed \/ git = "push")
  /\ UNCHANGED <<gitPlaces, absent, gitRun>>

AutogitNext ==
  \/ \E a \in Areas : UserChanges(a) \/ UserStages(a)
  \/ UserCommits \/ UserPushes
  \/ \E m \in {"off", "stage", "commit", "push"} : StartAutogit(m)
  \/ GitRoot \/ NoPaths \/ GitAdd \/ GitStatus \/ GitCommit \/ GitPush \/ GitFails

AutogitSpec == AutogitInit /\ [][AutogitNext]_gitVars

----
(* Properties *)

\* A success of autogit has committed what the configured directories held when it
\* began, but for one that did not exist and was passed over.  In the mode push it
\* has pushed its own commit, and what it finds to be committed already is on the
\* remote too, unless that commit was made by hand or by an earlier run that did
\* not push it: then there is "No changes to commit" and nothing is pushed.
AutogitSuccessIsReal ==
  gitStatus = "zero" /\ autogitMode \in {"commit", "push"} =>
    \A d \in Configured \ skipped :
      /\ head[d] >= started[d]
      /\ autogitMode = "push" => upstream[d] >= started[d] \/ unpushed
=============================================================================
