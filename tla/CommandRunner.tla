----------------------------- MODULE CommandRunner -----------------------------
(***************************************************************************)
(* How the front ends run a command as a child process.                    *)
(*                                                                         *)
(* gui.py: CommandRunner starts a thread for each command; the main thread *)
(* asks is_running before it starts one, and Stop terminates               *)
(* current_process.  Both fields are shared and no lock protects them.     *)
(*                                                                         *)
(* tui.py: each command has a CommandScreen of its own, which runs it in a *)
(* worker of the event loop that reads its output without ever yielding.   *)
(***************************************************************************)
EXTENDS Naturals, FiniteSets

CONSTANT MaxCommands  \* bound: commands started from the interface

VARIABLES
  interface,  \* which of the two the user has opened
  child,      \* the process of each command
  unread,     \* history: processes whose output could not be read to its end
  is_running, current_process,
  worker,     \* gui: where the thread of each command is
  stream,     \* gui: the process whose output a thread reads
  crossed,    \* history: a command was started while a thread was ending
  loop,       \* tui: who has the event loop
  screen      \* tui: the command whose screen is open

guiRunner == <<is_running, current_process, worker, stream, crossed>>
tuiRunner == <<loop, screen>>
runnerVars == <<interface, child, unread, guiRunner, tuiRunner>>

Runs == 1..MaxCommands
NoProcess == 0

ASSUME RunnerAssumption == MaxCommands \in Nat

RunnerTypeOK ==
  /\ interface \in {"gui", "tui"}
  /\ child \in [Runs -> {"none", "alive", "ended"}] /\ unread \subseteq Runs
  /\ is_running \in BOOLEAN /\ current_process \in Runs \cup {NoProcess}
  /\ worker \in [Runs -> {"none", "starting", "opened", "reading", "waiting", "finally",
                               "clearing", "ended"}]
  /\ stream \in [Runs -> Runs \cup {NoProcess}]
  /\ crossed \in BOOLEAN
  /\ loop \in {"free", "worker"} /\ screen \in Runs \cup {NoProcess}

RunnerInit ==
  /\ interface \in {"gui", "tui"}
  /\ worker = [c \in Runs |-> "none"] /\ child = worker /\ unread = {}
  /\ is_running = FALSE /\ current_process = NoProcess
  /\ stream = [c \in Runs |-> NoProcess]
  /\ crossed = FALSE
  /\ loop = "free" /\ screen = NoProcess

ChildEnds(c) ==
  /\ child[c] = "alive" /\ child' = [child EXCEPT ![c] = "ended"]
  /\ UNCHANGED <<interface, unread, guiRunner, tuiRunner>>

----
(* gui.py *)

At(c, from, to) == worker[c] = from /\ worker' = [worker EXCEPT ![c] = to]

\* Mutation of run_command: a running command is not asked about.
run_command_unchecked(c) ==
  /\ At(c, "none", "starting") /\ is_running' = TRUE
  /\ crossed' = (crossed \/ \E d \in Runs : worker[d] = "clearing")
  /\ UNCHANGED <<current_process, child, unread, stream>>

run_command(c) ==
  /\ ~ is_running
  /\ At(c, "none", "starting") /\ is_running' = TRUE
  /\ crossed' = (crossed \/ \E d \in Runs : worker[d] = "clearing")
  /\ UNCHANGED <<current_process, child, unread, stream>>

StartProcess(c) ==
  /\ At(c, "starting", "opened")
  /\ child' = [child EXCEPT ![c] = "alive"] /\ current_process' = c
  /\ UNCHANGED <<is_running, unread, stream, crossed>>

StartFails(c) ==
  /\ At(c, "starting", "finally")
  /\ UNCHANGED <<is_running, current_process, child, unread, stream, crossed>>

\* The thread goes through the field, which by now may be cleared or another's.
OpenStream(c) ==
  /\ At(c, "opened", IF current_process = NoProcess THEN "finally" ELSE "reading")
  /\ stream' = [stream EXCEPT ![c] = current_process]
  /\ UNCHANGED <<is_running, current_process, child, unread, crossed>>

EndOfOutput(c) ==
  /\ At(c, "reading", "waiting") /\ child[stream[c]] = "ended"
  /\ UNCHANGED <<is_running, current_process, child, unread, stream, crossed>>

\* readline meets bytes that are no UTF-8, or after() fails: whatever the child
\* does, the thread goes on to its finally block.
ReadingFails(c) ==
  /\ At(c, "reading", "finally") /\ unread' = unread \cup {stream[c]}
  /\ UNCHANGED <<is_running, current_process, child, stream, crossed>>

WaitForChild(c) ==
  /\ At(c, "waiting", "finally")
  /\ current_process # NoProcess => child[current_process] = "ended"
  /\ UNCHANGED <<is_running, current_process, child, unread, stream, crossed>>

\* The two assignments of the finally block.
ClearRunning(c) ==
  /\ At(c, "finally", "clearing") /\ is_running' = FALSE
  /\ UNCHANGED <<current_process, child, unread, stream, crossed>>
ClearProcess(c) ==
  /\ At(c, "clearing", "ended") /\ current_process' = NoProcess
  /\ UNCHANGED <<is_running, child, unread, stream, crossed>>

stop_command ==
  /\ current_process # NoProcess
  /\ child' = [child EXCEPT ![current_process] = "ended"]
  /\ UNCHANGED <<unread, guiRunner>>

GuiNext ==
  /\ interface = "gui" /\ UNCHANGED <<interface, tuiRunner>>
  /\ \/ \E c \in Runs :
          \/ run_command(c) \/ StartProcess(c) \/ StartFails(c) \/ OpenStream(c) \/ EndOfOutput(c)
          \/ ReadingFails(c) \/ WaitForChild(c) \/ ClearRunning(c) \/ ClearProcess(c)
     \/ stop_command

----
(* tui.py *)

\* Mutation of execute_command: the worker leaves the event loop to others.
execute_command_in_thread(c) ==
  /\ loop = "free" /\ screen = NoProcess /\ child[c] = "none"
  /\ screen' = c /\ child' = [child EXCEPT ![c] = "alive"] /\ loop' = "free"
  /\ UNCHANGED unread

\* A screen is opened from the main one, and its worker starts the command.
execute_command(c) ==
  /\ loop = "free" /\ screen = NoProcess /\ child[c] = "none"
  /\ screen' = c
  /\ \/ child' = [child EXCEPT ![c] = "alive"] /\ loop' = "worker"
     \/ child' = [child EXCEPT ![c] = "ended"] /\ UNCHANGED loop
  /\ UNCHANGED unread

\* Only the end of the worker gives the loop back: the child is gone, or a line
\* of its output cannot be decoded or shown.
ReadLine ==
  /\ loop = "worker" /\ loop' = "free"
  /\ IF child[screen] = "ended" THEN UNCHANGED unread ELSE unread' = unread \cup {screen}
  /\ UNCHANGED <<child, screen>>

\* The key of action_cancel, as an event of the loop: the button is disabled when
\* the worker ends.
action_cancel ==
  /\ loop = "free" /\ screen # NoProcess /\ child[screen] = "alive"
  /\ child' = [child EXCEPT ![screen] = "ended"]
  /\ UNCHANGED <<unread, loop, screen>>

\* on_close_pressed and action_close: the command is not looked at.
action_close ==
  /\ loop = "free" /\ screen # NoProcess /\ screen' = NoProcess
  /\ UNCHANGED <<child, unread, loop>>

TuiNext ==
  /\ interface = "tui" /\ UNCHANGED <<interface, guiRunner>>
  /\ (\E c \in Runs : execute_command(c)) \/ ReadLine \/ action_cancel \/ action_close

RunnerNext == GuiNext \/ TuiNext \/ \E c \in Runs : ChildEnds(c)

RunnerSpec == RunnerInit /\ [][RunnerNext]_runnerVars

----
(* Properties *)

\* Of the commands of the graphical interface whose output can be read, one runs
\* at a time and Stop reaches it, unless a command was started between the two
\* assignments that end the one before it: then its process is forgotten and
\* another can start beside it.  A command whose output cannot be read runs on
\* out of reach of Stop, and others beside it (gui.py: _execute_command).
OneCommandInReach ==
  interface = "gui" /\ ~ crossed =>
    /\ Cardinality({c \in Runs \ unread : child[c] = "alive"}) <= 1
    /\ \A c \in Runs : worker[c] \in {"opened", "reading", "waiting"} => current_process = c

\* A command of the terminal interface that runs is on the open screen, so that no
\* other runs beside it, although the screen can be closed without a look at the
\* command: the worker that reads holds the event loop.  Only one whose output
\* could not be read is left running behind (tui.py: execute_command).
CommandIsOnScreen ==
  interface = "tui" => \A c \in Runs \ unread : child[c] = "alive" => screen = c
=============================================================================
