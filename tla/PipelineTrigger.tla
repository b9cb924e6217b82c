--------------------------- MODULE PipelineTrigger ---------------------------
(***************************************************************************)
(* trigger-pipelines (commands/pipeline_trigger.py and its handler in      *)
(* __main__.py): create one pipeline for each project, in order, then poll *)
(* all of them until they have ended or the time is up, and turn what was  *)
(* seen into an exit status.  GitLab goes on meanwhile.                    *)
(*                                                                         *)
(* The clock counts ticks of half a second.  A request takes a tick or     *)
(* none.                                                                   *)
(***************************************************************************)
EXTENDS Naturals, FiniteSets, FiniteSetsExt

CONSTANTS
  Projects,  \* the number of projects on the command line
  Timeout,   \* --timeout, in ticks
  Interval   \* --poll-interval, in ticks

VARIABLES
  trig,      \* where the handler is
  remote,    \* GitLab: the status of each pipeline, "none" before it exists
  asked,     \* the pipelines looked at in this round
  ended,     \* the results: what was seen of each pipeline that had ended
  clock,     \* ticks since polling began
  exit       \* how the handler returned

triggerVars == <<trig, remote, asked, ended, clock, exit>>

Pipelines == 1..Projects
Second == 2
Terminal == {"success", "failed", "canceled", "skipped", "manual", "scheduled"}
Status == Terminal \cup {"none", "running"}

ASSUME TriggerAssumption == {Projects, Timeout, Interval} \subseteq Nat

TriggerTypeOK ==
  /\ trig \in {"triggering", "round", "sleep", "last", "returned"}
  /\ remote \in [Pipelines -> Status]
  /\ asked \subseteq Pipelines
  /\ ended \in [Pipelines -> Status \cup {"unknown"}]
  /\ clock \in Nat
  /\ exit \in {"none yet", "zero", "one", "error"}

TriggerInit ==
  /\ trig = "triggering"
  /\ remote = [i \in Pipelines |-> "none"] /\ ended = remote
  /\ asked = {} /\ clock = 0 /\ exit = "none yet"

Triggered == {i \in Pipelines : remote[i] # "none"}
PendingPipelines == {i \in Triggered : ended[i] = "none"}

----
(* GitLab.  An ended pipeline stays ended, except that a manual or a       *)
(* scheduled one may be started.                                           *)

Proceed(i) ==
  /\ trig # "returned"
  /\ \/ remote[i] = "running" /\ remote' \in {[remote EXCEPT ![i] = s] : s \in Terminal}
     \/ remote[i] \in {"manual", "scheduled"} /\ remote' = [remote EXCEPT ![i] = "running"]
  /\ UNCHANGED <<trig, asked, ended, clock, exit>>

----
(* trigger_pipelines *)

ReturnWith(status) == trig' = "returned" /\ exit' = status

Create ==
  /\ trig = "triggering" /\ Triggered # Pipelines
  /\ remote' = [remote EXCEPT ![Cardinality(Triggered) + 1] = "running"]
  /\ UNCHANGED <<trig, asked, ended, clock, exit>>

\* A project that cannot be triggered ends the command; those before it run on.
CreateFails ==
  /\ trig = "triggering" /\ Triggered # Pipelines
  /\ ReturnWith("error")
  /\ UNCHANGED <<remote, asked, ended, clock>>

\* Without --wait this is the end, and so is an interval below 30 s: the
\* handler has no check of it before it triggers.
StartPolling(wait, polite) ==
  /\ trig = "triggering" /\ Triggered = Pipelines
  /\ IF ~ wait THEN ReturnWith("zero")
     ELSE IF ~ polite THEN ReturnWith("error")
     ELSE trig' = "round" /\ UNCHANGED exit
  /\ UNCHANGED <<remote, asked, ended, clock>>

----
(* poll_pipelines_until_complete *)

Look(i, ticks, fails) ==
  /\ trig = "round" /\ i \in PendingPipelines \ asked
  /\ asked # {} \/ clock < Timeout
  /\ clock' = clock + ticks
  /\ asked' = asked \cup {i}
  /\ ended' = IF ~ fails /\ remote[i] \in Terminal THEN [ended EXCEPT ![i] = remote[i]] ELSE ended
  /\ UNCHANGED <<trig, remote, exit>>

\* Only GitlabHttpError is waited out; python-gitlab has errors of other kinds.
PollRaises ==
  /\ trig = "round" /\ PendingPipelines \ asked # {} /\ ReturnWith("error")
  /\ UNCHANGED <<remote, asked, ended, clock>>

\* All were looked at, or the time was up before the round began.
EndRound ==
  /\ trig = "round"
  /\ PendingPipelines \subseteq asked \/ (asked = {} /\ clock >= Timeout)
  /\ asked' = {}
  /\ trig' = IF PendingPipelines = {} \/ clock >= Timeout THEN "last" ELSE "sleep"
  /\ UNCHANGED <<remote, ended, clock, exit>>

\* Mutation of SleepFor: the interval, whatever is left.
SleepForInterval == Interval

\* min(poll_interval, max(1, int(remaining)))
SleepFor ==
  LET remaining == Timeout - clock
  IN Min({Interval, Max({Second, remaining - (remaining % Second)})})

Sleep ==
  /\ trig = "sleep" /\ trig' = "round"
  /\ clock' = clock + SleepFor
  /\ UNCHANGED <<remote, asked, ended, exit>>

\* After the timeout each pending pipeline is looked at once more.
LastLook(i, ticks, fails) ==
  /\ trig = "last" /\ i \in PendingPipelines
  /\ clock' = clock + ticks
  /\ ended' = [ended EXCEPT ![i] = IF fails THEN "unknown" ELSE remote[i]]
  /\ UNCHANGED <<trig, remote, asked, exit>>

\* Mutation of Failures: only a failed pipeline counts.
FailuresFailed == {i \in Pipelines : ended[i] = "failed"}

\* What the handler counts; a pipeline still running, unknown, skipped or
\* waiting for a user is reported with the ones that succeeded.
Failures == {i \in Pipelines : ended[i] \in {"failed", "canceled"}}

Report ==
  /\ trig = "last" /\ PendingPipelines = {}
  /\ ReturnWith(IF Failures = {} THEN "zero" ELSE "one")
  /\ UNCHANGED <<remote, asked, ended, clock>>

TriggerNext ==
  \/ Create \/ CreateFails
  \/ \E wait, polite \in BOOLEAN : StartPolling(wait, polite)
  \/ PollRaises \/ EndRound \/ Sleep \/ Report
  \/ \E i \in Pipelines : Proceed(i)
  \/ \E i \in Pipelines, ticks \in {0, 1}, fails \in BOOLEAN :
       Look(i, ticks, fails) \/ LastLook(i, ticks, fails)

TriggerSpec == TriggerInit /\ [][TriggerNext]_triggerVars

----
(* Properties *)

\* "All pipelines succeeded" (__main__.py) is said of a pipeline that failed
\* or was canceled only if the time was up, or if it had been waiting for a
\* user when it was seen.
SuccessIsReal ==
  exit = "zero" /\ asked = {} /\ ended # [i \in Pipelines |-> "none"] =>
    \A i \in Pipelines :
      /\ ended[i] # "none"
      /\ remote[i] \in {"failed", "canceled"} =>
           clock >= Timeout \/ ended[i] \in {"manual", "scheduled"}

\* Polling ends: it overshoots the timeout by at most one round of requests or
\* the shortest sleep, and one last round.
PollEndsInTime ==
  clock <= Timeout + Max({Projects, Second}) + Projects
=============================================================================
