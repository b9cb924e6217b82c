---------------------------- MODULE CommandProofs ----------------------------
(***************************************************************************)
(* What the commands promise that run, or are run by, something else: the  *)
(* runners of the two graphical front ends, the pipeline trigger, the      *)
(* validator, the three front ends of the command line and the settings.   *)
(* For any number of commands, pipelines, files and ticks.                 *)
(***************************************************************************)
EXTENDS CommandRunner, PipelineTrigger, Validation, CommandLine, Settings, Sequences, TLAPS,
        FiniteSetTheorems

(***************************************************************************)
(* The command runners                                                     *)
(***************************************************************************)

Opened == {"opened", "reading", "waiting"}
Counted == Opened \cup {"starting", "finally"}

\* Unless a command was started between the two assignments that end another,
\* one thread is under way at a time, and it is known to run.
OneThread ==
  ~ crossed => \A c \in Runs :
    /\ worker[c] \in Counted => is_running
    /\ \A d \in Runs : {worker[c], worker[d]} \subseteq Counted \cup {"clearing"} => c = d

\* A thread reads the output of a process, and then a thread with a child finds it
\* in current_process, and leaves none alive whose output can be read.
ReadsAProcess == \A c \in Runs : worker[c] = "reading" => stream[c] \in Runs
ChildInReach ==
  interface = "gui" /\ ~ crossed => \A c \in Runs :
    /\ worker[c] \in Opened => current_process = c
    /\ worker[c] = "reading" => stream[c] = c
    /\ child[c] = "alive" /\ c \notin unread => worker[c] \in Opened

\* The event loop of the terminal interface is the worker's while a child lives
\* whose output it reads, and that is the one on the screen.
LoopIsHeld ==
  interface = "tui" =>
    /\ loop = "worker" => screen \in Runs
    /\ \A c \in Runs \ unread : child[c] = "alive" => loop = "worker" /\ screen = c

RunnerInv == RunnerTypeOK /\ OneThread /\ ReadsAProcess /\ ChildInReach /\ LoopIsHeld

LEMMA RunnerInvInit == RunnerInit => RunnerInv
<1> QED
  BY RunnerAssumption
  DEF RunnerInit, RunnerInv, RunnerTypeOK, OneThread, ReadsAProcess, ChildInReach, LoopIsHeld,
      Opened, Counted, Runs, NoProcess

\* The graphical interface: each step of a thread.
LEMMA GuiStep ==
  ASSUME RunnerInv, interface = "gui", UNCHANGED <<interface, tuiRunner>>, NEW c \in Runs,
         \/ run_command(c) \/ StartProcess(c) \/ StartFails(c) \/ OpenStream(c) \/ EndOfOutput(c)
         \/ ReadingFails(c) \/ WaitForChild(c) \/ ClearRunning(c) \/ ClearProcess(c)
  PROVE  RunnerInv'
<1> USE DEF RunnerInv, RunnerTypeOK, LoopIsHeld, OneThread, ReadsAProcess, ChildInReach, Opened,
            Counted, At, NoProcess, tuiRunner
<1>0. 0 \notin Runs
  BY RunnerAssumption DEF Runs
<1>1. CASE run_command(c)
  BY <1>1 DEF run_command
<1>2. CASE StartProcess(c)
  BY <1>2 DEF StartProcess
<1>3. CASE StartFails(c)
  BY <1>3 DEF StartFails
<1>4. CASE OpenStream(c)
  BY <1>0, <1>4 DEF OpenStream
<1>5. CASE EndOfOutput(c)
  BY <1>5 DEF EndOfOutput
<1>6. CASE WaitForChild(c)
  BY <1>0, <1>6 DEF WaitForChild
<1>7. CASE ClearRunning(c)
  <2>1. /\ worker[c] = "finally" /\ worker' = [worker EXCEPT ![c] = "clearing"]
        /\ is_running' = FALSE
        /\ UNCHANGED <<interface, current_process, child, unread, stream, crossed, loop, screen>>
    BY <1>7 DEF ClearRunning
  <2>2. \A d \in Runs : d # c => worker'[d] = worker[d]
    BY <2>1
  <2>3. ~ crossed => \A d \in Runs : worker[d] \in Counted => d = c
    BY <2>1
  <2>4. OneThread'
    BY <2>1, <2>2, <2>3
  <2>5. ChildInReach' /\ ReadsAProcess'
    BY <2>1, <2>2
  <2>6. RunnerTypeOK' /\ LoopIsHeld'
    BY <2>1
  <2> QED BY <2>4, <2>5, <2>6
<1>8. CASE ClearProcess(c)
  BY <1>8 DEF ClearProcess
<1>9. CASE ReadingFails(c)
  BY <1>9 DEF ReadingFails
<1> QED BY <1>1, <1>2, <1>3, <1>4, <1>5, <1>6, <1>7, <1>8, <1>9

\* The terminal interface: each event of the loop.
LEMMA TuiStep == RunnerInv /\ TuiNext => RunnerInv'
<1> SUFFICES ASSUME RunnerInv, TuiNext PROVE RunnerInv'
  OBVIOUS
<1> USE DEF RunnerInv, RunnerTypeOK, OneThread, ReadsAProcess, ChildInReach, LoopIsHeld, TuiNext,
            NoProcess, guiRunner
<1>0. 0 \notin Runs
  BY RunnerAssumption DEF Runs
<1>1. ASSUME NEW c \in Runs, execute_command(c) PROVE RunnerInv'
  BY <1>0, <1>1 DEF execute_command
<1>2. CASE ReadLine
  BY <1>2 DEF ReadLine
<1>3. CASE action_cancel
  BY <1>3 DEF action_cancel
<1>4. CASE action_close
  BY <1>4 DEF action_close
<1> QED BY <1>1, <1>2, <1>3, <1>4

LEMMA RunnerInvStep == RunnerInv /\ [RunnerNext]_runnerVars => RunnerInv'
<1> SUFFICES ASSUME RunnerInv, [RunnerNext]_runnerVars PROVE RunnerInv'
  OBVIOUS
<1>1. ASSUME NEW c \in Runs, ChildEnds(c) PROVE RunnerInv'
  BY <1>1
  DEF ChildEnds, RunnerInv, RunnerTypeOK, OneThread, ReadsAProcess, ChildInReach, LoopIsHeld, guiRunner,
      tuiRunner
<1>2. CASE UNCHANGED runnerVars
  BY <1>2
  DEF RunnerInv, RunnerTypeOK, OneThread, ReadsAProcess, ChildInReach, LoopIsHeld, runnerVars, guiRunner,
      tuiRunner
<1>3. CASE GuiNext /\ stop_command
  BY <1>3, RunnerAssumption
  DEF GuiNext, stop_command, RunnerInv, RunnerTypeOK, OneThread, ReadsAProcess, ChildInReach, LoopIsHeld,
      guiRunner, tuiRunner, Runs, NoProcess
<1>4. CASE GuiNext /\ ~ stop_command
  BY <1>4, GuiStep DEF GuiNext
<1> QED BY <1>1, <1>2, <1>3, <1>4, TuiStep DEF RunnerNext

\* The fields and threads of both runners keep their types; current_process and
\* is_running say what they are read for, and the event loop is held, as long as
\* the output of the command can be read (gui.py: run_command, stop_command,
\* _execute_command; tui.py: execute_command).
THEOREM RunnerInvariant == RunnerSpec => []RunnerInv
<1> QED BY RunnerInvInit, RunnerInvStep, PTL DEF RunnerSpec

\* Of the commands of the graphical interface whose output can be read, one runs at
\* a time and Stop reaches it, unless a command was started between the two
\* assignments that end the one before it (gui.py: the finally block of
\* CommandRunner).
THEOREM StopReachesTheCommand == RunnerSpec => []OneCommandInReach
<1>1. RunnerInv => OneCommandInReach
  <2> SUFFICES ASSUME RunnerInv, interface = "gui", ~ crossed
               PROVE  /\ Cardinality({c \in Runs \ unread : child[c] = "alive"}) <= 1
                      /\ \A c \in Runs : worker[c] \in Opened => current_process = c
    BY DEF OneCommandInReach, Opened
  <2> DEFINE Alive == {c \in Runs \ unread : child[c] = "alive"}
  <2>1. \A c, d \in Alive : c = d
    BY DEF RunnerInv, OneThread, ChildInReach, Counted
  <2>2. Alive = {} \/ \E c \in Alive : Alive = {c}
    BY <2>1
  <2>3. Cardinality(Alive) <= 1
    <3>1. CASE Alive = {}
      BY <3>1, FS_EmptySet
    <3>2. ASSUME NEW c \in Alive, Alive = {c} PROVE Cardinality(Alive) <= 1
      <4>1. Cardinality({c}) = 1
        BY FS_Singleton
      <4> QED BY <3>2, <4>1
    <3> QED BY <2>2, <3>1, <3>2
  <2> QED BY <2>3 DEF RunnerInv, ChildInReach
<1> QED BY RunnerInvariant, <1>1, PTL

\* A command of the terminal interface that runs, and whose output can be read, is
\* the one on the open screen (tui.py: the worker holds the event loop).
THEOREM CommandStaysOnScreen == RunnerSpec => []CommandIsOnScreen
<1>1. RunnerInv => CommandIsOnScreen
  BY DEF RunnerInv, LoopIsHeld, CommandIsOnScreen
<1> QED BY RunnerInvariant, <1>1, PTL

(***************************************************************************)
(* The pipeline trigger                                                    *)
(***************************************************************************)

LEMMA MaxOfTwo ==
  ASSUME NEW a \in Int, NEW b \in Int
  PROVE  Max({a, b}) \in {a, b} /\ Max({a, b}) >= a /\ Max({a, b}) >= b
<1>1. \E x \in {a, b} : \A y \in {a, b} : x >= y
  <2>1. CASE a >= b
    BY <2>1
  <2>2. CASE b >= a
    BY <2>2
  <2> QED BY <2>1, <2>2
<1> QED BY <1>1 DEF Max

LEMMA MinOfTwo ==
  ASSUME NEW a \in Int, NEW b \in Int
  PROVE  Min({a, b}) \in {a, b} /\ Min({a, b}) <= a /\ Min({a, b}) <= b
<1>1. \E x \in {a, b} : \A y \in {a, b} : x <= y
  <2>1. CASE a <= b
    BY <2>1
  <2>2. CASE b <= a
    BY <2>2
  <2> QED BY <2>1, <2>2
<1> QED BY <1>1 DEF Min

\* A sleep ends before the timeout or is the shortest there is.
LEMMA SleepIsShort ==
  ASSUME clock \in Nat
  PROVE  SleepFor \in Nat /\ (clock < Timeout => clock + SleepFor <= Timeout + Second)
<1> DEFINE left == Timeout - clock
<1>1. left \in Int /\ left - (left % Second) \in Int /\ left - (left % Second) <= left
  BY TriggerAssumption DEF Second
<1> DEFINE longest == Max({Second, left - (left % Second)})
<1>2. longest \in Nat /\ (left > 0 => longest <= left + Second)
  <2>1. longest \in {Second, left - (left % Second)} /\ longest >= Second
    <3>1. Second \in Int
      BY DEF Second
    <3> QED BY <1>1, <3>1, MaxOfTwo
  <2> HIDE DEF longest
  <2> QED BY <1>1, <2>1 DEF Second
<1>3. SleepFor = Min({Interval, longest})
  BY DEF SleepFor
<1>4. Interval \in Nat
  BY TriggerAssumption
<1> HIDE DEF longest
<1>5. SleepFor \in Nat /\ SleepFor <= longest
  BY <1>2, <1>3, <1>4, MinOfTwo
<1> QED BY <1>2, <1>5, TriggerAssumption DEF Second

LEMMA PipelinesAreFinite ==
  ASSUME NEW S \in SUBSET Pipelines
  PROVE  IsFiniteSet(S) /\ Cardinality(S) \in Nat /\ Cardinality(S) <= Projects
<1>1. IsFiniteSet(Pipelines) /\ Cardinality(Pipelines) = Projects
  BY TriggerAssumption, FS_Interval DEF Pipelines
<1>2. IsFiniteSet(S) /\ Cardinality(S) <= Cardinality(Pipelines)
  BY <1>1, FS_Subset
<1> QED BY <1>1, <1>2, FS_CardinalityType

\* Polling begins when every pipeline was created, and nothing is seen before.
AllAreCreated ==
  /\ trig = "triggering" => asked = {} /\ clock = 0 /\ exit = "none yet"
                            /\ ended = [i \in Pipelines |-> "none"]
  /\ trig \in {"round", "sleep", "last"} => Triggered = Pipelines /\ exit = "none yet"

\* A pipeline seen at its end is still there, unless it waited for a user; one
\* that was seen under way, or could not be, was looked at after the timeout.
SeenAsItEnded ==
  /\ \A i \in Pipelines : ended[i] \in Terminal \ {"manual", "scheduled"} => remote[i] = ended[i]
  /\ (\E i \in Pipelines : ended[i] \in {"running", "unknown"}) => clock >= Timeout
  /\ trig = "last" /\ PendingPipelines # {} => clock >= Timeout

TriggerInv == TriggerTypeOK /\ AllAreCreated /\ SeenAsItEnded /\ SuccessIsReal

LEMMA TriggerInvInit == TriggerInit => TriggerInv
<1> SUFFICES ASSUME TriggerInit PROVE TriggerInv
  OBVIOUS
<1>1. /\ trig = "triggering" /\ asked = {} /\ clock = 0 /\ exit = "none yet"
      /\ remote = [i \in Pipelines |-> "none"] /\ ended = [i \in Pipelines |-> "none"]
  BY DEF TriggerInit
<1>2. TriggerTypeOK
  BY <1>1 DEF TriggerTypeOK, Status
<1>3. AllAreCreated /\ SeenAsItEnded /\ SuccessIsReal
  BY <1>1 DEF AllAreCreated, SeenAsItEnded, SuccessIsReal, Terminal
<1> QED BY <1>2, <1>3 DEF TriggerInv

LEMMA GitLabStep ==
  ASSUME TriggerInv, NEW i \in Pipelines, Proceed(i)
  PROVE  TriggerInv'
<1> USE DEF TriggerInv, TriggerTypeOK, Status, Terminal
<1>1. PICK s \in Terminal \cup {"running"} :
        /\ remote' = [remote EXCEPT ![i] = s]
        /\ remote[i] \in {"running", "manual", "scheduled"}
  BY DEF Proceed
<1>2. trig # "returned" /\ UNCHANGED <<trig, asked, ended, clock, exit>>
  BY DEF Proceed
<1>3. \A j \in Pipelines : remote'[j] # "none" <=> remote[j] # "none"
  BY <1>1
<1>4. Triggered' = Triggered /\ PendingPipelines' = PendingPipelines
  BY <1>2, <1>3 DEF Triggered, PendingPipelines
<1>5. TriggerTypeOK' /\ AllAreCreated'
  BY <1>1, <1>2, <1>4 DEF AllAreCreated
<1>6. SeenAsItEnded'
  BY <1>1, <1>2, <1>4 DEF SeenAsItEnded
<1>7. exit # "zero"
  BY <1>2 DEF AllAreCreated
<1> QED BY <1>2, <1>5, <1>6, <1>7 DEF SuccessIsReal

LEMMA PollingStep ==
  ASSUME TriggerInv, NEW i \in Pipelines, NEW ticks \in {0, 1}, NEW fails \in BOOLEAN,
         Look(i, ticks, fails) \/ LastLook(i, ticks, fails)
  PROVE  TriggerInv'
<1>1. /\ trig \in {"round", "last"} /\ i \in PendingPipelines
      /\ clock' \in Nat /\ clock' >= clock
      /\ UNCHANGED <<trig, remote, exit>>
  <2>1. /\ trig \in {"round", "last"} /\ i \in PendingPipelines /\ clock' = clock + ticks
        /\ UNCHANGED <<trig, remote, exit>>
    BY DEF Look, LastLook
  <2>2. clock \in Nat
    BY DEF TriggerInv, TriggerTypeOK
  <2> QED BY <2>1, <2>2
<1> USE DEF TriggerInv, TriggerTypeOK, Status, Terminal
<1>2. PICK s \in Terminal \cup {"none", "running", "unknown"} :
        /\ ended' = [ended EXCEPT ![i] = s]
        /\ s \in Terminal => remote[i] = s
        /\ s \in {"running", "unknown"} => trig = "last"
        /\ trig = "last" => s # "none"
  <2>1. CASE Look(i, ticks, fails)
    <3>1. ended[i] = "none"
      BY <1>1 DEF PendingPipelines
    <3>2. CASE ~ fails /\ remote[i] \in Terminal
      BY <2>1, <3>2 DEF Look
    <3>3. CASE ~ (~ fails /\ remote[i] \in Terminal)
      <4>1. ended' = ended /\ trig = "round"
        BY <2>1, <3>3 DEF Look
      <4> QED BY <3>1, <4>1
    <3> QED BY <3>2, <3>3
  <2>2. CASE LastLook(i, ticks, fails)
    <3>1. remote[i] \in Status /\ remote[i] # "none"
      BY <1>1 DEF PendingPipelines, Triggered
    <3> QED BY <2>2, <3>1 DEF LastLook
  <2> QED BY <2>1, <2>2
<1>3. asked' \subseteq Pipelines
  BY DEF Look, LastLook
<1>4. Triggered' = Triggered /\ PendingPipelines' \subseteq PendingPipelines
  BY <1>1, <1>2 DEF Triggered, PendingPipelines
<1>5. TriggerTypeOK' /\ AllAreCreated'
  BY <1>1, <1>2, <1>3, <1>4 DEF AllAreCreated
<1>6. SeenAsItEnded'
  <2>1. Timeout \in Nat /\ (trig = "last" => clock >= Timeout)
    BY <1>1, TriggerAssumption DEF SeenAsItEnded
  <2>2. \A j \in Pipelines : ended'[j] = IF j = i THEN s ELSE ended[j]
    BY <1>2
  <2>3. clock >= Timeout => clock' >= Timeout
    <3>1. {clock, clock', Timeout} \subseteq Nat
      BY <1>1, <2>1
    <3> HIDE DEF TriggerInv, TriggerTypeOK
    <3> QED BY <1>1, <3>1
  <2>4. \A j \in Pipelines : ended'[j] \in Terminal \ {"manual", "scheduled"}
                               => remote'[j] = ended'[j]
    BY <1>1, <1>2, <2>2 DEF SeenAsItEnded
  <2>5. (\E j \in Pipelines : ended'[j] \in {"running", "unknown"}) => clock' >= Timeout
    BY <1>2, <2>1, <2>2, <2>3 DEF SeenAsItEnded
  <2> QED BY <1>1, <2>1, <2>3, <2>4, <2>5 DEF SeenAsItEnded
<1>7. exit' # "zero"
  BY <1>1 DEF AllAreCreated
<1> QED BY <1>5, <1>6, <1>7 DEF SuccessIsReal

LEMMA TriggerInvStep == TriggerInv /\ [TriggerNext]_triggerVars => TriggerInv'
<1> SUFFICES ASSUME TriggerInv, [TriggerNext]_triggerVars PROVE TriggerInv'
  OBVIOUS
<1> USE DEF TriggerInv, TriggerTypeOK, Status, Terminal
<1>1. CASE Create
  <2>1. trig = "triggering" /\ UNCHANGED <<trig, asked, ended, clock, exit>>
        /\ remote' \in [Pipelines -> Status]
    BY <1>1 DEF Create
  <2> QED BY <2>1 DEF AllAreCreated, SeenAsItEnded, SuccessIsReal
<1>2. CASE CreateFails \/ PollRaises
  BY <1>2 DEF CreateFails, PollRaises, ReturnWith, AllAreCreated, SeenAsItEnded, SuccessIsReal
<1>3. ASSUME NEW wait \in BOOLEAN, NEW polite \in BOOLEAN, StartPolling(wait, polite)
      PROVE  TriggerInv'
  <2>1. trig' \in {"round", "returned"} /\ UNCHANGED <<remote, asked, ended, clock>>
        /\ exit' \in {"none yet", "zero", "error"} /\ Triggered = Pipelines /\ trig = "triggering"
        /\ (trig' = "round" => exit' = exit)
    BY <1>3 DEF StartPolling, ReturnWith, AllAreCreated
  <2> QED
    BY <2>1 DEF AllAreCreated, SeenAsItEnded, SuccessIsReal, Triggered
<1>4. CASE EndRound
  <2>1. /\ trig = "round" /\ trig' \in {"last", "sleep"} /\ asked' = {}
        /\ trig' = "last" => PendingPipelines = {} \/ clock >= Timeout
        /\ UNCHANGED <<remote, ended, clock, exit>>
    BY <1>4 DEF EndRound
  <2>2. Triggered' = Triggered /\ PendingPipelines' = PendingPipelines
    BY <2>1 DEF Triggered, PendingPipelines
  <2> QED BY <2>1, <2>2 DEF AllAreCreated, SeenAsItEnded, SuccessIsReal
<1>5. CASE Sleep
  <2>1. trig = "sleep" /\ trig' = "round" /\ UNCHANGED <<remote, asked, ended, exit>>
        /\ clock' = clock + SleepFor
    BY <1>5 DEF Sleep
  <2>2. clock \in Nat /\ SleepFor \in Nat
    BY SleepIsShort
  <2>3. Triggered' = Triggered
    BY <2>1 DEF Triggered
  <2>4. clock' \in Nat /\ (clock >= Timeout => clock' >= Timeout)
    <3>1. {clock, SleepFor, Timeout} \subseteq Nat
      BY <2>2, TriggerAssumption
    <3> HIDE DEF TriggerInv, TriggerTypeOK
    <3> QED BY <2>1, <3>1
  <2>5. AllAreCreated' /\ TriggerTypeOK'
    BY <2>1, <2>3, <2>4 DEF AllAreCreated
  <2>6. SeenAsItEnded'
    BY <2>1, <2>4 DEF SeenAsItEnded
  <2> QED BY <2>1, <2>5, <2>6 DEF AllAreCreated, SuccessIsReal
<1>6. CASE Report
  <2>1. /\ trig = "last" /\ PendingPipelines = {} /\ trig' = "returned"
        /\ exit' = IF Failures = {} THEN "zero" ELSE "one"
        /\ UNCHANGED <<remote, asked, ended, clock>>
    BY <1>6 DEF Report, ReturnWith
  <2>2. AllAreCreated' /\ SeenAsItEnded'
    BY <2>1 DEF AllAreCreated, SeenAsItEnded
  <2>3. \A i \in Pipelines : ended[i] # "none"
    BY <2>1 DEF AllAreCreated, PendingPipelines
  <2>4. SuccessIsReal'
    BY <2>1, <2>2, <2>3 DEF SuccessIsReal, SeenAsItEnded, Failures
  <2> QED BY <2>1, <2>2, <2>4
<1>7. CASE UNCHANGED triggerVars
  BY <1>7 DEF triggerVars, AllAreCreated, SeenAsItEnded, SuccessIsReal, Triggered, PendingPipelines
<1> QED
  BY <1>1, <1>2, <1>3, <1>4, <1>5, <1>6, <1>7, GitLabStep, PollingStep DEF TriggerNext

\* The invariant of the command: types, what was created, what was seen.
THEOREM TriggerInvariant == TriggerSpec => []TriggerInv
<1> QED BY TriggerInvInit, TriggerInvStep, PTL DEF TriggerSpec

\* "All pipelines succeeded" is said of a pipeline that failed or was canceled
\* only if the time was up, or if it had been waiting for a user when it was
\* seen (__main__.py: trigger_pipelines_handler), whatever GitLab does meanwhile.
THEOREM ReportedSuccessIsReal == TriggerSpec => []SuccessIsReal
<1>1. TriggerInv => SuccessIsReal
  BY DEF TriggerInv
<1> QED BY TriggerInvariant, <1>1, PTL

\* How late a round can end.
Latest == Timeout + Max({Projects, Second})

\* A round begins before the timeout or is not begun, each look takes a tick at
\* most, and after the timeout every pending pipeline is looked at once.
ClockIsBounded ==
  /\ trig = "round" => clock <= Timeout + (IF asked = {} THEN Second ELSE Cardinality(asked))
  /\ trig = "sleep" => asked = {} /\ clock < Timeout
  /\ trig = "last" => clock + Cardinality(PendingPipelines) <= Latest + Projects
  /\ trig = "returned" => clock <= Latest + Projects

LEMMA LatestIsLate ==
  /\ Timeout \in Nat /\ Projects \in Nat /\ Latest \in Nat
  /\ Latest >= Timeout + Projects /\ Latest >= Timeout + Second
<1>1. Timeout \in Nat /\ Projects \in Nat /\ Second \in Nat
  BY TriggerAssumption DEF Second
<1>2. /\ Max({Projects, Second}) \in {Projects, Second}
      /\ Max({Projects, Second}) >= Projects /\ Max({Projects, Second}) >= Second
  BY <1>1, MaxOfTwo
<1> QED BY <1>1, <1>2 DEF Latest

\* While a round is under way the clock is not past the latest.
LEMMA RoundEndsInTime ==
  ASSUME TriggerInv, ClockIsBounded, trig = "round"
  PROVE  clock <= Latest
<1>1. clock \in Nat /\ Cardinality(asked) \in Nat /\ Cardinality(asked) <= Projects
  BY PipelinesAreFinite DEF TriggerInv, TriggerTypeOK
<1>2. CASE asked = {}
  BY <1>1, <1>2, LatestIsLate DEF ClockIsBounded, Second
<1>3. CASE asked # {}
  <2>1. clock <= Timeout + Cardinality(asked)
    BY <1>3 DEF ClockIsBounded
  <2> QED BY <1>1, <2>1, LatestIsLate
<1> QED BY <1>2, <1>3

LEMMA ClockStep ==
  ASSUME TriggerInv, TriggerInv', ClockIsBounded, [TriggerNext]_triggerVars
  PROVE  ClockIsBounded'
<1>1. clock \in Nat /\ clock' \in Nat
  BY DEF TriggerInv, TriggerTypeOK
<1>2. \A S \in SUBSET Pipelines : Cardinality(S) \in Nat /\ Cardinality(S) <= Projects
  BY PipelinesAreFinite
<1>3. CASE Create
  BY <1>3 DEF Create, ClockIsBounded
<1>4. CASE CreateFails \/ PollRaises
  <2>1. trig \in {"triggering", "round"} /\ trig' = "returned" /\ clock' = clock
    BY <1>4 DEF CreateFails, PollRaises, ReturnWith
  <2>2. clock <= Latest
    <3>1. CASE trig = "triggering"
      <4>1. clock = 0
        BY <3>1 DEF TriggerInv, AllAreCreated
      <4> QED BY <4>1, LatestIsLate
    <3>2. CASE trig = "round"
      BY <3>2, RoundEndsInTime
    <3> QED BY <2>1, <3>1, <3>2
  <2> QED BY <1>1, <2>1, <2>2, LatestIsLate DEF ClockIsBounded
<1>5. ASSUME NEW wait \in BOOLEAN, NEW polite \in BOOLEAN, StartPolling(wait, polite)
      PROVE  ClockIsBounded'
  <2>1. trig' \in {"round", "returned"} /\ asked' = {} /\ clock' = 0
    BY <1>5 DEF StartPolling, ReturnWith, TriggerInv, AllAreCreated
  <2> QED BY <2>1, LatestIsLate DEF ClockIsBounded, Second
<1>6. ASSUME NEW i \in Pipelines, Proceed(i) PROVE ClockIsBounded'
  <2>1. PICK s \in Terminal \cup {"running"} :
          remote' = [remote EXCEPT ![i] = s] /\ remote[i] # "none"
    BY <1>6 DEF Proceed
  <2>2. UNCHANGED <<trig, asked, ended, clock>>
    BY <1>6 DEF Proceed
  <2>3. \A j \in Pipelines : remote'[j] # "none" <=> remote[j] # "none"
    BY <2>1 DEF TriggerInv, TriggerTypeOK, Terminal
  <2>4. PendingPipelines' = PendingPipelines
    BY <2>2, <2>3 DEF PendingPipelines, Triggered
  <2> QED BY <2>2, <2>4 DEF ClockIsBounded
<1>7. ASSUME NEW i \in Pipelines, NEW ticks \in {0, 1}, NEW fails \in BOOLEAN,
             Look(i, ticks, fails)
      PROVE  ClockIsBounded'
  <2>1. /\ trig = "round" /\ trig' = "round" /\ i \notin asked /\ asked' = asked \cup {i}
        /\ clock' = clock + ticks /\ (asked # {} \/ clock < Timeout)
    BY <1>7 DEF Look
  <2>2. IsFiniteSet(asked) /\ asked \in SUBSET Pipelines
    BY PipelinesAreFinite DEF TriggerInv, TriggerTypeOK
  <2>3. Cardinality(asked') = Cardinality(asked) + 1 /\ Cardinality(asked) \in Nat
    BY <1>2, <2>1, <2>2, FS_AddElement
  <2>4. clock <= Timeout + Cardinality(asked)
    <3>1. CASE asked = {}
      BY <1>1, <2>1, <2>3, <3>1, LatestIsLate
    <3>2. CASE asked # {}
      BY <2>1, <3>2 DEF ClockIsBounded
    <3> QED BY <3>1, <3>2
  <2>5. clock' <= Timeout + Cardinality(asked')
    <3>1. ticks \in Nat /\ ticks <= 1
      OBVIOUS
    <3> QED BY <1>1, <2>1, <2>3, <2>4, <3>1, LatestIsLate
  <2> QED BY <2>1, <2>5 DEF ClockIsBounded
<1>8. CASE EndRound
  <2>1. /\ trig = "round" /\ asked' = {} /\ UNCHANGED <<remote, ended, clock>>
        /\ trig' = IF PendingPipelines = {} \/ clock >= Timeout THEN "last" ELSE "sleep"
    BY <1>8 DEF EndRound
  <2>2. PendingPipelines' = PendingPipelines
    BY <2>1 DEF PendingPipelines, Triggered
  <2>3. PendingPipelines \in SUBSET Pipelines
    BY DEF PendingPipelines, Triggered
  <2>4. clock + Cardinality(PendingPipelines) <= Latest + Projects
    BY <1>1, <1>2, <2>1, <2>3, RoundEndsInTime, LatestIsLate
  <2> QED BY <1>1, <2>1, <2>2, <2>4, LatestIsLate DEF ClockIsBounded
<1>9. CASE Sleep
  <2>1. trig = "sleep" /\ trig' = "round" /\ asked' = asked /\ clock' = clock + SleepFor
    BY <1>9 DEF Sleep
  <2> QED BY <1>1, <2>1, SleepIsShort DEF ClockIsBounded
<1>10. ASSUME NEW i \in Pipelines, NEW ticks \in {0, 1}, NEW fails \in BOOLEAN,
              LastLook(i, ticks, fails)
       PROVE  ClockIsBounded'
  <2>1. /\ trig = "last" /\ trig' = "last" /\ i \in PendingPipelines /\ clock' = clock + ticks
        /\ remote' = remote
        /\ ended' = [ended EXCEPT ![i] = IF fails THEN "unknown" ELSE remote[i]]
    BY <1>10 DEF LastLook
  <2>2. ended'[i] # "none" /\ \A j \in Pipelines \ {i} : ended'[j] = ended[j]
    BY <2>1 DEF PendingPipelines, Triggered, TriggerInv, TriggerTypeOK
  <2>3. PendingPipelines' = PendingPipelines \ {i}
    BY <2>1, <2>2 DEF PendingPipelines, Triggered
  <2>4. IsFiniteSet(PendingPipelines) /\ Cardinality(PendingPipelines) \in Nat
    BY PipelinesAreFinite DEF PendingPipelines, Triggered
  <2>5. Cardinality(PendingPipelines') = Cardinality(PendingPipelines) - 1
    BY <2>1, <2>3, <2>4, FS_RemoveElement
  <2>6. clock + Cardinality(PendingPipelines) <= Latest + Projects
    BY <2>1 DEF ClockIsBounded
  <2>7. clock' + Cardinality(PendingPipelines') <= Latest + Projects
    <3>1. ticks \in Nat /\ ticks <= 1
      OBVIOUS
    <3> QED BY <1>1, <2>1, <2>4, <2>5, <2>6, <3>1, LatestIsLate
  <2> QED BY <2>1, <2>7 DEF ClockIsBounded
<1>11. CASE Report
  <2>1. trig = "last" /\ trig' = "returned" /\ PendingPipelines = {} /\ clock' = clock
    BY <1>11 DEF Report, ReturnWith
  <2>2. clock + 0 <= Latest + Projects
    BY <2>1, FS_EmptySet DEF ClockIsBounded
  <2> QED BY <1>1, <2>1, <2>2 DEF ClockIsBounded
<1>12. CASE UNCHANGED triggerVars
  BY <1>12 DEF triggerVars, ClockIsBounded, PendingPipelines, Triggered
<1> QED
  BY <1>3, <1>4, <1>5, <1>6, <1>7, <1>8, <1>9, <1>10, <1>11, <1>12 DEF TriggerNext

\* Polling overshoots the timeout by at most one round of requests or the
\* shortest sleep, and one last round (poll_pipelines_until_complete of
\* commands/pipeline_trigger.py), for any number of projects, any timeout and
\* any interval.
THEOREM PollingEndsInTime == TriggerSpec => []PollEndsInTime
<1>1. TriggerInit => ClockIsBounded
  BY DEF TriggerInit, ClockIsBounded
<1>2. TriggerInv /\ ClockIsBounded => PollEndsInTime
  <2> SUFFICES ASSUME TriggerInv, ClockIsBounded PROVE clock <= Latest + Projects
    BY DEF PollEndsInTime, Latest
  <2>1. clock \in Nat /\ Cardinality(PendingPipelines) \in Nat
    BY PipelinesAreFinite DEF TriggerInv, TriggerTypeOK, PendingPipelines, Triggered
  <2>2. CASE trig = "triggering"
    <3>1. clock = 0
      BY <2>2 DEF TriggerInv, AllAreCreated
    <3> QED BY <3>1, LatestIsLate
  <2>3. CASE trig = "round"
    BY <2>1, <2>3, RoundEndsInTime, LatestIsLate
  <2>4. CASE trig \in {"sleep", "last", "returned"}
    BY <2>1, <2>4, LatestIsLate DEF ClockIsBounded, Second
  <2> QED BY <2>2, <2>3, <2>4 DEF TriggerInv, TriggerTypeOK
<1>3. TriggerInv /\ TriggerInv' /\ ClockIsBounded /\ [TriggerNext]_triggerVars => ClockIsBounded'
  BY ClockStep
<1> QED BY <1>1, <1>2, <1>3, TriggerInvariant, PTL DEF TriggerSpec

(***************************************************************************)
(* Validation                                                              *)
(***************************************************************************)

\* The files of the pool wait for the first fetch, and it has filled the cache,
\* if nothing is known to have kept it from that.
PoolWaits ==
  Pool => \A f \in AllFiles \ {Prime} :
            task[f] # "waiting" => f \in GivenFiles /\ task[Prime] = "done"
CacheIsPrimed ==
  Pool /\ ~ unsaved /\ validated # "raised" /\ task[Prime] \in {"judge", "done"} =>
    schemas["gitlab"] = "whole"

ValidationInv == ValidationTypeOK /\ PoolWaits /\ CacheIsPrimed /\ PrimedCacheServesAll

\* The files of a directory have tasks of their own, beside the first fetch.
LEMMA GivenHaveTasks ==
  ASSUME ValidationTypeOK
  PROVE  GivenFiles \subseteq AllFiles /\ Prime \notin GivenFiles /\ Prime \in AllFiles
<1>1. directory.files \in 0..NumFiles
  BY DEF ValidationTypeOK
<1> QED BY <1>1, ValidationAssumption DEF GivenFiles, AllFiles, Prime

LEMMA ValidationInvInit == ValidationInit => ValidationInv
<1> SUFFICES ASSUME ValidationInit PROVE ValidationInv
  OBVIOUS
<1>1. ValidationTypeOK
  BY DEF ValidationInit, ValidationTypeOK, CacheFiles
<1>2. \A f \in AllFiles : task[f] = "waiting" /\ verdicts[f] = "none"
  BY DEF ValidationInit
<1> QED
  BY <1>1, <1>2, GivenHaveTasks
  DEF ValidationInv, PoolWaits, CacheIsPrimed, PrimedCacheServesAll

FileGoesOn(f) ==
  \/ StartFile(f) \/ LoadCache(f) \/ FetchSchema(f) \/ FetchBreaksOff(f) \/ OpenCache(f)
  \/ WritePiece(f) \/ WriteCache(f) \/ CacheFails(f) \/ Judge(f)

\* A task goes on: the others stay where they are, with what they found.
LEMMA FileMoves ==
  ASSUME ValidationTypeOK, NEW f \in AllFiles, FileGoesOn(f)
  PROVE  /\ ValidationTypeOK' /\ directory' = directory /\ validated = "none yet"
         /\ \A g \in AllFiles \ {f} : task'[g] = task[g] /\ verdicts'[g] = verdicts[g]
<1> USE DEF ValidationTypeOK
<1>1. validated = "none yet" /\ UNCHANGED <<directory, network>>
  BY DEF FileGoesOn, StartFile, LoadCache, FetchSchema, FetchBreaksOff, OpenCache, WritePiece,
         WriteCache, CacheFails, Judge, Stands, Running
<1>2. Judges(f) \in Platforms
  BY DEF Judges, Platforms
<1>3. schemas' \in [Platforms -> CacheFiles] /\ (unsaved' = unsaved \/ unsaved' = TRUE)
  BY <1>2 DEF FileGoesOn, StartFile, LoadCache, FetchSchema, FetchBreaksOff, OpenCache, WritePiece,
              WriteCache, CacheFails, Judge, CacheFiles
<1>4. PICK next \in {"waiting", "load", "fetch", "truncate", "write", "judge", "done"},
           found \in {"none", "valid", "invalid", "no schema"} :
        /\ task' = [task EXCEPT ![f] = next] \/ task' = task
        /\ verdicts' = [verdicts EXCEPT ![f] = found] \/ verdicts' = verdicts
        /\ validated' = validated \/ validated' = "raised"
  BY DEF FileGoesOn, StartFile, LoadCache, FetchSchema, FetchBreaksOff, OpenCache, WritePiece,
         WriteCache, CacheFails, Judge, Moves, Ends, GetSchemaRaises
<1>5. unsaved' \in BOOLEAN
  BY <1>3
<1>6. task' \in [AllFiles -> {"waiting", "load", "fetch", "truncate", "write", "judge", "done"}]
      /\ verdicts' \in [AllFiles -> {"none", "valid", "invalid", "no schema"}]
  BY <1>4
<1> QED BY <1>1, <1>3, <1>4, <1>5, <1>6

\* The first fetch fills the cache, or it is known that it did not.
LEMMA PrimeFills ==
  ASSUME ValidationInv, Pool, FileGoesOn(Prime)
  PROVE  ValidationInv'
<1> USE DEF ValidationInv
<1>1. /\ ValidationTypeOK' /\ directory' = directory /\ validated = "none yet"
      /\ \A g \in AllFiles \ {Prime} : task'[g] = task[g] /\ verdicts'[g] = verdicts[g]
      /\ GivenFiles' = GivenFiles /\ Pool' = Pool
  BY FileMoves, GivenHaveTasks DEF GivenFiles, Pool
<1>2. task[Prime] # "done"
  BY DEF FileGoesOn, StartFile, LoadCache, FetchSchema, FetchBreaksOff, OpenCache, WritePiece,
         WriteCache, CacheFails, Judge, Stands
<1>3. \A g \in AllFiles \ {Prime} :
        task[g] = "waiting" /\ task'[g] = "waiting" /\ verdicts'[g] = verdicts[g]
  BY <1>1, <1>2 DEF PoolWaits
<1>4. ~ unsaved' => ~ unsaved
  BY DEF FileGoesOn, StartFile, LoadCache, FetchSchema, FetchBreaksOff, OpenCache, WritePiece,
         WriteCache, CacheFails, Judge
<1>5. CacheIsPrimed'
  <2>1. SUFFICES ASSUME ~ unsaved', validated' # "raised", task'[Prime] \in {"judge", "done"}
                 PROVE  schemas'["gitlab"] = "whole"
    BY DEF CacheIsPrimed
  <2>2. Judges(Prime) = "gitlab" /\ task \in [AllFiles -> {"waiting", "load", "fetch", "truncate",
                                                          "write", "judge", "done"}]
        /\ schemas \in [Platforms -> CacheFiles] /\ "gitlab" \in Platforms /\ Prime \in AllFiles
    BY GivenHaveTasks DEF Judges, ValidationTypeOK, Platforms
  <2>3. CASE StartFile(Prime)
    BY <2>1, <2>2, <2>3 DEF StartFile, Moves
  <2>4. CASE LoadCache(Prime)
    BY <2>1, <2>2, <2>4 DEF LoadCache, Moves, GetSchemaRaises
  <2>5. CASE FetchSchema(Prime) \/ FetchBreaksOff(Prime)
    BY <2>1, <2>2, <2>5 DEF FetchSchema, FetchBreaksOff, Moves, GetSchemaRaises
  <2>6. CASE OpenCache(Prime) \/ WritePiece(Prime)
    BY <2>1, <2>2, <2>6 DEF OpenCache, WritePiece, Moves, Stands
  <2>7. CASE WriteCache(Prime) \/ CacheFails(Prime)
    BY <2>1, <2>2, <2>7 DEF WriteCache, CacheFails
  <2>8. CASE Judge(Prime)
    BY <1>1, <1>4, <2>1, <2>8 DEF Judge, Stands, CacheIsPrimed
  <2> QED BY <2>3, <2>4, <2>5, <2>6, <2>7, <2>8 DEF FileGoesOn
<1>6. PoolWaits' /\ PrimedCacheServesAll'
  BY <1>1, <1>3, <1>4, GivenHaveTasks DEF PoolWaits, PrimedCacheServesAll
<1> QED BY <1>1, <1>5, <1>6

\* A worker takes its schema from the cache.
LEMMA WorkerIsServed ==
  ASSUME ValidationInv, Pool, NEW f \in AllFiles, f # Prime, FileGoesOn(f)
  PROVE  ValidationInv'
<1> USE DEF ValidationInv
<1>1. /\ ValidationTypeOK' /\ directory' = directory /\ validated = "none yet"
      /\ \A g \in AllFiles \ {f} : task'[g] = task[g] /\ verdicts'[g] = verdicts[g]
      /\ GivenFiles' = GivenFiles /\ Pool' = Pool
  BY FileMoves DEF GivenFiles, Pool
<1>2. ~ unsaved' => ~ unsaved
  BY DEF FileGoesOn, StartFile, LoadCache, FetchSchema, FetchBreaksOff, OpenCache, WritePiece,
         WriteCache, CacheFails, Judge
<1>3. Prime \in AllFiles /\ task'[Prime] = task[Prime] /\ GivenFiles \subseteq AllFiles
      /\ Judges(f) = "gitlab"
      /\ task \in [AllFiles -> {"waiting", "load", "fetch", "truncate", "write", "judge", "done"}]
      /\ verdicts \in [AllFiles -> {"none", "valid", "invalid", "no schema"}]
  BY <1>1, GivenHaveTasks DEF Judges, ValidationTypeOK
<1>4. f \in GivenFiles /\ task[Prime] = "done"
  BY <1>3 DEF PoolWaits, FileGoesOn, StartFile, LoadCache, FetchSchema, FetchBreaksOff, OpenCache,
         WritePiece, WriteCache, CacheFails, Judge, Stands, May
<1>5. ValidationInv'
  <2>1. task[Prime] = "done" /\ f \in GivenFiles
    BY <1>4
  <2>2. PoolWaits'
    BY <1>1, <1>3, <2>1 DEF PoolWaits
  <2>3. ASSUME ~ unsaved'
        PROVE  /\ schemas' = schemas /\ schemas["gitlab"] = "whole"
               /\ task'[f] \notin {"fetch", "truncate", "write"} /\ verdicts'[f] # "no schema"
    <3>1. schemas["gitlab"] = "whole"
      BY <1>1, <1>2, <2>1, <2>3 DEF CacheIsPrimed
    <3>2. task[f] \notin {"fetch", "truncate", "write"} /\ verdicts[f] # "no schema"
      BY <1>2, <1>4, <2>3 DEF PrimedCacheServesAll
    <3>3. CASE StartFile(f)
      <4>1. /\ schemas' = schemas
            /\ \/ task' = [task EXCEPT ![f] = "load"] /\ verdicts' = verdicts
               \/ \E found \in {"valid", "invalid"} :
                    /\ task' = [task EXCEPT ![f] = "done"]
                    /\ verdicts' = [verdicts EXCEPT ![f] = found]
        BY <3>3 DEF StartFile, Moves, Ends
      <4>2. task'[f] \in {"load", "done"} /\ verdicts'[f] # "no schema"
        BY <1>3, <3>2, <4>1
      <4> QED BY <3>1, <4>1, <4>2
    <3>4. CASE LoadCache(f)
      BY <1>3, <3>1, <3>2, <3>4 DEF LoadCache, Moves
    <3>5. CASE Judge(f)
      BY <1>3, <3>5, <3>1 DEF Judge, Ends
    <3>6. ~ (FetchSchema(f) \/ FetchBreaksOff(f) \/ OpenCache(f) \/ WritePiece(f)
               \/ WriteCache(f) \/ CacheFails(f))
      BY <3>2 DEF FetchSchema, FetchBreaksOff, OpenCache, WritePiece, WriteCache, CacheFails, Stands
    <3> QED BY <3>1, <3>3, <3>4, <3>5, <3>6 DEF FileGoesOn
  <2>4. CacheIsPrimed' /\ PrimedCacheServesAll'
    BY <1>1, <1>2, <1>3, <2>3 DEF CacheIsPrimed, PrimedCacheServesAll
  <2> QED BY <1>1, <2>2, <2>4
<1> QED BY <1>5

LEMMA ValidationInvStep == ValidationInv /\ [ValidationNext]_validateVars => ValidationInv'
<1> SUFFICES ASSUME ValidationInv, [ValidationNext]_validateVars PROVE ValidationInv'
  OBVIOUS
<1> USE DEF ValidationInv
<1>1. CASE NetworkChanges \/ ReportFiles \/ ValidateKilled \/ UNCHANGED validateVars
  <2>1. /\ UNCHANGED <<directory, schemas, task, verdicts, unsaved>>
        /\ validated' \in {validated, "zero", "one", "killed"}
        /\ validated' # validated => validated = "none yet"
        /\ network' \in BOOLEAN
    BY <1>1 DEF NetworkChanges, ReportFiles, ValidateKilled, Running, validateVars, ValidationTypeOK
  <2>2. Pool' = Pool /\ GivenFiles' = GivenFiles
    BY <2>1 DEF Pool, GivenFiles
  <2>3. ValidationTypeOK'
    BY <2>1 DEF ValidationTypeOK
  <2> QED BY <2>1, <2>2, <2>3 DEF PoolWaits, CacheIsPrimed, PrimedCacheServesAll
<1>2. ASSUME NEW p \in Platforms, CacheAges(p)
      PROVE  ValidationInv'
  <2>1. /\ UNCHANGED <<directory, network, task, verdicts, validated>>
        /\ unsaved' = (unsaved \/ schemas[p] = "whole")
        /\ schemas' = [schemas EXCEPT ![p] = "old"]
    BY <1>2 DEF CacheAges
  <2>2. Pool' = Pool /\ GivenFiles' = GivenFiles
    BY <2>1 DEF Pool, GivenFiles
  <2>3. ValidationTypeOK'
    BY <2>1 DEF ValidationTypeOK, CacheFiles
  <2>4. ASSUME ~ unsaved', schemas["gitlab"] = "whole"
        PROVE  schemas'["gitlab"] = "whole"
    BY <1>2, <2>1, <2>4 DEF ValidationTypeOK, Platforms, ValidationInv
  <2> QED BY <2>1, <2>2, <2>3, <2>4 DEF PoolWaits, CacheIsPrimed, PrimedCacheServesAll
<1>3. CASE ValidateAgain
  <2>1. /\ validated' = "none yet" /\ UNCHANGED <<directory, schemas, network, unsaved>>
        /\ task' = [f \in AllFiles |-> "waiting"] /\ verdicts' = [f \in AllFiles |-> "none"]
    BY <1>3 DEF ValidateAgain
  <2>2. ValidationTypeOK' /\ \A f \in AllFiles : task'[f] = "waiting" /\ verdicts'[f] = "none"
    BY <2>1 DEF ValidationTypeOK
  <2>3. GivenFiles' \subseteq AllFiles /\ Prime \in AllFiles
    BY <2>1, GivenHaveTasks DEF GivenFiles
  <2> QED BY <2>2, <2>3 DEF PoolWaits, CacheIsPrimed, PrimedCacheServesAll
<1>4. ASSUME NEW f \in AllFiles, FileGoesOn(f), ~ Pool
      PROVE  ValidationInv'
  <2>1. ValidationTypeOK' /\ ~ Pool'
    BY <1>4, FileMoves DEF Pool
  <2> QED BY <2>1 DEF PoolWaits, CacheIsPrimed, PrimedCacheServesAll
<1> QED
  BY <1>1, <1>2, <1>3, <1>4, PrimeFills, WorkerIsServed DEF ValidationNext, FileGoesOn

\* Of a pool no worker fetches or saves a schema, and none turns a file down for
\* want of one, unless the schema could not be kept (run_validate_all primes the
\* cache, validate_all.py:200).  For any number of files and any size from which
\* the pool is used, across kills and reruns.
THEOREM PrimingServesThePool == ValidationSpec => []PrimedCacheServesAll
<1>1. ValidationInv => PrimedCacheServesAll
  BY DEF ValidationInv
<1> QED BY ValidationInvInit, ValidationInvStep, <1>1, PTL DEF ValidationSpec

\* The files, the cache and the tasks keep their types.
THEOREM ValidationTypes == ValidationSpec => []ValidationTypeOK
<1>1. ValidationInv => ValidationTypeOK
  BY DEF ValidationInv
<1> QED BY ValidationInvInit, ValidationInvStep, <1>1, PTL DEF ValidationSpec

(*****************************************************************************)
(* The command line and its front ends                                       *)
(*****************************************************************************)

\* The flags of the forms of the graphical interface are flags of the parser.
LEMMA GuiFormsFit ==
  ASSUME NEW c \in Commands, NEW flags \in Gui(c)
  PROVE  flags \subseteq Accepts(c)
<1> USE DEF Gui, GuiProject, GuiRepository, Form, Common, Volume,
            Accepts, ProjectFlags, TreeFlags, NetworkFlags, RepositoryFlags
<1>1. CASE c = "compile"
  BY <1>1
<1>2. CASE c = "clean"
  BY <1>2
<1>3. CASE c = "decompile"
  BY <1>3
<1>4. CASE c = "detect-drift"
  BY <1>4
<1>5. CASE c = "copy2local"
  BY <1>5
<1>6. CASE c = "init"
  BY <1>6
<1>7. CASE c = "map-deploy"
  BY <1>7
<1>8. CASE c = "commit-map"
  BY <1>8
<1>9. CASE c = "lint"
  BY <1>9
<1>10. CASE c = "check-pins"
  BY <1>10
<1>11. CASE c = "trigger-pipelines"
  BY <1>11
<1>12. CASE c = "install-precommit"
  BY <1>12
<1>13. CASE c = "uninstall-precommit"
  BY <1>13
<1>14. CASE c = "doctor"
  BY <1>14
<1>15. CASE c = "show-config"
  BY <1>15
<1>16. CASE c = "detect-uncompiled"
  BY <1>16
<1>17. CASE c = "validate"
  BY <1>17
<1>18. CASE c = "autogit"
  BY <1>18
<1> QED BY <1>1, <1>2, <1>3, <1>4, <1>5, <1>6, <1>7, <1>8, <1>9, <1>10, <1>11, <1>12, <1>13, <1>14,
           <1>15, <1>16, <1>17, <1>18 DEF Commands

\* And those of the terminal interface.
LEMMA TuiFormsFit ==
  ASSUME NEW c \in Commands, NEW flags \in Tui(c)
  PROVE  flags \subseteq Accepts(c)
<1> USE DEF Tui, TuiProject, TuiTree, TuiNetwork, TuiUtility, TuiCheck, Form, Common, Volume,
            TuiCommon, Accepts, ProjectFlags, TreeFlags, NetworkFlags, RepositoryFlags
<1>1. CASE c = "compile"
  BY <1>1
<1>2. CASE c = "clean"
  BY <1>2
<1>3. CASE c = "decompile"
  BY <1>3
<1>4. CASE c = "detect-drift"
  BY <1>4
<1>5. CASE c = "copy2local"
  BY <1>5
<1>6. CASE c = "init"
  BY <1>6
<1>7. CASE c = "map-deploy"
  BY <1>7
<1>8. CASE c = "commit-map"
  BY <1>8
<1>9. CASE c = "lint"
  BY <1>9
<1>10. CASE c = "check-pins"
  BY <1>10
<1>11. CASE c = "trigger-pipelines"
  BY <1>11
<1>12. CASE c = "install-precommit"
  BY <1>12
<1>13. CASE c = "uninstall-precommit"
  BY <1>13
<1>14. CASE c = "doctor"
  BY <1>14
<1>15. CASE c = "show-config"
  BY <1>15
<1>16. CASE c = "detect-uncompiled"
  BY <1>16
<1>17. CASE c = "validate"
  BY <1>17
<1>18. CASE c = "autogit"
  BY <1>18
<1> QED BY <1>1, <1>2, <1>3, <1>4, <1>5, <1>6, <1>7, <1>8, <1>9, <1>10, <1>11, <1>12, <1>13, <1>14,
           <1>15, <1>16, <1>17, <1>18 DEF Commands

\* The attributes the menu gives are those the handlers read, but for three.
LEMMA MenuFits ==
  ASSUME NEW c \in Commands, NEW flags \in Menu(c)
  PROVE  /\ \/ Reads(c) \subseteq flags
            \/ c = "init"
            \/ c = "decompile" /\ "input_folder" \in flags
            \/ c = "trigger-pipelines" /\ "variable" \notin flags
         /\ "autogit" \notin flags
<1> USE DEF Menu, MenuProject, MenuRepository, MenuRemote, Options, Reads, ReadsNetwork,
            ReadsSources, ReadsOutput, ReadsPipeline, ReadsRepository, ReadsChanges
<1>1. CASE c = "compile"
  BY <1>1
<1>2. CASE c = "clean"
  BY <1>2
<1>3. CASE c = "decompile"
  BY <1>3
<1>4. CASE c = "detect-drift"
  BY <1>4
<1>5. CASE c = "copy2local"
  BY <1>5
<1>6. CASE c = "init"
  BY <1>6
<1>7. CASE c = "map-deploy"
  BY <1>7
<1>8. CASE c = "commit-map"
  BY <1>8
<1>9. CASE c = "lint"
  BY <1>9
<1>10. CASE c = "check-pins"
  BY <1>10
<1>11. CASE c = "trigger-pipelines"
  BY <1>11
<1>12. CASE c = "install-precommit"
  BY <1>12
<1>13. CASE c = "uninstall-precommit"
  BY <1>13
<1>14. CASE c = "doctor"
  BY <1>14
<1>15. CASE c = "show-config"
  BY <1>15
<1>16. CASE c = "detect-uncompiled"
  BY <1>16
<1>17. CASE c = "validate"
  BY <1>17
<1>18. CASE c = "autogit"
  BY <1>18
<1> QED BY <1>1, <1>2, <1>3, <1>4, <1>5, <1>6, <1>7, <1>8, <1>9, <1>10, <1>11, <1>12, <1>13, <1>14,
           <1>15, <1>16, <1>17, <1>18 DEF Commands

\* The call is one that a front end can make.
CallIsOffered ==
  stage # "open" =>
    /\ call.command \in Commands
    /\ \/ call.front \in {"gui", "tui"} /\ call.given \in Gui(call.command) \cup Tui(call.command)
       \/ call.front = "menu" /\ call.given \in Menu(call.command)

Returned == {"zero", "nothing", "problems", "error"}

\* How far a use has come, and what is known of it by then.
StagesInOrder ==
  /\ stage \in {"open", "entered", "parsed", "handled", "settled", "done"}
  /\ stage \in {"open", "entered", "parsed"} => result = "pending" /\ commits = 0
  /\ stage # "done" => report = "pending"
  /\ stage \in {"parsed", "handled", "settled"} => call.given \subseteq Accepts(call.command)
  /\ stage = "handled" => result \in Returned /\ commits = 0
  /\ stage = "settled" => result \in Returned
  /\ stage \in {"handled", "settled"} /\ result = "nothing"
       => call.command \in {"clean", "detect-uncompiled"}

\* The commit that was asked for is made once, after a success.
CommitsAreAsked ==
  stage = "settled" =>
    /\ commits \in {0, 1} /\ (commits = 1 => result \in {"zero", "error"})
    /\ result = "zero" /\ "autogit" \in call.given => commits = 1

CliInv == CallIsOffered /\ StagesInOrder /\ CommitsAreAsked
CliPromises == FormsAreUnderstood /\ MenuIsComplete /\ ReportIsHonest

\* A form can leave values empty, but the parser knows its flags.
LEMMA UsageIsIncomplete ==
  ASSUME CliInv, NEW configured \in BOOLEAN, Parse(configured)
  PROVE  FormsAreUnderstood'
<1>1. call.command \in Commands /\ call.given \in Gui(call.command) \cup Tui(call.command)
  BY DEF CliInv, CallIsOffered, Parse
<1>2. call.given \subseteq Accepts(call.command)
  BY <1>1, GuiFormsFit, TuiFormsFit
<1>3. Missing(call.command, call.given, configured) \subseteq Missing(call.command, call.given, FALSE)
  BY DEF Missing
<1> QED BY <1>2, <1>3 DEF CliInv, StagesInOrder, Parse, FormsAreUnderstood

LEMMA CliStep ==
  ASSUME CliInv, CliPromises, [CliNext]_cliVars
  PROVE  CliInv' /\ CliPromises'
<1> USE DEF CliInv, CliPromises
<1>1. ASSUME NEW front \in {"gui", "tui", "menu"}, NEW c \in Commands, NEW flags, Enter(front, c, flags),
             \/ front \in {"gui", "tui"} /\ flags \in Gui(c) \cup Tui(c)
             \/ front = "menu" /\ flags \in Menu(c)
      PROVE  CliInv' /\ CliPromises'
  <2>1. call'.front = front /\ call'.command = c /\ call'.given = flags
    BY <1>1 DEF Enter
  <2> QED BY <1>1, <2>1 DEF Enter, CallIsOffered, StagesInOrder, CommitsAreAsked,
                                FormsAreUnderstood, MenuIsComplete, ReportIsHonest
<1>2. ASSUME NEW configured \in BOOLEAN, Parse(configured)
      PROVE  CliInv' /\ CliPromises'
  <2>1. CliInv'
    BY <1>2 DEF Parse, CallIsOffered, StagesInOrder, CommitsAreAsked
  <2>2. FormsAreUnderstood'
    BY <1>2, UsageIsIncomplete
  <2>3. result' = "pending" /\ commits' = 0 /\ report' \in {"pending", "usage"}
    BY <1>2 DEF Parse, StagesInOrder
  <2>4. MenuIsComplete' /\ ReportIsHonest'
    BY <2>3 DEF MenuIsComplete, ReportIsHonest
  <2> QED BY <2>1, <2>2, <2>4
<1>3. ASSUME NEW outcome \in Outcomes, Handle(outcome)
      PROVE  CliInv' /\ CliPromises'
  BY <1>3 DEF Handle, Success, Outcomes, Returned, CallIsOffered, StagesInOrder, CommitsAreAsked,
                FormsAreUnderstood, MenuIsComplete, ReportIsHonest
<1>4. ASSUME NEW outcome \in Outcomes, CallHandler(outcome)
      PROVE  CliInv' /\ CliPromises'
  <2>1. call.command \in Commands /\ call.given \in Menu(call.command)
    BY <1>4 DEF CallHandler, CallIsOffered
  <2>2. "autogit" \notin call.given
    BY <2>1, MenuFits
  <2>3. call' = call /\ commits' = 0 /\ report' \in {"ok", "failed"} /\ stage' = "done"
    BY <1>4 DEF CallHandler, StagesInOrder
  <2>4. result' = "missing" => ~ Reads(call.command) \subseteq call.given
    BY <1>4 DEF CallHandler, Success, Outcomes
  <2>5. report' = "ok" => result' = "zero"
    BY <1>4 DEF CallHandler
  <2>6. CliInv'
    BY <1>4, <2>3 DEF CallHandler, CallIsOffered, StagesInOrder, CommitsAreAsked
  <2>7. MenuIsComplete'
    BY <2>1, <2>3, <2>4, MenuFits DEF MenuIsComplete
  <2>8. FormsAreUnderstood'
    BY <2>3 DEF FormsAreUnderstood
  <2>9. ReportIsHonest'
    <3>1. ~ (commits > 0)'
      BY <2>3
    <3> QED BY <2>2, <2>3, <2>5, <3>1 DEF ReportIsHonest
  <2> QED BY <2>6, <2>7, <2>8, <2>9
<1>5. ASSUME NEW succeeds \in BOOLEAN, Autogit(succeeds)
      PROVE  CliInv' /\ CliPromises'
  <2>1. commits = 0 /\ result \in Returned /\ stage' = "settled" /\ call' = call /\ report' = "pending"
    BY <1>5 DEF Autogit, StagesInOrder
  <2>2. CASE result = "zero" /\ "autogit" \in call.given
    <3>1. commits' = 1 /\ result' \in {"zero", "error"}
      BY <1>5, <2>1, <2>2 DEF Autogit
    <3> QED BY <1>5, <2>1, <3>1 DEF Returned, Autogit, CallIsOffered, StagesInOrder, CommitsAreAsked,
                                     FormsAreUnderstood, MenuIsComplete, ReportIsHonest
  <2>3. CASE ~ (result = "zero" /\ "autogit" \in call.given)
    <3>1. commits' = 0 /\ result' = result
      BY <1>5, <2>1, <2>3 DEF Autogit
    <3>2. StagesInOrder' /\ CallIsOffered'
      BY <1>5, <2>1, <3>1 DEF Autogit, Returned, StagesInOrder, CallIsOffered
    <3>3. CommitsAreAsked' /\ FormsAreUnderstood' /\ MenuIsComplete' /\ ReportIsHonest'
      BY <2>1, <2>3, <3>1
      DEF Returned, CommitsAreAsked, FormsAreUnderstood, MenuIsComplete, ReportIsHonest
    <3> QED BY <3>2, <3>3
  <2> QED BY <2>2, <2>3
<1>6. CASE Exit
  <2>1. CliInv' /\ FormsAreUnderstood' /\ MenuIsComplete'
    BY <1>6 DEF Exit, Returned, CallIsOffered, StagesInOrder, CommitsAreAsked, FormsAreUnderstood,
                MenuIsComplete
  <2>2. "autogit" \notin Accepts("detect-uncompiled")
    BY DEF Accepts, ProjectFlags, TreeFlags, NetworkFlags, RepositoryFlags
  <2>3. ReportIsHonest'
    BY <1>6, <2>2 DEF Exit, Returned, StagesInOrder, CommitsAreAsked, ReportIsHonest
  <2> QED BY <2>1, <2>3
<1>7. CASE UNCHANGED cliVars
  BY <1>7 DEF cliVars, CallIsOffered, StagesInOrder, CommitsAreAsked, FormsAreUnderstood,
                MenuIsComplete, ReportIsHonest
<1> QED BY <1>1, <1>2, <1>3, <1>4, <1>5, <1>6, <1>7 DEF CliNext

LEMMA CliInvariant == CliSpec => [](CliInv /\ CliPromises)
<1>1. CliInit => CliInv /\ CliPromises
  BY DEF CliInit, CliInv, CallIsOffered, StagesInOrder, CommitsAreAsked, CliPromises,
         FormsAreUnderstood, MenuIsComplete, ReportIsHonest
<1> QED BY <1>1, CliStep, PTL DEF CliSpec

\* A command that a front end reports as done has succeeded, with the autogit
\* that was asked for.
THEOREM ReportsAreHonest == CliSpec => []ReportIsHonest
BY CliInvariant, PTL DEF CliPromises

\* No form of the graphical or the terminal interface puts a flag on a command
\* line that the parser does not know for the command.
THEOREM FormsFitTheParser == CliSpec => []FormsAreUnderstood
BY CliInvariant, PTL DEF CliPromises

\* The menu gives each handler the attributes it reads, but for three.
THEOREM MenuFitsTheHandlers == CliSpec => []MenuIsComplete
BY CliInvariant, PTL DEF CliPromises

(*****************************************************************************)
(* The settings                                                              *)
(*****************************************************************************)

\* The first of two layers that is set, and the first of three.
LEMMA FirstOfTwo ==
  ASSUME NEW a, NEW b, NEW otherwise
  PROVE  /\ a \in layersSet => First(<<a, b>>, otherwise) = a
         /\ a \notin layersSet /\ b \in layersSet => First(<<a, b>>, otherwise) = b
         /\ a \notin layersSet /\ b \notin layersSet => First(<<a, b>>, otherwise) = otherwise
<1> DEFINE L == <<a, b>>
           Leads(i) == L[i] \in layersSet /\ \A j \in 1..(i - 1) : L[j] \notin layersSet
<1>1. DOMAIN L = {1, 2} /\ L[1] = a /\ L[2] = b
  OBVIOUS
<1>2. CASE a \in layersSet
  <2>1. \A i \in DOMAIN L : Leads(i) <=> i = 1
    BY <1>1, <1>2
  <2> QED BY <1>1, <1>2, <2>1 DEF First
<1>3. CASE a \notin layersSet /\ b \in layersSet
  <2>1. \A i \in DOMAIN L : Leads(i) <=> i = 2
    BY <1>1, <1>3
  <2> QED BY <1>1, <1>3, <2>1 DEF First
<1>4. CASE a \notin layersSet /\ b \notin layersSet
  BY <1>1, <1>4 DEF First
<1> QED BY <1>2, <1>3, <1>4

LEMMA OnlyLayer ==
  ASSUME NEW a, NEW otherwise
  PROVE  /\ a \in layersSet => First(<<a>>, otherwise) = a
         /\ a \notin layersSet => First(<<a>>, otherwise) = otherwise
<1>1. DOMAIN <<a>> = {1} /\ <<a>>[1] = a
  OBVIOUS
<1> QED BY <1>1 DEF First

\* Only the last of three layers can be set.
LEMMA LastOfThree ==
  ASSUME NEW L, L \in Seq({"env_section", "file_section", "file"}), Len(L) = 3,
         NEW otherwise, L[1] \notin layersSet, L[2] \notin layersSet
  PROVE  First(L, otherwise) = IF L[3] \in layersSet THEN L[3] ELSE otherwise
<1> DEFINE Leads(i) == L[i] \in layersSet /\ \A j \in 1..(i - 1) : L[j] \notin layersSet
<1>1. DOMAIN L = {1, 2, 3}
  OBVIOUS
<1>2. CASE L[3] \in layersSet
  <2>1. \A i \in DOMAIN L : Leads(i) <=> i = 3
    BY <1>1, <1>2
  <2> QED BY <1>1, <1>2, <2>1 DEF First
<1>3. CASE L[3] \notin layersSet
  BY <1>1, <1>3 DEF First
<1> QED BY <1>2, <1>3

\* compile and validate read the same directory, unless a layer of the section
\* [compile] is set or the environment and the file both are.
THEOREM InputDirectoriesAgree == SettingsSpec => []OneInputDirectory
<1>1. OneInputDirectory
  <2> SUFFICES ASSUME "env_section" \notin layersSet, "file_section" \notin layersSet,
                      "env" \notin layersSet \/ "file" \notin layersSet
               PROVE  CompileInput = SectionedArgument
    BY DEF OneInputDirectory
  <2>1. /\ "cli" \in layersSet => Cli = "cli"
        /\ "cli" \notin layersSet => Cli = Unset
    BY OnlyLayer DEF Cli
  <2>2. Global = First(<<"env", "file">>, Unset)
    BY DEF Global, _get_value
  <2>3. /\ "env" \in layersSet => Global = "env"
        /\ "env" \notin layersSet /\ "file" \in layersSet => Global = "file"
        /\ "env" \notin layersSet /\ "file" \notin layersSet => Global = Unset
    BY <2>2, FirstOfTwo
  <2>4. _get_value(TRUE) = First(<<"env_section", "file_section", "file">>, Unset)
    BY DEF _get_value
  <2>5. /\ "file" \in layersSet => _get_value(TRUE) = "file"
        /\ "file" \notin layersSet => _get_value(TRUE) = Unset
    <3> DEFINE L == <<"env_section", "file_section", "file">>
    <3>1. L \in Seq({"env_section", "file_section", "file"}) /\ Len(L) = 3
      OBVIOUS
    <3>2. L[1] = "env_section" /\ L[2] = "file_section" /\ L[3] = "file"
      OBVIOUS
    <3> HIDE DEF L
    <3>3. First(L, Unset) = IF "file" \in layersSet THEN "file" ELSE Unset
      BY <3>1, <3>2, LastOfThree
    <3> QED BY <2>4, <3>3 DEF L
  <2> QED BY <2>1, <2>3, <2>5 DEF CompileInput, SectionedArgument, Sectioned, Or, Unset
<1> QED BY <1>1, PTL
=============================================================================
