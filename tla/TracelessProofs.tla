---------------------------- MODULE TracelessProofs ----------------------------
(***************************************************************************)
(* What traceless adopt and compile promise, for any files, folders, jobs  *)
(* and processes, whether or not anything runs beside an adopt.            *)
(***************************************************************************)
EXTENDS Traceless, TLAPS

\* The revisions that exist, and the texts made of them.
Known == 1..(Len(Order) + edits)
KnownText == [rev : Known, layout : {"tool", "hand", "bare"}] \cup {None}

Stages == {"idle", "extract", "rewrite", "register", "recompile", "render", "lock", "publish",
           "record"}
ProcStates == [at : Stages, file : Files \cup {None}, text : KnownText, seen : KnownText,
               todo : SUBSET Files, force : BOOLEAN]

\* Nothing names a revision that does not exist yet.
TextsKnown ==
  /\ tree \in [Files -> KnownText] /\ hashes \in [Files -> KnownText]
  /\ sources \in [Scripts -> Known \cup {None}]
  /\ own \in [Files -> SUBSET Known]
  /\ edits \in 0..MaxEdits

ProcsKnown ==
  /\ proc \in [Procs -> ProcStates]
  /\ \A p \in Procs : /\ proc[p].at = "idle" => proc[p] = Idle
                      /\ proc[p].at \notin {"idle", "render"} => proc[p].file \in Files

SetsKnown ==
  /\ yaml \subseteq Files /\ adopted \subseteq Files
  /\ manual \subseteq Files /\ blind \subseteq Files /\ torn \subseteq Files
  /\ scripted \subseteq Files /\ damaged \subseteq Files
  /\ shredding \subseteq {"state", "sources"}
  /\ shredding # {} => \A p \in Procs : proc[p].at = "idle"

Types == TextsKnown /\ ProcsKnown /\ SetsKnown

\* The types of the module follow, as no more than MaxEdits revisions are made.
LEMMA TypesImplyTypeOK == Types => TracelessTypeOK
<1> SUFFICES ASSUME Types PROVE TracelessTypeOK
  OBVIOUS
<1> USE TracelessAssumption
<1>1. Known \subseteq Revs /\ KnownText \subseteq Text \cup {None}
  <2>1. Len(Order) \in Nat /\ edits \in Nat /\ MaxEdits \in Nat /\ edits <= MaxEdits
    BY DEF Types, TextsKnown
  <2> QED BY <2>1 DEF Known, KnownText, Revs, Text
<1>2. /\ tree \in [Files -> Text \cup {None}] /\ hashes \in [Files -> Text \cup {None}]
      /\ sources \in [Scripts -> Revs \cup {None}] /\ own \in [Files -> SUBSET Revs]
  BY <1>1 DEF Types, TextsKnown
<1>3. ASSUME NEW p \in Procs
      PROVE  /\ proc[p].at \in Stages /\ proc[p].file \in Files \cup {None}
             /\ proc[p].text \in Text \cup {None} /\ proc[p].seen \in Text \cup {None}
             /\ proc[p].todo \subseteq Files /\ proc[p].force \in BOOLEAN
  <2>1. proc[p] \in ProcStates
    BY DEF Types, ProcsKnown
  <2> QED BY <2>1, <1>1 DEF ProcStates
<1> QED BY <1>2, <1>3 DEF TracelessTypeOK, Types, TextsKnown, SetsKnown, Stages

LEMMA TypesInit == TracelessInit => Types
<1> SUFFICES ASSUME TracelessInit PROVE Types
  OBVIOUS
<1> USE TracelessAssumption
<1>1. edits = 0 /\ Known = 1..Len(Order) /\ Len(Order) \in Nat
  BY DEF TracelessInit, Known
<1>2. ASSUME NEW f \in Files PROVE First(f) \in Known
  <2>1. \E i \in 1..Len(Order) : Order[i] = f
    BY DEF Files, ToSet
  <2> QED BY <2>1, <1>1 DEF First
<1>3. TextsKnown
  BY <1>1, <1>2 DEF TracelessInit, TextsKnown, KnownText
<1>4. Idle \in ProcStates /\ Idle.at = "idle"
  BY DEF Idle, ProcStates, Stages, KnownText
<1>5. ProcsKnown
  BY <1>4 DEF TracelessInit, ProcsKnown
<1>6. SetsKnown
  BY DEF TracelessInit, SetsKnown
<1> QED BY <1>3, <1>5, <1>6 DEF Types

----
(* A step of one process *)

\* A process may go into any known state that is idle or has a file.
LEMMA ProcGoes ==
  ASSUME ProcsKnown, NEW p \in Procs, NEW r \in ProcStates, edits' = edits,
         proc' = [proc EXCEPT ![p] = r],
         r.at = "idle" => r = Idle, r.at \notin {"idle", "render"} => r.file \in Files
  PROVE  ProcsKnown'
<1>1. ProcStates' = ProcStates
  BY DEF ProcStates, KnownText, Known
<1>2. proc' \in [Procs -> ProcStates]
  BY DEF ProcsKnown
<1> QED BY <1>1, <1>2 DEF ProcsKnown

\* Goto changes where a process is, and no more.
LEMMA GotoTypes ==
  ASSUME ProcsKnown, NEW p \in Procs, NEW step \in Stages \ {"idle"}, Goto(p, step), edits' = edits,
         proc[p].file \in Files
  PROVE  /\ ProcsKnown'
         /\ proc'[p] = [proc[p] EXCEPT !.at = step]
<1>1. proc[p] \in ProcStates /\ proc' = [proc EXCEPT ![p] = [proc[p] EXCEPT !.at = step]]
  BY DEF ProcsKnown, Goto
<1> DEFINE r == [proc[p] EXCEPT !.at = step]
<1>2. r \in ProcStates /\ r.at = step /\ r.file = proc[p].file
  BY <1>1 DEF ProcStates
<1>3. ProcsKnown'
  BY <1>1, <1>2, ProcGoes
<1> QED BY <1>1, <1>3 DEF ProcsKnown

LEMMA ReturnTypes ==
  ASSUME ProcsKnown, NEW p \in Procs, Return(p), edits' = edits
  PROVE  ProcsKnown'
<1>1. Idle \in ProcStates
  BY DEF Idle, ProcStates, Stages, KnownText
<1> QED BY <1>1, ProcGoes DEF Return, Idle

LEMMA NextFileTypes ==
  ASSUME ProcsKnown, NEW p \in Procs, NextFile(p), edits' = edits
  PROVE  ProcsKnown'
<1>1. proc[p] \in ProcStates
  BY DEF ProcsKnown
<1> DEFINE r == [Idle EXCEPT !.at = "render", !.force = proc[p].force,
                             !.todo = proc[p].todo \ {proc[p].file}]
<1>2. r \in ProcStates /\ r.at = "render"
  BY <1>1 DEF Idle, ProcStates, Stages, KnownText
<1>3. proc' = [proc EXCEPT ![p] = r]
  BY DEF NextFile
<1> QED BY <1>2, <1>3, ProcGoes

\* What has not been edited is known as before.
LEMMA SameKnown == edits' = edits => Known' = Known /\ KnownText' = KnownText
BY DEF Known, KnownText

LEMMA ProcKnown ==
  ASSUME ProcsKnown, NEW p \in Procs
  PROVE  /\ proc[p].at \in Stages /\ proc[p].file \in Files \cup {None}
         /\ proc[p].text \in KnownText /\ proc[p].seen \in KnownText
         /\ proc[p].todo \subseteq Files /\ proc[p].force \in BOOLEAN
         /\ proc[p].at \notin {"idle", "render"} => proc[p].file \in Files
<1>1. proc[p] \in ProcStates
  BY DEF ProcsKnown
<1> QED BY <1>1 DEF ProcsKnown, ProcStates

\* adopt keeps the types.
LEMMA AdoptTypes ==
  ASSUME Types, NEW p \in Procs, Adopt(p) \/ \E f \in Files : StartAdopt(p, f)
  PROVE  Types'
<1> USE TracelessAssumption DEF Types
<1>1. ASSUME NEW f \in Files, StartAdopt(p, f) PROVE Types'
  <2> DEFINE r == [Idle EXCEPT !.at = "extract", !.file = f, !.seen = tree[f]]
  <2>1. tree[f] \in KnownText
    BY DEF TextsKnown
  <2>2. r \in ProcStates /\ r.at = "extract" /\ r.file = f
    BY <2>1 DEF Idle, ProcStates, Stages, KnownText
  <2>3. edits' = edits /\ proc' = [proc EXCEPT ![p] = r]
    BY <1>1 DEF StartAdopt, counters
  <2>4. ProcsKnown'
    BY <2>2, <2>3, ProcGoes
  <2>5. TextsKnown' /\ SetsKnown'
    BY <1>1, SameKnown DEF StartAdopt, counters, stateDir, history, TextsKnown, SetsKnown
  <2> QED BY <2>4, <2>5
<1>2. ASSUME Extract(p) PROVE Types'
  <2>1. edits' = edits /\ proc[p].at = "extract" /\ proc[p].file \in Files
        /\ proc[p] \in ProcStates /\ tree[proc[p].file] \in KnownText
    BY <1>2, ProcKnown DEF Extract, counters, TextsKnown, ProcsKnown
  <2> DEFINE r == [proc[p] EXCEPT !.at = "rewrite", !.text = tree[proc[p].file]]
  <2>2. r \in ProcStates /\ r.at = "rewrite" /\ r.file = proc[p].file
    BY <2>1 DEF ProcStates, Stages
  <2>3. proc' = [proc EXCEPT ![p] = r]
    BY <1>2, <2>1 DEF Extract, ProcsKnown
  <2>4. ProcsKnown'
    BY <2>1, <2>2, <2>3, ProcGoes
  <2>5. tree[proc[p].file].rev \in Known
    BY <1>2, <2>1 DEF Extract, KnownText
  <2>6. TextsKnown' /\ SetsKnown'
    BY <1>2, <2>1, <2>5, SameKnown DEF Extract, counters, history, TextsKnown, SetsKnown
  <2> QED BY <2>4, <2>6
<1>3. ASSUME WriteUncompiled(p) PROVE Types'
  <2>1. edits' = edits /\ proc[p].file \in Files
    BY <1>3, ProcKnown DEF WriteUncompiled, counters
  <2>2. ProcsKnown'
    BY <1>3, <2>1, GotoTypes DEF WriteUncompiled, Stages
  <2>3. TextsKnown' /\ SetsKnown'
    BY <1>3, <2>1, SameKnown DEF WriteUncompiled, counters, history, TextsKnown, SetsKnown
  <2> QED BY <2>2, <2>3
<1>4. ASSUME Register(p) PROVE Types'
  <2>1. edits' = edits /\ proc[p].file \in Files
    BY <1>4, ProcKnown DEF Register, counters
  <2>2. ProcsKnown'
    BY <1>4, <2>1, GotoTypes DEF Register, Stages
  <2>3. TextsKnown'
    BY <1>4, <2>1, SameKnown DEF Register, counters, TextsKnown
  <2>4. SetsKnown'
    BY <1>4, <2>1 DEF Register, SetsKnown
  <2> QED BY <2>2, <2>3, <2>4
<1>5. ASSUME ReportRoundTrip(p) PROVE Types'
  <2>1. edits' = edits /\ proc[p].file \in Files
    BY <1>5, ProcKnown DEF ReportRoundTrip, counters
  <2>2. ProcsKnown'
    BY <1>5, <2>1, ReturnTypes DEF ReportRoundTrip
  <2>3. TextsKnown' /\ SetsKnown'
    BY <1>5, <2>1, SameKnown DEF ReportRoundTrip, counters, history, TextsKnown, SetsKnown
  <2> QED BY <2>2, <2>3
<1> QED BY <1>1, <1>2, <1>3, <1>4, <1>5 DEF Adopt

\* compile keeps the types.
LEMMA CompileTypes ==
  ASSUME Types, NEW p \in Procs, Compile(p) \/ \E force \in BOOLEAN : StartCompile(p, force)
  PROVE  Types'
<1> USE TracelessAssumption DEF Types
<1>1. ASSUME NEW force \in BOOLEAN, StartCompile(p, force) PROVE Types'
  <2> DEFINE r == [Idle EXCEPT !.at = "render", !.todo = adopted, !.force = force]
  <2>1. r \in ProcStates /\ r.at = "render"
    BY DEF Idle, ProcStates, Stages, KnownText, SetsKnown
  <2>2. edits' = edits /\ proc' = [proc EXCEPT ![p] = r]
    BY <1>1 DEF StartCompile, counters
  <2>3. ProcsKnown'
    BY <2>1, <2>2, ProcGoes
  <2>4. TextsKnown' /\ SetsKnown'
    BY <1>1, SameKnown DEF StartCompile, counters, stateDir, history, TextsKnown, SetsKnown
  <2> QED BY <2>3, <2>4
<1>2. ASSUME NEW f \in Files, RenderNext(p, f) PROVE Types'
  <2>1. edits' = edits /\ proc[p] \in ProcStates /\ proc[p].at = "render"
    BY <1>2 DEF RenderNext, Turn, counters, ProcsKnown
  <2>2. Rendered(f) \in KnownText
    BY <1>2 DEF RenderNext, Renderable, Rendered, KnownText, TextsKnown, Scripts
  <2> DEFINE r == [proc[p] EXCEPT !.at = "lock", !.file = f, !.text = Rendered(f)]
  <2>3. r \in ProcStates /\ r.at = "lock" /\ r.file = f
    BY <2>1, <2>2 DEF ProcStates, Stages
  <2>4. proc' = [proc EXCEPT ![p] = r]
    BY <1>2 DEF RenderNext, ProcsKnown
  <2>5. ProcsKnown'
    BY <2>1, <2>3, <2>4, ProcGoes
  <2>6. TextsKnown' /\ SetsKnown'
    BY <1>2, <2>1, SameKnown DEF RenderNext, Turn, counters, stateDir, history, TextsKnown, SetsKnown
  <2> QED BY <2>5, <2>6
<1>3. ASSUME UpToDate(p) \/ Accept(p) PROVE Types'
  <2>1. edits' = edits /\ proc[p].at = "lock" /\ proc[p].file \in Files
        /\ proc[p] \in ProcStates /\ tree[proc[p].file] \in KnownText
    BY <1>3, ProcKnown DEF UpToDate, Accept, counters, TextsKnown, ProcsKnown
  <2>2. ASSUME NEW step \in {"record", "publish"},
               proc' = [proc EXCEPT ![p] = [@ EXCEPT !.at = step, !.seen = tree[proc[p].file]]]
        PROVE  ProcsKnown'
    <3> DEFINE r == [proc[p] EXCEPT !.at = step, !.seen = tree[proc[p].file]]
    <3>1. r \in ProcStates /\ r.at = step /\ r.file = proc[p].file
      BY <2>1 DEF ProcStates, Stages
    <3>2. proc' = [proc EXCEPT ![p] = r]
      BY <2>1, <2>2 DEF ProcsKnown
    <3> QED BY <2>1, <3>1, <3>2, ProcGoes
  <2>3. ProcsKnown'
    BY <1>3, <2>1, <2>2, NextFileTypes DEF UpToDate, Accept
  <2>4. TextsKnown'
    BY <1>3, <2>1, SameKnown DEF UpToDate, Accept, counters, stateDir, history, TextsKnown
  <2>5. SetsKnown'
    BY <1>3, <2>1 DEF UpToDate, Accept, stateDir, history, SetsKnown
  <2> QED BY <2>3, <2>4, <2>5
<1>4. ASSUME Publish(p) PROVE Types'
  <2>1. edits' = edits /\ proc[p].file \in Files /\ proc[p].text \in KnownText
    BY <1>4, ProcKnown DEF Publish, counters
  <2>2. ProcsKnown'
    BY <1>4, <2>1, GotoTypes DEF Publish, Stages
  <2>3. TextsKnown' /\ SetsKnown'
    BY <1>4, <2>1, SameKnown DEF Publish, counters, stateDir, TextsKnown, SetsKnown
  <2> QED BY <2>2, <2>3
<1>5. ASSUME SaveRecord(p) PROVE Types'
  <2>1. edits' = edits /\ proc[p].file \in Files /\ proc[p].text \in KnownText
    BY <1>5, ProcKnown DEF SaveRecord, counters
  <2>2. ProcsKnown'
    BY <1>5, <2>1, NextFileTypes DEF SaveRecord
  <2>3. TextsKnown' /\ SetsKnown'
    BY <1>5, <2>1, SameKnown DEF SaveRecord, counters, TextsKnown, SetsKnown
  <2> QED BY <2>2, <2>3
<1>6. ASSUME Refuse(p) \/ EndCompile(p) PROVE Types'
  <2>1. edits' = edits /\ ProcsKnown'
    BY <1>6, ReturnTypes DEF Refuse, EndCompile, counters
  <2>2. TextsKnown' /\ SetsKnown'
    BY <1>6, <2>1, SameKnown DEF Refuse, EndCompile, counters, stateDir, history, TextsKnown, SetsKnown
  <2> QED BY <2>1, <2>2
<1> QED BY <1>1, <1>2, <1>3, <1>4, <1>5, <1>6 DEF Compile

\* So do the ends of a command that fails.
LEMMA EndTypes ==
  ASSUME Types, NEW p \in Procs, Raise(p) \/ Stop(p)
  PROVE  Types'
<1> USE DEF Types
<1>1. edits' = edits /\ Return(p)
  BY DEF Raise, Stop, counters
<1>2. ProcsKnown'
  BY <1>1, ReturnTypes
<1>3. TextsKnown' /\ SetsKnown'
  <2>1. /\ UNCHANGED <<tree, stateDir, shredding, history>>
        /\ proc' = [proc EXCEPT ![p] = Idle]
    BY <1>1 DEF Raise, Stop, Return
  <2> QED BY <1>1, <2>1, SameKnown DEF stateDir, history, TextsKnown, SetsKnown, Idle
<1> QED BY <1>2, <1>3

\* So do a shred and the user.
LEMMA OtherTypes ==
  ASSUME Types, \/ StartShred \/ ShredState \/ ShredSources \/ ShredDies
                \/ \E f \in Files : EditTree(f) \/ DeleteFromTree(f)
                \/ \E s \in Scripts : EditScript(s)
  PROVE  Types'
<1> USE TracelessAssumption DEF Types
<1>1. ASSUME StartShred \/ ShredState \/ ShredSources \/ ShredDies PROVE Types'
  <2>1. edits' = edits /\ proc' = proc
    BY <1>1 DEF StartShred, ShredState, ShredSources, ShredDies, counters
  <2>2. ProcsKnown'
    BY <2>1, SameKnown DEF ProcsKnown, ProcStates
  <2>3. TextsKnown'
    BY <1>1, <2>1, SameKnown
    DEF StartShred, ShredState, ShredSources, ShredDies, stateDir, history, TextsKnown, KnownText
  <2>4. SetsKnown'
    BY <1>1, <2>1 DEF StartShred, ShredState, ShredSources, ShredDies, stateDir, history, SetsKnown
  <2> QED BY <2>2, <2>3, <2>4
<1>2. ASSUME edits < MaxEdits, edits' = edits + 1, proc' = proc
      PROVE  /\ Fresh \in Known' /\ Known \subseteq Known' /\ KnownText \subseteq KnownText'
             /\ edits' \in 0..MaxEdits /\ ProcsKnown'
  <2>1. Len(Order) \in Nat /\ edits \in Nat /\ MaxEdits \in Nat
    BY DEF TextsKnown
  <2>2. Fresh \in Known' /\ Known \subseteq Known' /\ edits' \in 0..MaxEdits
    BY <1>2, <2>1 DEF Fresh, Known
  <2>3. KnownText \subseteq KnownText'
    BY <2>2 DEF KnownText
  <2>4. ProcStates \subseteq ProcStates'
    BY <2>3 DEF ProcStates
  <2> QED BY <1>2, <2>2, <2>3, <2>4 DEF ProcsKnown
<1>3. ASSUME NEW f \in Files, EditTree(f) PROVE Types'
  <2>1. PICK layout \in {"tool", "hand", "bare"} : tree' = [tree EXCEPT ![f] = [rev |-> Fresh, layout |-> layout]]
    BY <1>3 DEF EditTree
  <2>2. /\ Fresh \in Known' /\ Known \subseteq Known' /\ KnownText \subseteq KnownText'
        /\ edits' \in 0..MaxEdits /\ ProcsKnown'
    BY <1>2, <1>3 DEF EditTree
  <2>3. [rev |-> Fresh, layout |-> layout] \in KnownText'
    BY <2>2 DEF KnownText
  <2>4. TextsKnown'
    BY <1>3, <2>1, <2>2, <2>3 DEF EditTree, stateDir, TextsKnown
  <2>5. SetsKnown'
    BY <1>3 DEF EditTree, stateDir, SetsKnown
  <2> QED BY <2>2, <2>4, <2>5
<1>4. ASSUME NEW f \in Files, DeleteFromTree(f) PROVE Types'
  <2>1. /\ Known \subseteq Known' /\ KnownText \subseteq KnownText' /\ None \in KnownText'
        /\ edits' \in 0..MaxEdits /\ ProcsKnown'
    BY <1>2, <1>4 DEF DeleteFromTree, KnownText
  <2>2. TextsKnown'
    BY <1>4, <2>1 DEF DeleteFromTree, stateDir, TextsKnown
  <2>3. SetsKnown'
    BY <1>4 DEF DeleteFromTree, stateDir, SetsKnown
  <2> QED BY <2>1, <2>2, <2>3
<1>5. ASSUME NEW s \in Scripts, EditScript(s) PROVE Types'
  <2>1. /\ Fresh \in Known' /\ Known \subseteq Known' /\ KnownText \subseteq KnownText'
        /\ edits' \in 0..MaxEdits /\ ProcsKnown'
    BY <1>2, <1>5 DEF EditScript
  <2>2. TextsKnown'
    BY <1>5, <2>1 DEF EditScript, TextsKnown
  <2>3. SetsKnown'
    BY <1>5 DEF EditScript, SetsKnown
  <2> QED BY <2>1, <2>2, <2>3
<1> QED BY <1>1, <1>3, <1>4, <1>5

LEMMA TypesStep == Types /\ [TracelessNext]_tracelessVars => Types'
<1> SUFFICES ASSUME Types, [TracelessNext]_tracelessVars PROVE Types'
  OBVIOUS
<1>1. CASE TracelessNext
  BY <1>1, AdoptTypes, CompileTypes, EndTypes, OtherTypes DEF TracelessNext
<1>2. CASE UNCHANGED tracelessVars
  BY <1>2, SameKnown DEF tracelessVars, stateDir, counters, history, Types, TextsKnown, ProcsKnown,
                         SetsKnown, ProcStates
<1> QED BY <1>1, <1>2

\* The files, the state directory and the processes keep their types, and
\* nothing names a revision that does not exist (traceless_cmds.py).
THEOREM TracelessTypes == TracelessSpec => []TracelessTypeOK
<1>1. TracelessSpec => []Types
  BY TypesInit, TypesStep, PTL DEF TracelessSpec
<1> QED BY <1>1, TypesImplyTypeOK, PTL

----
(* The steps of a process *)

\* Where a process goes in each step.
LEMMA StepOfProcess ==
  ASSUME Types, NEW p \in Procs
  PROVE  /\ (\E f \in Files : StartAdopt(p, f)) => proc'[p].at = "extract"
         /\ Extract(p) => proc'[p].at = "rewrite"
         /\ WriteUncompiled(p) => proc'[p].at = "register"
         /\ Register(p) => proc'[p].at = "recompile"
         /\ (\E force \in BOOLEAN : StartCompile(p, force)) \/ NextFile(p) => proc'[p].at = "render"
         /\ Return(p) => proc'[p].at = "idle"
         /\ \A f \in Files : RenderNext(p, f) =>
              proc'[p].at = "lock" /\ proc'[p].file = f /\ proc'[p].text = Rendered(f)
         /\ UpToDate(p) /\ ~ NextFile(p) =>
              proc'[p].at = "record" /\ proc'[p].file = proc[p].file /\ proc'[p].text = proc[p].text
         /\ Accept(p) =>
              proc'[p].at = "publish" /\ proc'[p].file = proc[p].file /\ proc'[p].text = proc[p].text
         /\ Publish(p) =>
              proc'[p].at = "record" /\ proc'[p].file = proc[p].file /\ proc'[p].text = proc[p].text
<1>1. proc \in [Procs -> ProcStates] /\ proc[p] \in ProcStates
  BY DEF Types, ProcsKnown
<1>2. (\E f \in Files : StartAdopt(p, f)) => proc'[p].at = "extract"
  BY <1>1 DEF StartAdopt, Idle
<1>3. Extract(p) => proc'[p].at = "rewrite"
  BY <1>1 DEF Extract, ProcStates
<1>4. /\ WriteUncompiled(p) => proc'[p].at = "register"
      /\ Register(p) => proc'[p].at = "recompile"
  BY <1>1 DEF WriteUncompiled, Register, Goto, ProcStates
<1>5. (\E force \in BOOLEAN : StartCompile(p, force)) => proc'[p].at = "render"
  BY <1>1 DEF StartCompile, Idle
<1>6. NextFile(p) => proc'[p].at = "render"
  BY <1>1 DEF NextFile, Idle
<1>7. Return(p) => proc'[p].at = "idle"
  BY <1>1 DEF Return, Idle
<1>8. \A f \in Files : RenderNext(p, f) =>
        proc'[p].at = "lock" /\ proc'[p].file = f /\ proc'[p].text = Rendered(f)
  BY <1>1 DEF RenderNext, ProcStates
<1>9. UpToDate(p) /\ ~ NextFile(p) =>
        proc'[p].at = "record" /\ proc'[p].file = proc[p].file /\ proc'[p].text = proc[p].text
  BY <1>1 DEF UpToDate, ProcStates
<1>10. Accept(p) =>
         proc'[p].at = "publish" /\ proc'[p].file = proc[p].file /\ proc'[p].text = proc[p].text
  BY <1>1 DEF Accept, ProcStates
<1>11. Publish(p) =>
         proc'[p].at = "record" /\ proc'[p].file = proc[p].file /\ proc'[p].text = proc[p].text
  BY <1>1 DEF Publish, Goto, ProcStates
<1> QED BY <1>2, <1>3, <1>4, <1>5, <1>6, <1>7, <1>8, <1>9, <1>10, <1>11

\* No step of a process moves another one.
LEMMA OthersStay ==
  ASSUME Types, NEW p \in Procs,
         \/ Adopt(p) \/ (\E f \in Files : StartAdopt(p, f))
         \/ Compile(p) \/ (\E force \in BOOLEAN : StartCompile(p, force))
         \/ Raise(p) \/ Stop(p)
  PROVE  \A q \in Procs \ {p} : proc'[q] = proc[q]
<1>1. proc \in [Procs -> ProcStates]
  BY DEF Types, ProcsKnown
<1> SUFFICES \E r : proc' = [proc EXCEPT ![p] = r]
  BY <1>1
<1>2. (\E step : Goto(p, step)) \/ Return(p) \/ NextFile(p) => \E r : proc' = [proc EXCEPT ![p] = r]
  BY DEF Goto, Return, NextFile
<1>3. Adopt(p) \/ (\E f \in Files : StartAdopt(p, f)) => \E r : proc' = [proc EXCEPT ![p] = r]
  BY <1>2 DEF Adopt, StartAdopt, Extract, WriteUncompiled, Register, ReportRoundTrip
<1>4. (\E force \in BOOLEAN : StartCompile(p, force)) \/ (\E f \in Files : RenderNext(p, f))
      \/ UpToDate(p) \/ Accept(p) => \E r : proc' = [proc EXCEPT ![p] = r]
  BY <1>2 DEF StartCompile, RenderNext, UpToDate, Accept
<1>5. Refuse(p) \/ Publish(p) \/ SaveRecord(p) \/ EndCompile(p) \/ Raise(p) \/ Stop(p)
      => \E r : proc' = [proc EXCEPT ![p] = r]
  BY <1>2 DEF Refuse, Publish, SaveRecord, EndCompile, Raise, Stop
<1> QED BY <1>3, <1>4, <1>5 DEF Compile

----
(* The edits of the user *)

\* A text of the user that is not captured is there; the record holds it only
\* if an adopt recorded it unread; and a compile that is to replace the text it
\* has seen, without --force, has seen no such text but an unread one.
ManualThere == \A f \in manual : tree[f] # None
RecordedIsSeen == \A f \in manual : hashes[f] = tree[f] => f \in blind
PublishSeen == \A p \in Procs :
  LET f == proc[p].file IN
  proc[p].at = "publish" /\ ~ proc[p].force /\ tree[f] = proc[p].seen /\ f \in manual => f \in blind

EditsInv == Types /\ ManualThere /\ RecordedIsSeen /\ PublishSeen

LEMMA EditsInit == TracelessInit => EditsInv
<1> SUFFICES ASSUME TracelessInit PROVE EditsInv
  OBVIOUS
<1>1. Types
  BY TypesInit
<1>2. ASSUME NEW f \in Files PROVE tree[f] # None /\ hashes[f] = None
  <2>1. tree[f] \in [rev : {First(f)}, layout : {"bare", "hand"}] /\ hashes[f] = None /\ edits = 0
    BY DEF TracelessInit
  <2>2. First(f) \in Revs
    <3>1. \E i \in 1..Len(Order) : Order[i] = f
      BY DEF Files, ToSet
    <3>2. Len(Order) \in Nat /\ MaxEdits \in Nat
      BY TracelessAssumption
    <3> QED BY <3>1, <3>2 DEF First, Revs
  <2>3. tree[f] \in Text
    BY <2>1, <2>2 DEF Text
  <2> QED BY <2>1, <2>3, TracelessAssumption
<1>3. manual = Files /\ \A p \in Procs : proc[p].at = "idle"
  BY DEF TracelessInit, Idle
<1> QED BY <1>1, <1>2, <1>3 DEF EditsInv, ManualThere, RecordedIsSeen, PublishSeen

\* A process that is not about to publish, and that captures texts or records
\* what is not the text of the user, or records it unread, keeps the invariant.
LEMMA EditsKept ==
  ASSUME EditsInv, NEW p \in Procs,
         \A q \in Procs \ {p} : proc'[q] = proc[q],
         proc'[p].at # "publish",
         manual' \subseteq manual, manual' \cap blind \subseteq blind',
         \A f \in manual' : /\ tree'[f] = tree[f]
                            /\ hashes'[f] = hashes[f] \/ hashes'[f] # tree[f] \/ f \in blind'
  PROVE  ManualThere' /\ RecordedIsSeen' /\ PublishSeen'
<1>1. ManualThere' /\ RecordedIsSeen'
  BY DEF EditsInv, ManualThere, RecordedIsSeen
<1>2. ASSUME NEW q \in Procs, proc'[q].at = "publish", ~ proc'[q].force,
             tree'[proc'[q].file] = proc'[q].seen, proc'[q].file \in manual'
      PROVE  proc'[q].file \in blind'
  <2>1. proc'[q] = proc[q]
    BY <1>2
  <2>2. tree[proc[q].file] = proc[q].seen /\ proc[q].file \in manual
    BY <1>2, <2>1
  <2> QED BY <1>2, <2>1, <2>2 DEF EditsInv, PublishSeen
<1> QED BY <1>1, <1>2 DEF PublishSeen

\* A step of an adopt, and the steps of a compile after which it is not about
\* to publish.
LEMMA EditsProcess ==
  ASSUME EditsInv, NEW p \in Procs,
         \/ Adopt(p) \/ (\E f \in Files : StartAdopt(p, f) \/ RenderNext(p, f))
         \/ (\E force \in BOOLEAN : StartCompile(p, force))
         \/ UpToDate(p) \/ Refuse(p) \/ Publish(p) \/ SaveRecord(p) \/ EndCompile(p)
         \/ Raise(p) \/ Stop(p)
  PROVE  ManualThere' /\ RecordedIsSeen' /\ PublishSeen'
<1> USE DEF EditsInv, Types
<1>3. (\A q \in Procs \ {p} : proc'[q] = proc[q]) /\ proc'[p].at # "publish"
  BY OthersStay, StepOfProcess
  DEF Compile, Adopt, ReportRoundTrip, UpToDate, Refuse, SaveRecord, EndCompile, Raise, Stop
<1>4. CASE UNCHANGED <<tree, hashes, manual, blind>>
  BY <1>3, <1>4, EditsKept
<1>5. CASE Register(p)
  <2>1. proc[p].file \in Files /\ hashes \in [Files -> KnownText]
    BY <1>5, ProcKnown DEF Register, TextsKnown
  <2> QED BY <1>3, <1>5, <2>1, EditsKept DEF Register
<1>6. CASE UpToDate(p)
  BY <1>3, <1>6, EditsKept DEF UpToDate, stateDir
<1>7. CASE Publish(p)
  <2>1. proc[p].file \in Files /\ tree \in [Files -> KnownText] /\ manual \subseteq Files
    BY <1>7, ProcKnown DEF Publish, TextsKnown, SetsKnown
  <2> QED BY <1>3, <1>7, <2>1, EditsKept DEF Publish, stateDir
<1>8. CASE SaveRecord(p)
  <2>1. proc[p].file \in Files /\ hashes \in [Files -> KnownText] /\ manual \subseteq Files
    BY <1>8, ProcKnown DEF SaveRecord, TextsKnown, SetsKnown
  <2> QED BY <1>3, <1>8, <2>1, EditsKept DEF SaveRecord
<1> QED
  BY <1>4, <1>5, <1>6, <1>7, <1>8
  DEF Adopt, Extract, WriteUncompiled, ReportRoundTrip, StartAdopt, RenderNext, StartCompile,
      Refuse, EndCompile, Raise, Stop, stateDir, history

\* The check under the output lock: what is accepted without --force is not
\* there, or is what the record holds.
LEMMA EditsAccept ==
  ASSUME EditsInv, NEW p \in Procs, Accept(p)
  PROVE  ManualThere' /\ RecordedIsSeen' /\ PublishSeen'
<1>1. UNCHANGED <<tree, hashes, manual, blind>>
  BY DEF Accept, stateDir, history
<1>2. ManualThere' /\ RecordedIsSeen'
  BY <1>1 DEF EditsInv, ManualThere, RecordedIsSeen
<1>3. ASSUME NEW q \in Procs, proc'[q].at = "publish", ~ proc'[q].force,
             tree[proc'[q].file] = proc'[q].seen, proc'[q].file \in manual
      PROVE  proc'[q].file \in blind
  <2>1. proc \in [Procs -> ProcStates] /\ proc[p] \in ProcStates
    BY DEF EditsInv, Types, ProcsKnown
  <2>2. CASE q # p
    <3>1. proc'[q] = proc[q]
      BY <2>1, <2>2 DEF Accept
    <3> QED BY <1>3, <3>1 DEF EditsInv, PublishSeen
  <2>3. CASE q = p
    <3>1. proc'[p].file = proc[p].file /\ proc'[p].force = proc[p].force
      BY <2>1 DEF Accept, ProcStates
    <3>2. tree[proc[p].file] # None
      BY <1>3, <2>3, <3>1 DEF EditsInv, ManualThere
    <3>3. hashes[proc[p].file] = tree[proc[p].file]
      BY <1>3, <2>3, <3>1, <3>2 DEF Accept, Vouches
    <3> QED BY <1>3, <2>3, <3>1, <3>3 DEF EditsInv, RecordedIsSeen
  <2> QED BY <2>2, <2>3
<1> QED BY <1>1, <1>2, <1>3 DEF PublishSeen

\* A new text of the user is one that no record and no process holds; a shred
\* forgets the records while nothing runs.
LEMMA EditsOther ==
  ASSUME EditsInv, \/ StartShred \/ ShredState \/ ShredSources \/ ShredDies
                   \/ \E f \in Files : EditTree(f) \/ DeleteFromTree(f)
                   \/ \E s \in Scripts : EditScript(s)
  PROVE  ManualThere' /\ RecordedIsSeen' /\ PublishSeen'
<1> USE TracelessAssumption DEF EditsInv, Types
<1>1. CASE UNCHANGED <<tree, hashes, proc, manual, blind>>
  BY <1>1 DEF ManualThere, RecordedIsSeen, PublishSeen
<1>2. CASE ShredState
  <2>1. proc' = proc /\ tree' = tree /\ \A p \in Procs : proc[p].at = "idle"
    BY <1>2 DEF ShredState, SetsKnown
  <2> QED BY <1>2, <2>1 DEF ShredState, ManualThere, RecordedIsSeen, PublishSeen
<1>3. ASSUME NEW f \in Files, EditTree(f) PROVE ManualThere' /\ RecordedIsSeen' /\ PublishSeen'
  <2>1. PICK layout \in {"tool", "hand", "bare"} : tree' = [tree EXCEPT ![f] = [rev |-> Fresh, layout |-> layout]]
    BY <1>3 DEF EditTree
  <2> DEFINE new == [rev |-> Fresh, layout |-> layout]
  <2>2. new \notin KnownText
    <3>1. Len(Order) \in Nat /\ edits \in Nat /\ MaxEdits \in Nat /\ edits < MaxEdits
      BY <1>3 DEF TextsKnown, EditTree
    <3>2. Fresh \in Revs /\ Fresh \notin Known
      BY <3>1 DEF Fresh, Revs, Known
    <3>3. new \in Text
      BY <3>2 DEF Text
    <3> QED BY <3>2, <3>3 DEF KnownText
  <2>3. new # None /\ tree'[f] = new /\ \A g \in Files \ {f} : tree'[g] = tree[g]
    BY <2>1, <2>2 DEF KnownText, TextsKnown
  <2>4. hashes' = hashes /\ proc' = proc /\ manual' = manual \cup {f} /\ blind' = blind \ {f}
        /\ manual \subseteq Files
    BY <1>3 DEF EditTree, stateDir, SetsKnown
  <2>5. ManualThere'
    BY <2>3, <2>4 DEF ManualThere
  <2>6. RecordedIsSeen'
    <3>1. hashes[f] # new
      BY <2>2 DEF TextsKnown
    <3> QED BY <2>3, <2>4, <3>1 DEF RecordedIsSeen
  <2>7. ASSUME NEW p \in Procs, proc[p].at = "publish", ~ proc[p].force,
               tree'[proc[p].file] = proc[p].seen, proc[p].file \in manual'
        PROVE  proc[p].file \in blind'
    <3>1. proc[p].seen \in KnownText
      BY ProcKnown
    <3>2. proc[p].file # f
      BY <2>2, <2>3, <2>7, <3>1
    <3> QED BY <2>3, <2>4, <2>7, <3>2 DEF PublishSeen
  <2> QED BY <2>4, <2>5, <2>6, <2>7 DEF PublishSeen
<1>4. ASSUME NEW f \in Files, DeleteFromTree(f) PROVE ManualThere' /\ RecordedIsSeen' /\ PublishSeen'
  <2>1. /\ hashes' = hashes /\ proc' = proc /\ manual' = manual \ {f} /\ blind' = blind \ {f}
        /\ \A g \in manual' : tree'[g] = tree[g]
    BY <1>4 DEF DeleteFromTree, stateDir, SetsKnown, TextsKnown
  <2> QED BY <2>1 DEF ManualThere, RecordedIsSeen, PublishSeen
<1> QED
  BY <1>1, <1>2, <1>3, <1>4
  DEF StartShred, ShredSources, ShredDies, EditScript, stateDir, history

LEMMA EditsStep == EditsInv /\ [TracelessNext]_tracelessVars => EditsInv'
<1> SUFFICES ASSUME EditsInv, [TracelessNext]_tracelessVars
             PROVE  ManualThere' /\ RecordedIsSeen' /\ PublishSeen'
  BY TypesStep DEF EditsInv
<1>1. CASE TracelessNext
  BY <1>1, EditsProcess, EditsAccept, EditsOther DEF TracelessNext, Compile
<1>2. CASE UNCHANGED tracelessVars
  BY <1>2 DEF tracelessVars, stateDir, history, EditsInv, ManualThere, RecordedIsSeen, PublishSeen
<1> QED BY <1>1, <1>2

\* compile without --force never replaces a text of the user that was there at
\* its check under the output lock, unless an adopt had recorded that text
\* without reading it (write_compiled_file_no_sidecar).
THEOREM TracelessManualEditsSurvive == TracelessSpec => TracelessEditsSurvive
<1>1. TracelessSpec => []EditsInv
  BY EditsInit, EditsStep, PTL DEF TracelessSpec
<1>2. EditsInv /\ [TracelessNext]_tracelessVars
      => [\A p \in Procs :
            LET f == proc[p].file IN
            Publish(p) /\ ~ proc[p].force /\ f \in manual
            => tree[f] # proc[p].seen \/ f \in blind]_tracelessVars
  BY DEF EditsInv, PublishSeen, Publish
<1> QED BY <1>1, <1>2, PTL DEF TracelessSpec, TracelessEditsSurvive

----
(* What is registered can be compiled *)

\* An adopt of a text with a script registers the file only when its script and
\* its uncompiled YAML are there, and a shred that has removed the sources and
\* goes on takes the records too.
ExtractedThere == \A p \in Procs :
  LET f == proc[p].file IN
  HasScript(proc[p].text) =>
    /\ proc[p].at \in {"rewrite", "register"} => sources[Script(f)] # None
    /\ proc[p].at = "register" => f \in yaml
ShredOrder == shredding # {} /\ "state" \notin shredding => scripted = {}

RenderableInv == Types /\ ExtractedThere /\ ShredOrder /\ AdoptedIsRenderable

LEMMA RenderableInit == TracelessInit => RenderableInv
<1> SUFFICES ASSUME TracelessInit PROVE RenderableInv
  OBVIOUS
<1>1. Types
  BY TypesInit
<1> QED
  BY <1>1 DEF TracelessInit, Idle, RenderableInv, ExtractedThere, ShredOrder, AdoptedIsRenderable

\* A step that removes no source and no record, and adds only renderable files to
\* those registered with a script, keeps the invariant, if its process has
\* extracted what it goes on with.
LEMMA RenderableKept ==
  ASSUME RenderableInv, NEW p \in Procs,
         \A q \in Procs \ {p} : proc'[q] = proc[q],
         LET f == proc'[p].file IN
         HasScript(proc'[p].text) =>
           /\ proc'[p].at \in {"rewrite", "register"} => sources'[Script(f)] # None
           /\ proc'[p].at = "register" => f \in yaml',
         \A s \in Scripts : sources[s] # None => sources'[s] # None,
         yaml \subseteq yaml', shredding' = shredding,
         adopted \subseteq adopted',
         \/ UNCHANGED <<scripted, damaged>>
         \/ /\ shredding = {}
            /\ \E f : /\ scripted' = scripted \cup {f} /\ damaged \subseteq damaged' \cup {f}
                      /\ f \in adopted' /\ f \in yaml' /\ sources'[Script(f)] # None
  PROVE  ExtractedThere' /\ ShredOrder' /\ AdoptedIsRenderable'
<1> USE DEF RenderableInv
<1>1. ASSUME NEW q \in Procs, q # p
      PROVE  LET f == proc'[q].file IN
             HasScript(proc'[q].text) =>
               /\ proc'[q].at \in {"rewrite", "register"} => sources'[Script(f)] # None
               /\ proc'[q].at = "register" => f \in yaml'
  <2>1. proc'[q] = proc[q]
    BY <1>1
  <2>2. proc[q].at \in {"rewrite", "register"} => Script(proc[q].file) \in Scripts
    BY ProcKnown DEF Types, Scripts
  <2> QED BY <2>1, <2>2 DEF ExtractedThere
<1>2. ExtractedThere'
  BY <1>1 DEF ExtractedThere
<1>3. ShredOrder' /\ AdoptedIsRenderable'
  <2>1. \A f \in scripted : Script(f) \in Scripts
    BY DEF Types, SetsKnown, Scripts
  <2> QED BY <2>1 DEF ShredOrder, AdoptedIsRenderable, Renderable
<1> QED BY <1>2, <1>3

\* The steps of adopt.
LEMMA RenderableAdopt ==
  ASSUME RenderableInv, NEW p \in Procs, Adopt(p) \/ \E f \in Files : StartAdopt(p, f)
  PROVE  ExtractedThere' /\ ShredOrder' /\ AdoptedIsRenderable'
<1> USE DEF RenderableInv, Types
<1>1. proc \in [Procs -> ProcStates] /\ proc[p] \in ProcStates
  BY DEF ProcsKnown
<1>2. proc[p].at # "idle" => shredding = {}
  BY DEF SetsKnown
<1>3. ASSUME NEW f \in Files, StartAdopt(p, f)
      PROVE  ExtractedThere' /\ ShredOrder' /\ AdoptedIsRenderable'
  <2>1. proc'[p].at = "extract" /\ \A q \in Procs \ {p} : proc'[q] = proc[q]
    BY <1>1, <1>3 DEF StartAdopt, Idle
  <2>2. UNCHANGED <<sources, yaml, adopted, scripted, damaged, shredding>>
    BY <1>3 DEF StartAdopt, stateDir, history
  <2> QED BY <2>1, <2>2, RenderableKept
<1>4. CASE Extract(p)
  <2>1. proc[p].file \in Files /\ tree[proc[p].file] # None /\ tree \in [Files -> KnownText]
    BY <1>4, ProcKnown DEF Extract, TextsKnown
  <2>2. tree[proc[p].file].rev # None
    <3>1. tree[proc[p].file].rev \in Known
      BY <2>1 DEF KnownText
    <3>2. Known \subseteq Revs
      BY TracelessAssumption DEF Known, Revs, TextsKnown
    <3> QED BY <3>1, <3>2, TracelessAssumption
  <2>3. /\ sources' = IF HasScript(tree[proc[p].file])
                     THEN [sources EXCEPT ![Script(proc[p].file)] = tree[proc[p].file].rev]
                     ELSE sources
        /\ sources \in [Scripts -> Known \cup {None}] /\ Script(proc[p].file) \in Scripts
    BY <1>4, <2>1 DEF Extract, TextsKnown, Scripts
  <2>4. HasScript(tree[proc[p].file]) => sources'[Script(proc[p].file)] # None
    BY <2>2, <2>3
  <2>5. \A s \in Scripts : sources[s] # None => sources'[s] # None
    BY <2>2, <2>3
  <2>6. /\ proc'[p].at = "rewrite" /\ proc'[p].file = proc[p].file
        /\ proc'[p].text = tree[proc[p].file]
        /\ \A q \in Procs \ {p} : proc'[q] = proc[q]
    BY <1>1, <1>4 DEF Extract, ProcStates
  <2>7. UNCHANGED <<yaml, adopted, scripted, damaged, shredding>>
    BY <1>4 DEF Extract, history
  <2> QED BY <2>4, <2>5, <2>6, <2>7, RenderableKept
<1>5. CASE WriteUncompiled(p)
  <2>1. HasScript(proc[p].text) => sources[Script(proc[p].file)] # None
    BY <1>5 DEF WriteUncompiled, ExtractedThere
  <2>2. /\ proc'[p].at = "register" /\ proc'[p].file = proc[p].file
        /\ proc'[p].text = proc[p].text
        /\ \A q \in Procs \ {p} : proc'[q] = proc[q]
    BY <1>1, <1>5 DEF WriteUncompiled, Goto, ProcStates
  <2>3. /\ yaml \subseteq yaml' /\ (HasScript(proc[p].text) => proc[p].file \in yaml')
        /\ UNCHANGED <<sources, adopted, scripted, damaged, shredding>>
    BY <1>5 DEF WriteUncompiled, history
  <2> QED BY <2>1, <2>2, <2>3, RenderableKept
<1>6. CASE Register(p)
  <2>1. HasScript(proc[p].text) => sources[Script(proc[p].file)] # None /\ proc[p].file \in yaml
    BY <1>6 DEF Register, ExtractedThere
  <2>2. proc'[p].at = "recompile" /\ \A q \in Procs \ {p} : proc'[q] = proc[q]
    BY <1>1, <1>6 DEF Register, Goto, ProcStates
  <2>3. /\ adopted' = adopted \cup {proc[p].file}
        /\ shredding = {} /\ UNCHANGED <<sources, yaml, shredding>>
    BY <1>2, <1>6 DEF Register
  <2>4. /\ HasScript(proc[p].text) =>
             /\ scripted' = scripted \cup {proc[p].file}
             /\ damaged' = damaged \ {proc[p].file}
        /\ ~ HasScript(proc[p].text) => UNCHANGED <<scripted, damaged>>
    BY <1>6 DEF Register
  <2>5. CASE HasScript(proc[p].text)
    BY <2>1, <2>2, <2>3, <2>4, <2>5, RenderableKept
  <2>6. CASE ~ HasScript(proc[p].text)
    BY <2>2, <2>3, <2>4, <2>6, RenderableKept
  <2> QED BY <2>5, <2>6
<1>7. CASE ReportRoundTrip(p)
  <2>1. /\ adopted' = adopted \cup {proc[p].file}
        /\ UNCHANGED <<sources, yaml, scripted, damaged, shredding>>
    BY <1>7 DEF ReportRoundTrip, history
  <2>2. proc'[p].at = "idle" /\ \A q \in Procs \ {p} : proc'[q] = proc[q]
    BY <1>1, <1>7 DEF ReportRoundTrip, Return, Idle
  <2> QED BY <2>1, <2>2, RenderableKept
<1> QED BY <1>3, <1>4, <1>5, <1>6, <1>7 DEF Adopt

\* compile and the ends of a command do not touch sources and source records.
LEMMA RenderableCompile ==
  ASSUME RenderableInv, NEW p \in Procs,
         \/ Compile(p) \/ (\E force \in BOOLEAN : StartCompile(p, force)) \/ Raise(p) \/ Stop(p)
  PROVE  ExtractedThere' /\ ShredOrder' /\ AdoptedIsRenderable'
<1> USE DEF RenderableInv, Types
<1>2. UNCHANGED <<sources, yaml, adopted, scripted, damaged, shredding>>
  BY DEF Compile, StartCompile, RenderNext, UpToDate, Accept, Refuse, Publish, SaveRecord, EndCompile,
         Raise, Stop, stateDir, history
<1>3. (\A q \in Procs \ {p} : proc'[q] = proc[q]) /\ proc'[p].at \notin {"rewrite", "register"}
  BY OthersStay, StepOfProcess DEF Compile, Refuse, SaveRecord, EndCompile, Raise, Stop
<1> QED BY <1>2, <1>3, RenderableKept

\* A shred works while nothing runs; the user removes no extracted script.
LEMMA RenderableOther ==
  ASSUME RenderableInv, \/ StartShred \/ ShredState \/ ShredSources \/ ShredDies
                        \/ \E f \in Files : EditTree(f) \/ DeleteFromTree(f)
                        \/ \E s \in Scripts : EditScript(s)
  PROVE  ExtractedThere' /\ ShredOrder' /\ AdoptedIsRenderable'
<1> USE DEF RenderableInv, Types
<1>1. CASE StartShred \/ ShredState \/ ShredSources \/ ShredDies
  <2>1. shredding # {} \/ StartShred => \A p \in Procs : proc[p].at = "idle"
    BY DEF StartShred, SetsKnown
  <2>2. proc' = proc /\ \A p \in Procs : proc[p].at = "idle"
    BY <1>1, <2>1 DEF StartShred, ShredState, ShredSources, ShredDies
  <2>3. ExtractedThere'
    BY <2>2 DEF ExtractedThere
  <2>4. ShredOrder'
    BY <1>1 DEF StartShred, ShredState, ShredSources, ShredDies, stateDir, history, ShredOrder
  <2>5. AdoptedIsRenderable'
    <3>1. CASE StartShred
      BY <3>1 DEF StartShred, AdoptedIsRenderable
    <3>2. CASE ShredState
      BY <3>2 DEF ShredState, AdoptedIsRenderable
    <3>3. CASE ShredSources
      BY <3>3 DEF ShredSources, history, AdoptedIsRenderable, ShredOrder, SetsKnown
    <3>4. CASE ShredDies
      BY <3>4 DEF ShredDies, stateDir, AdoptedIsRenderable, SetsKnown
    <3> QED BY <1>1, <3>1, <3>2, <3>3, <3>4
  <2> QED BY <2>3, <2>4, <2>5
<1>2. ASSUME NEW f \in Files, EditTree(f) \/ DeleteFromTree(f)
      PROVE  ExtractedThere' /\ ShredOrder' /\ AdoptedIsRenderable'
  <2>1. UNCHANGED <<proc, sources, yaml, adopted, scripted, damaged, shredding>>
    BY <1>2 DEF EditTree, DeleteFromTree, stateDir
  <2> QED BY <2>1 DEF ExtractedThere, ShredOrder, AdoptedIsRenderable, Renderable
<1>3. ASSUME NEW s \in Scripts, EditScript(s)
      PROVE  ExtractedThere' /\ ShredOrder' /\ AdoptedIsRenderable'
  <2>1. /\ UNCHANGED <<proc, yaml, adopted, scripted, damaged, shredding>>
        /\ sources' = [sources EXCEPT ![s] = Fresh] /\ sources \in [Scripts -> Known \cup {None}]
    BY <1>3 DEF EditScript, TextsKnown
  <2>2. Fresh # None
    <3>1. Fresh \in Revs
      BY <1>3, TracelessAssumption DEF EditScript, Fresh, Revs, TextsKnown
    <3> QED BY <3>1, TracelessAssumption
  <2>3. \A t \in Scripts : sources[t] # None => sources'[t] # None
    BY <2>1, <2>2
  <2>4. \A f \in scripted : Script(f) \in Scripts
    BY DEF SetsKnown, Scripts
  <2>5. \A p \in Procs : proc[p].at \in {"rewrite", "register"} => Script(proc[p].file) \in Scripts
    BY ProcKnown DEF Scripts
  <2> QED BY <2>1, <2>3, <2>4, <2>5 DEF ExtractedThere, ShredOrder, AdoptedIsRenderable, Renderable
<1> QED BY <1>1, <1>2, <1>3

LEMMA RenderableStep == RenderableInv /\ [TracelessNext]_tracelessVars => RenderableInv'
<1> SUFFICES ASSUME RenderableInv, [TracelessNext]_tracelessVars
             PROVE  ExtractedThere' /\ ShredOrder' /\ AdoptedIsRenderable'
  BY TypesStep DEF RenderableInv
<1>1. CASE TracelessNext
  BY <1>1, RenderableAdopt, RenderableCompile, RenderableOther DEF TracelessNext
<1>2. CASE UNCHANGED tracelessVars
  BY <1>2 DEF tracelessVars, stateDir, history, RenderableInv, ExtractedThere, ShredOrder,
              AdoptedIsRenderable, Renderable
<1> QED BY <1>1, <1>2

\* A file that was once registered with a script has its uncompiled YAML and its
\* script, wherever an adopt was interrupted and whatever text was adopted after,
\* unless a shred died half-way and no adopt of a script has repaired the file
\* since (run_traceless_adopt, _compile_state_source).
THEOREM AdoptedStaysRenderable == TracelessSpec => []AdoptedIsRenderable
<1>1. RenderableInv => AdoptedIsRenderable
  BY DEF RenderableInv
<1> QED BY RenderableInit, RenderableStep, <1>1, PTL DEF TracelessSpec

----
(* The scripts of a file *)

\* No two files of one folder have jobs of one name.
DistinctScripts == \A f, g \in Files : Script(f) = Script(g) => f = g

\* What a file, its script and a compile of it hold are revisions of the file.
OwnTexts == \A f \in Files : /\ tree[f] # None => tree[f].rev \in own[f]
                             /\ sources[Script(f)] # None => sources[Script(f)] \in own[f]
OwnRendered == \A p \in Procs :
  proc[p].at \in {"lock", "publish", "record"} =>
    proc[p].text # None /\ proc[p].text.rev \in own[proc[p].file]

OwnInv == Types /\ OwnTexts /\ OwnRendered

LEMMA OwnInit == TracelessInit => OwnInv
<1> SUFFICES ASSUME TracelessInit PROVE OwnInv
  OBVIOUS
<1>1. Types
  BY TypesInit
<1>2. OwnRendered
  BY DEF TracelessInit, Idle, OwnRendered
<1>3. OwnTexts
  BY DEF TracelessInit, OwnTexts, Scripts
<1> QED BY <1>1, <1>2, <1>3 DEF OwnInv

\* Revisions are only added to those of a file: the processes and the files
\* that a step leaves alone stay explained.
LEMMA OwnKept ==
  ASSUME OwnInv, NEW p \in Procs,
         \A q \in Procs \ {p} : proc'[q] = proc[q],
         proc'[p].at \in {"lock", "publish", "record"} =>
           proc'[p].text # None /\ proc'[p].text.rev \in own[proc'[p].file],
         UNCHANGED <<sources, own>>,
         \A f \in Files : tree'[f] = tree[f] \/ tree'[f].rev \in own[f]
  PROVE  OwnTexts' /\ OwnRendered'
<1>1. OwnTexts'
  BY DEF OwnInv, OwnTexts
<1>2. ASSUME NEW q \in Procs, q # p, proc'[q].at \in {"lock", "publish", "record"}
      PROVE  proc'[q].text # None /\ proc'[q].text.rev \in own[proc'[q].file]
  <2>1. proc'[q] = proc[q]
    BY <1>2
  <2> QED BY <1>2, <2>1 DEF OwnInv, OwnRendered
<1> QED BY <1>1, <1>2 DEF OwnRendered

\* A step of a process: adopt takes the revision of the file, compile takes
\* that of its script and puts it into the file.
LEMMA OwnProcess ==
  ASSUME DistinctScripts, OwnInv, NEW p \in Procs,
         \/ Adopt(p) \/ (\E f \in Files : StartAdopt(p, f))
         \/ Compile(p) \/ (\E force \in BOOLEAN : StartCompile(p, force))
         \/ Raise(p) \/ Stop(p)
  PROVE  OwnTexts' /\ OwnRendered'
<1> USE DEF OwnInv
<1>1. \A q \in Procs \ {p} : proc'[q] = proc[q]
  BY OthersStay
<1>2. CASE Extract(p)
  <2> DEFINE f == proc[p].file
  <2>1. f \in Files /\ tree[f] # None /\ tree[f].rev \in own[f]
    BY <1>2, ProcKnown DEF Types, Extract, OwnTexts
  <2>2. UNCHANGED <<tree, own>> /\ proc'[p].at = "rewrite"
    BY <1>2, StepOfProcess DEF Extract, history
  <2>3. sources' \in {sources, [sources EXCEPT ![Script(f)] = tree[f].rev]}
        /\ sources \in [Scripts -> Known \cup {None}]
    BY <1>2 DEF Extract, Types, TextsKnown
  <2>4. ASSUME NEW g \in Files PROVE sources'[Script(g)] # None => sources'[Script(g)] \in own[g]
    <3>1. Script(g) \in Scripts /\ (g # f => Script(g) # Script(f))
      BY <2>1 DEF DistinctScripts, Scripts
    <3> QED BY <2>1, <2>3, <3>1 DEF OwnTexts
  <2>5. OwnTexts'
    BY <2>2, <2>4 DEF OwnTexts
  <2> QED BY <1>1, <2>2, <2>5 DEF OwnRendered
<1>3. ASSUME NEW f \in Files, RenderNext(p, f) PROVE OwnTexts' /\ OwnRendered'
  <2>1. UNCHANGED <<tree, sources, own>>
    BY <1>3 DEF RenderNext, stateDir, history
  <2>2. Rendered(f).rev \in own[f] /\ Rendered(f) # None
    <3>1. sources[Script(f)] # None
      BY <1>3 DEF RenderNext, Renderable
    <3>2. sources[Script(f)] \in own[f] /\ own[f] \subseteq Revs
      BY <3>1, TypesImplyTypeOK DEF OwnTexts, TracelessTypeOK
    <3>3. Rendered(f) \in Text
      BY <3>2 DEF Rendered, Text
    <3> QED BY <3>2, <3>3, TracelessAssumption DEF Rendered
  <2> QED BY <1>1, <1>3, <2>1, <2>2, StepOfProcess, OwnKept
<1>4. CASE UpToDate(p) \/ Accept(p)
  <2>1. UNCHANGED <<tree, sources, own>> /\ proc[p].at = "lock"
    BY <1>4 DEF UpToDate, Accept, stateDir, history
  <2>2. proc'[p].at \in {"lock", "publish", "record"} =>
          proc'[p].text # None /\ proc'[p].text.rev \in own[proc'[p].file]
    BY <1>4, <2>1, StepOfProcess DEF OwnRendered
  <2> QED BY <1>1, <2>1, <2>2, OwnKept
<1>5. CASE Publish(p)
  <2>1. /\ proc[p].file \in Files /\ tree \in [Files -> KnownText]
        /\ proc[p].text # None /\ proc[p].text.rev \in own[proc[p].file]
    BY <1>5, ProcKnown DEF Publish, Types, TextsKnown, OwnRendered
  <2>2. tree' = [tree EXCEPT ![proc[p].file] = proc[p].text] /\ UNCHANGED <<sources, own>>
    BY <1>5 DEF Publish, stateDir
  <2>3. \A f \in Files : tree'[f] = tree[f] \/ tree'[f].rev \in own[f]
    BY <2>1, <2>2
  <2>4. proc'[p].at = "record" /\ proc'[p].file = proc[p].file /\ proc'[p].text = proc[p].text
    BY <1>5, StepOfProcess
  <2> QED BY <1>1, <2>1, <2>2, <2>3, <2>4, OwnKept
<1>6. CASE \/ WriteUncompiled(p) \/ Register(p) \/ ReportRoundTrip(p)
           \/ (\E f \in Files : StartAdopt(p, f)) \/ (\E force \in BOOLEAN : StartCompile(p, force))
           \/ Refuse(p) \/ SaveRecord(p) \/ EndCompile(p) \/ Raise(p) \/ Stop(p)
  <2>1. UNCHANGED <<tree, sources, own>>
    BY <1>6 DEF WriteUncompiled, Register, ReportRoundTrip, StartAdopt, StartCompile, Refuse, SaveRecord,
                EndCompile, Raise, Stop, stateDir, history
  <2>2. proc'[p].at \notin {"lock", "publish", "record"}
    BY <1>6, StepOfProcess DEF ReportRoundTrip, Refuse, SaveRecord, EndCompile, Raise, Stop
  <2> QED BY <1>1, <2>1, <2>2, OwnKept
<1> QED BY <1>2, <1>3, <1>4, <1>5, <1>6 DEF Adopt, Compile

\* A shred only removes; what the user writes becomes the file's own.
LEMMA OwnOther ==
  ASSUME OwnInv, \/ StartShred \/ ShredState \/ ShredSources \/ ShredDies
                 \/ \E f \in Files : EditTree(f) \/ DeleteFromTree(f)
                 \/ \E s \in Scripts : EditScript(s)
  PROVE  OwnTexts' /\ OwnRendered'
<1> USE DEF OwnInv, Types
<1>1. CASE StartShred \/ ShredState \/ ShredSources \/ ShredDies
  <2>1. /\ UNCHANGED <<tree, own, proc>>
        /\ sources' = sources \/ sources' = [s \in Scripts |-> None]
    BY <1>1 DEF StartShred, ShredState, ShredSources, ShredDies, stateDir, history
  <2> QED BY <2>1 DEF OwnTexts, OwnRendered, Scripts
<1>2. ASSUME NEW f \in Files, EditTree(f) PROVE OwnTexts' /\ OwnRendered'
  <2>1. PICK layout \in {"tool", "hand", "bare"} : tree' = [tree EXCEPT ![f] = [rev |-> Fresh, layout |-> layout]]
    BY <1>2 DEF EditTree
  <2>2. /\ UNCHANGED <<sources, proc>> /\ own' = [own EXCEPT ![f] = @ \cup {Fresh}]
        /\ own \in [Files -> SUBSET Known] /\ tree \in [Files -> KnownText]
    BY <1>2 DEF EditTree, stateDir, TextsKnown
  <2>3. \A g \in Files : own[g] \subseteq own'[g] /\ (g = f => Fresh \in own'[g])
    BY <2>2
  <2>4. \A g \in Files : tree'[g] = tree[g] \/ (g = f /\ tree'[g].rev = Fresh)
    BY <2>1, <2>2
  <2>5. \A p \in Procs : proc[p].at \in {"lock", "publish", "record"} => proc[p].file \in Files
    BY ProcKnown
  <2> QED BY <2>2, <2>3, <2>4, <2>5 DEF OwnTexts, OwnRendered
<1>3. ASSUME NEW f \in Files, DeleteFromTree(f) PROVE OwnTexts' /\ OwnRendered'
  <2>1. /\ UNCHANGED <<sources, own, proc>>
        /\ \A g \in Files : tree'[g] = tree[g] \/ tree'[g] = None
    BY <1>3 DEF DeleteFromTree, stateDir, TextsKnown
  <2> QED BY <2>1 DEF OwnTexts, OwnRendered
<1>4. ASSUME NEW s \in Scripts, EditScript(s) PROVE OwnTexts' /\ OwnRendered'
  <2>1. /\ UNCHANGED <<tree, proc>> /\ sources' = [sources EXCEPT ![s] = Fresh]
        /\ sources \in [Scripts -> Known \cup {None}]
        /\ own' = [f \in Files |-> IF Script(f) = s THEN own[f] \cup {Fresh} ELSE own[f]]
    BY <1>4 DEF EditScript, TextsKnown
  <2>2. \A f \in Files : own[f] \subseteq own'[f] /\ (Script(f) = s => Fresh \in own'[f])
    BY <2>1
  <2>3. \A f \in Files : sources'[Script(f)] = IF Script(f) = s THEN Fresh ELSE sources[Script(f)]
    BY <2>1 DEF Scripts
  <2>4. \A p \in Procs : proc[p].at \in {"lock", "publish", "record"} => proc[p].file \in Files
    BY ProcKnown
  <2> QED BY <2>1, <2>2, <2>3, <2>4 DEF OwnTexts, OwnRendered
<1> QED BY <1>1, <1>2, <1>3, <1>4

LEMMA OwnStep == DistinctScripts /\ OwnInv /\ [TracelessNext]_tracelessVars => OwnInv'
<1> SUFFICES ASSUME DistinctScripts, OwnInv, [TracelessNext]_tracelessVars
             PROVE  OwnTexts' /\ OwnRendered'
  BY TypesStep DEF OwnInv
<1>1. CASE TracelessNext
  BY <1>1, OwnProcess, OwnOther DEF TracelessNext
<1>2. CASE UNCHANGED tracelessVars
  BY <1>2 DEF tracelessVars, stateDir, history, OwnInv, OwnTexts, OwnRendered
<1> QED BY <1>1, <1>2

\* Where no two files of a folder have jobs of one name, compile publishes for a
\* file only what was adopted from it or written into its script: the shared
\* name is the only way to another file's script (decompile_all.py).
THEOREM DistinctScriptsStayApart ==
  ASSUME DistinctScripts
  PROVE  TracelessSpec => PublishesOwnScript
<1>1. OwnInv /\ [TracelessNext]_tracelessVars => OwnInv'
  BY OwnStep
<1>2. TracelessSpec => []OwnInv
  BY <1>1, OwnInit, PTL DEF TracelessSpec
<1>3. OwnInv /\ [TracelessNext]_tracelessVars
      => [\A p \in Procs : Publish(p) => proc[p].text.rev \in own[proc[p].file]]_tracelessVars
  BY DEF OwnInv, OwnRendered, Publish
<1> QED BY <1>2, <1>3, PTL DEF TracelessSpec, PublishesOwnScript

----
(* Refusals *)

\* An adopt is alone; two processes do not publish to one file.
AdoptAlone == \A p, q \in Procs : Adopting(p) /\ q # p => proc[q].at = "idle"
Writing(p) == proc[p].at \in {"publish", "record"}
OneWriter == \A p, q \in Procs : Writing(p) /\ Writing(q) /\ q # p => proc[p].file # proc[q].file

\* A file that is there and not as recorded is the user's, or an interruption
\* has left it so; and so is one that is no longer as a compile left it.
Explained == manual \cup torn \cup damaged
RecordExplained == \A f \in Files : tree[f] # None /\ hashes[f] # tree[f] => f \in Explained
PendingExplained == \A p \in Procs :
  LET f == proc[p].file IN
  proc[p].at = "record" /\ tree[f] # None /\ tree[f] # proc[p].text => f \in Explained

RefusalInv == Types /\ AdoptAlone /\ OneWriter /\ RecordExplained /\ PendingExplained

LEMMA RefusalInit == TracelessInit => RefusalInv
<1> SUFFICES ASSUME TracelessInit PROVE RefusalInv
  OBVIOUS
<1>1. Types
  BY TypesInit
<1>2. \A p \in Procs : proc[p].at = "idle"
  BY DEF TracelessInit, Idle
<1>3. manual = Files
  BY DEF TracelessInit
<1> QED
  BY <1>1, <1>2, <1>3
  DEF RefusalInv, AdoptAlone, Adopting, OneWriter, Writing, RecordExplained, PendingExplained,
      Explained

\* Who runs beside whom.
LEMMA AloneStep ==
  ASSUME QuietAdopt, Types, AdoptAlone, OneWriter, TracelessNext
  PROVE  AdoptAlone' /\ OneWriter'
<1> USE DEF Types, Adopting, Writing
<1>1. ASSUME NEW p \in Procs,
             \/ Adopt(p) \/ (\E f \in Files : StartAdopt(p, f))
             \/ Compile(p) \/ (\E force \in BOOLEAN : StartCompile(p, force))
             \/ Raise(p) \/ Stop(p)
      PROVE  AdoptAlone' /\ OneWriter'
  <2>1. \A q \in Procs \ {p} : proc'[q] = proc[q]
    BY <1>1, OthersStay
  <2>2. \/ proc'[p].at = "idle"
        \/ \A q \in Procs \ {p} : proc[q].at = "idle"
        \/ ~ Adopting(p)' /\ \A q \in Procs \ {p} : ~ Adopting(q)
    <3>1. CASE \E f \in Files : StartAdopt(p, f)
      BY <3>1 DEF StartAdopt
    <3>2. CASE \E force \in BOOLEAN : StartCompile(p, force)
      BY <3>2, StepOfProcess DEF StartCompile
    <3>3. CASE Adopt(p)
      BY <3>3 DEF Adopt, Extract, WriteUncompiled, Register, ReportRoundTrip, AdoptAlone
    <3>4. CASE Raise(p) \/ Stop(p)
      BY <3>4, StepOfProcess DEF Raise, Stop
    <3>5. CASE Compile(p)
      <4>1. proc[p].at # "idle"
        BY <3>5 DEF Compile, RenderNext, Turn, UpToDate, Accept, Refuse, Publish, SaveRecord, EndCompile
      <4>2. \A q \in Procs \ {p} : ~ Adopting(q)
        BY <4>1 DEF AdoptAlone
      <4>3. ~ Adopting(p)'
        BY <3>5, StepOfProcess DEF Compile, Refuse, SaveRecord, EndCompile
      <4> QED BY <4>2, <4>3
    <3> QED BY <1>1, <3>1, <3>2, <3>3, <3>4, <3>5
  <2>3. AdoptAlone'
    BY <2>1, <2>2 DEF AdoptAlone
  <2>4. \/ ~ Writing(p)'
        \/ Writing(p) /\ proc'[p].file = proc[p].file
        \/ OutputFree(p) /\ proc'[p].file = proc[p].file
    <3>1. CASE UpToDate(p) \/ Accept(p)
      BY <3>1, StepOfProcess DEF UpToDate, Accept
    <3>2. CASE Publish(p)
      BY <3>2, StepOfProcess DEF Publish
    <3>3. CASE ~ (UpToDate(p) \/ Accept(p) \/ Publish(p))
      BY <1>1, <3>3, StepOfProcess
      DEF Adopt, Compile, ReportRoundTrip, Refuse, SaveRecord, EndCompile, Raise, Stop
    <3> QED BY <3>1, <3>2, <3>3
  <2>5. OneWriter'
    BY <2>1, <2>4 DEF OneWriter, OutputFree
  <2> QED BY <2>3, <2>5
<1>2. CASE proc' = proc
  BY <1>2 DEF AdoptAlone, OneWriter
<1> QED
  BY <1>1, <1>2
  DEF TracelessNext, StartShred, ShredState, ShredSources, ShredDies, EditTree, DeleteFromTree,
      EditScript

\* A step that keeps what explains a file, or leaves it as recorded and as its
\* writer left it, keeps the invariant.
LEMMA RefusalKept ==
  ASSUME RefusalInv, NEW p \in Procs,
         \A q \in Procs \ {p} : proc'[q] = proc[q],
         proc'[p].at = "record" => tree'[proc'[p].file] = proc'[p].text,
         \A f \in Files :
           \/ UNCHANGED <<tree[f], hashes[f]>> \/ hashes'[f] = tree'[f] \/ tree'[f] = None
           \/ f \in Explained',
         \A f \in Files :
           \/ (f \in Explained => f \in Explained') /\ UNCHANGED tree[f]
           \/ f \in Explained'
           \/ /\ hashes'[f] = tree'[f]
              /\ \A q \in Procs \ {p} : proc[q].at = "record" => proc[q].file # f
  PROVE  RecordExplained' /\ PendingExplained'
<1> USE DEF RefusalInv
<1>1. RecordExplained'
  BY DEF RecordExplained
<1>2. ASSUME NEW q \in Procs, q # p, proc'[q].at = "record", tree'[proc'[q].file] # None,
             tree'[proc'[q].file] # proc'[q].text
      PROVE  proc'[q].file \in Explained'
  <2>1. proc'[q] = proc[q] /\ proc[q].file \in Files
    BY <1>2, ProcKnown DEF Types
  <2> QED BY <1>2, <2>1 DEF PendingExplained
<1> QED BY <1>1, <1>2 DEF PendingExplained

\* A step of a process.
LEMMA RefusalProcess ==
  ASSUME QuietAdopt, RefusalInv, NEW p \in Procs,
         \/ Adopt(p) \/ (\E f \in Files : StartAdopt(p, f))
         \/ Compile(p) \/ (\E force \in BOOLEAN : StartCompile(p, force))
         \/ Raise(p) \/ Stop(p)
  PROVE  RecordExplained' /\ PendingExplained'
<1> USE DEF RefusalInv, Types
<1>1. \A q \in Procs \ {p} : proc'[q] = proc[q]
  BY OthersStay
<1>2. hashes \in [Files -> KnownText] /\ tree \in [Files -> KnownText]
  BY DEF TextsKnown
<1>3. CASE Register(p)
  <2>1. proc[p].file \in Files /\ \A q \in Procs \ {p} : proc[q].at = "idle"
    BY <1>3, ProcKnown DEF Register, AdoptAlone, Adopting
  <2>2. proc'[p].at = "recompile"
    BY <1>3, StepOfProcess
  <2>3. \A f \in Files \ {proc[p].file} :
          UNCHANGED <<tree[f], hashes[f]>> /\ (f \in Explained => f \in Explained')
    BY <1>2, <1>3, <2>1 DEF Register, Explained
  <2>4. hashes'[proc[p].file] = tree'[proc[p].file]
    BY <1>2, <1>3, <2>1 DEF Register
  <2> QED BY <1>1, <2>1, <2>2, <2>3, <2>4, RefusalKept
<1>4. CASE UpToDate(p)
  <2>1. proc[p].file \in Files /\ \A q \in Procs \ {p} : proc[q].at = "record" => proc[q].file # proc[p].file
    BY <1>4, ProcKnown DEF UpToDate, OutputFree
  <2>2. UNCHANGED <<tree, hashes, damaged>> /\ tree[proc[p].file] = proc[p].text
    BY <1>4 DEF UpToDate, stateDir
  <2>3. \A f \in Files \ {proc[p].file} : f \in Explained => f \in Explained'
    BY <1>4, <2>2 DEF UpToDate, Explained
  <2>4. \/ hashes[proc[p].file] = tree[proc[p].file] /\ proc'[p].at = "render"
        \/ /\ UNCHANGED <<manual, torn>>
           /\ proc'[p].at = "record" => tree'[proc'[p].file] = proc'[p].text
    BY <1>4, <2>2, StepOfProcess DEF UpToDate
  <2>5. CASE hashes[proc[p].file] = tree[proc[p].file] /\ proc'[p].at = "render"
    BY <1>1, <2>1, <2>2, <2>3, <2>5, RefusalKept
  <2>6. CASE UNCHANGED <<manual, torn>>
    <3>1. Explained' = Explained
      BY <2>2, <2>6 DEF Explained
    <3> QED BY <1>1, <2>2, <2>4, <3>1, RefusalKept
  <2> QED BY <2>4, <2>5, <2>6
<1>5. CASE Publish(p)
  <2>1. proc[p].file \in Files /\ proc[p].text \in KnownText
    BY <1>5, ProcKnown DEF Publish
  <2>2. /\ proc'[p].at = "record" /\ proc'[p].file = proc[p].file /\ proc'[p].text = proc[p].text
        /\ tree'[proc[p].file] = proc[p].text
        /\ \A f \in Files \ {proc[p].file} :
             UNCHANGED <<tree[f], hashes[f]>> /\ (f \in Explained => f \in Explained')
        /\ proc[p].file \in Explained'
    BY <1>2, <1>5, <2>1, StepOfProcess DEF Publish, stateDir, Explained
  <2> QED BY <1>1, <2>2, RefusalKept
<1>6. CASE SaveRecord(p)
  <2>1. proc[p].file \in Files /\ \A q \in Procs \ {p} : proc[q].at = "record" => proc[q].file # proc[p].file
    BY <1>6, ProcKnown DEF SaveRecord, OneWriter, Writing
  <2>2. proc'[p].at = "render" /\ UNCHANGED <<tree, damaged>>
        /\ hashes' = [hashes EXCEPT ![proc[p].file] = proc[p].text]
    BY <1>6, StepOfProcess DEF SaveRecord
  <2>3. \A f \in Files \ {proc[p].file} :
          UNCHANGED <<tree[f], hashes[f]>> /\ (f \in Explained => f \in Explained')
    BY <1>2, <1>6, <2>1, <2>2 DEF SaveRecord, Explained
  <2>4. CASE tree[proc[p].file] = proc[p].text
    BY <1>1, <1>2, <2>1, <2>2, <2>3, <2>4, RefusalKept
  <2>5. CASE tree[proc[p].file] # proc[p].text
    <3>1. Explained' = Explained
      BY <1>6, <2>2, <2>5 DEF SaveRecord, Explained
    <3>2. tree[proc[p].file] = None \/ proc[p].file \in Explained
      BY <1>6, <2>5 DEF SaveRecord, PendingExplained
    <3> QED BY <1>1, <2>2, <2>3, <3>1, <3>2, RefusalKept
  <2> QED BY <2>4, <2>5
<1>7. CASE \/ Extract(p) \/ WriteUncompiled(p) \/ ReportRoundTrip(p)
           \/ (\E f \in Files : StartAdopt(p, f) \/ RenderNext(p, f))
           \/ (\E force \in BOOLEAN : StartCompile(p, force))
           \/ Accept(p) \/ Refuse(p) \/ EndCompile(p) \/ Raise(p) \/ Stop(p)
  <2>1. UNCHANGED <<tree, hashes, manual, torn, damaged>>
    BY <1>7
    DEF Extract, WriteUncompiled, ReportRoundTrip, StartAdopt, RenderNext, StartCompile, Accept,
        Refuse, EndCompile, Raise, Stop, stateDir, history
  <2>2. Explained' = Explained
    BY <2>1 DEF Explained
  <2>3. proc'[p].at # "record"
    BY <1>7, StepOfProcess DEF ReportRoundTrip, Refuse, EndCompile, Raise, Stop
  <2> QED BY <1>1, <2>1, <2>2, <2>3, RefusalKept
<1> QED BY <1>3, <1>4, <1>5, <1>6, <1>7 DEF Adopt, Compile

\* A shred works while nothing runs, and explains all files; so does an edit
\* explain the one it is of.
LEMMA RefusalOther ==
  ASSUME RefusalInv, \/ StartShred \/ ShredState \/ ShredSources \/ ShredDies
                     \/ \E f \in Files : EditTree(f) \/ DeleteFromTree(f)
                     \/ \E s \in Scripts : EditScript(s)
  PROVE  RecordExplained' /\ PendingExplained'
<1> USE DEF RefusalInv, Types, Explained
<1>1. proc' = proc
  BY DEF StartShred, ShredState, ShredSources, ShredDies, EditTree, DeleteFromTree, EditScript
<1>2. CASE ShredState
  <2>1. \A p \in Procs : proc[p].at = "idle"
    BY <1>2 DEF ShredState, SetsKnown
  <2> QED BY <1>1, <1>2, <2>1 DEF ShredState, RecordExplained, PendingExplained
<1>3. CASE ShredDies
  BY <1>1, <1>3, ProcKnown DEF ShredDies, RecordExplained, PendingExplained
<1>4. CASE StartShred \/ ShredSources \/ \E s \in Scripts : EditScript(s)
  BY <1>1, <1>4
  DEF StartShred, ShredSources, EditScript, stateDir, history, RecordExplained, PendingExplained
<1>5. ASSUME NEW f \in Files, EditTree(f) \/ DeleteFromTree(f)
      PROVE  RecordExplained' /\ PendingExplained'
  <2>1. UNCHANGED <<hashes, proc, torn, damaged>> /\ tree \in [Files -> KnownText]
    BY <1>5 DEF EditTree, DeleteFromTree, stateDir, TextsKnown
  <2>2. \A g \in Files \ {f} : tree'[g] = tree[g] /\ (g \in manual => g \in manual')
    BY <1>5, <2>1 DEF EditTree, DeleteFromTree
  <2>3. tree'[f] = None \/ f \in manual'
    BY <1>5, <2>1 DEF EditTree, DeleteFromTree
  <2> QED BY <2>1, <2>2, <2>3, ProcKnown DEF RecordExplained, PendingExplained
<1> QED BY <1>2, <1>3, <1>4, <1>5

LEMMA RefusalStep == QuietAdopt /\ RefusalInv /\ [TracelessNext]_tracelessVars => RefusalInv'
<1> SUFFICES ASSUME QuietAdopt, RefusalInv, [TracelessNext]_tracelessVars PROVE RefusalInv'
  OBVIOUS
<1>1. CASE TracelessNext
  <2>1. Types' /\ AdoptAlone' /\ OneWriter'
    BY <1>1, TypesStep, AloneStep DEF RefusalInv
  <2>2. RecordExplained' /\ PendingExplained'
    BY <1>1, RefusalProcess, RefusalOther DEF TracelessNext
  <2> QED BY <2>1, <2>2 DEF RefusalInv
<1>2. CASE UNCHANGED tracelessVars
  <2>1. Types'
    BY TypesStep DEF RefusalInv
  <2> QED
    BY <1>2, <2>1
    DEF tracelessVars, stateDir, history, RefusalInv, AdoptAlone, Adopting, OneWriter, Writing,
        RecordExplained, PendingExplained, Explained
<1> QED BY <1>1, <1>2

\* Where adopts run alone, compile refuses a file only if it has a text of the
\* user, or an interruption between an output and its record, or in a shred,
\* has left it so (write_compiled_file_no_sidecar).
THEOREM RefusalsStayReal ==
  ASSUME QuietAdopt
  PROVE  TracelessSpec => RefusalsAreReal
<1>1. RefusalInv /\ [TracelessNext]_tracelessVars => RefusalInv'
  BY RefusalStep
<1>2. TracelessSpec => []RefusalInv
  BY <1>1, RefusalInit, PTL DEF TracelessSpec
<1>3. RefusalInv /\ [TracelessNext]_tracelessVars
      => [\A p \in Procs :
            LET f == proc[p].file IN
            Refuse(p) => f \in manual \cup torn \cup damaged]_tracelessVars
  <2> SUFFICES ASSUME RefusalInv, NEW p \in Procs, Refuse(p)
               PROVE  proc[p].file \in manual \cup torn \cup damaged
    OBVIOUS
  <2>1. proc[p].file \in Files
    BY ProcKnown DEF RefusalInv, Types, Refuse
  <2> QED BY <2>1 DEF RefusalInv, RecordExplained, Explained, Refuse, Vouches
<1> QED BY <1>2, <1>3, PTL DEF TracelessSpec, RefusalsAreReal
=============================================================================
