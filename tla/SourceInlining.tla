---------------------------- MODULE SourceInlining ----------------------------
(***************************************************************************)
(* inline_bash_source (commands/compile_bash_reader.py): a script with the *)
(* scripts it sources put in their place, and the pragmas that leave lines *)
(* out.  It is checked against what bash would run.                        *)
(*                                                                         *)
(* A script is a sequence of lines: a command, a source line, or a pragma. *)
(* In the inlined text a command is named by its file and line number.     *)
(* Scripts grow line by line, so that every small set of them is met.      *)
(***************************************************************************)
EXTENDS Naturals, Sequences, SequencesExt

CONSTANTS
  MaxLines,  \* bound: the lines of all scripts together
  MaxDepth   \* max_depth, 64 in the code

ASSUME InliningAssumption == MaxDepth \in Nat

VARIABLE script  \* the lines of each file

\* "outside" lies outside the allowed root; "gone" does not exist.
ScriptFiles == {"main", "lib", "outside"}
Line(kind, to) == [kind |-> kind, to |-> to]
AnyCommand == Line("command", "main")
Pragmas == {Line(kind, "main") : kind \in {"start", "end", "next", "drop"}}
Sources(file) ==
  CASE file = "main" -> {Line("source", "lib"), Line("source", "outside"),
                         Line("allow", "outside"), Line("source", "gone")}
    [] file = "lib" -> {Line("source", "main"), Line("allow", "outside")}
    [] file = "outside" -> {Line("allow", "outside"), Line("source", "lib")}

LinesOf(file) == {AnyCommand} \cup Sources(file) \cup (IF file = "main" THEN Pragmas ELSE {})

ScriptInit == script = [f \in ScriptFiles |-> <<>>]

Size == Len(script["main"]) + Len(script["lib"]) + Len(script["outside"])

AddLine(file, line) ==
  /\ Size < MaxLines
  /\ script' = [script EXCEPT ![file] = Append(@, line)]

ScriptNext == \E file \in ScriptFiles : \E line \in LinesOf(file) : AddLine(file, line)

ScriptSpec == ScriptInit /\ [][ScriptNext]_script

----
(* The inliner.  Its state while it reads a file: the text so far, the     *)
(* files processed, the two flags of the pragmas, and the first error.     *)

Reading(processed) ==
  [text |-> <<>>, processed |-> processed, inBlock |-> FALSE, skipNext |-> FALSE, error |-> "none"]
Fail(state, error) == [state EXCEPT !.error = error]

\* secure_join
Allowed(line) == line.to \in {"main", "lib"} \/ (line.to = "outside" /\ line.kind = "allow")

\* Mutation of Keep: the flag of the next line is not reset.
KeepFlag(state, text) == IF state.skipNext THEN state ELSE [state EXCEPT !.text = @ \o text]

\* A line that is to be kept, unless the line before it said otherwise.
Keep(state, text) ==
  IF state.skipNext THEN [state EXCEPT !.skipNext = FALSE] ELSE [state EXCEPT !.text = @ \o text]

\* Mutation of Carry: the files processed are not handed back.
CarryText(state, inlined) ==
  [state EXCEPT !.text = @ \o inlined.text, !.error = inlined.error]

\* After a file that was sourced: its text, the files processed by now, its error.
Carry(state, inlined) ==
  [state EXCEPT !.text = @ \o inlined.text, !.processed = inlined.processed,
                !.error = inlined.error]

\* One line of a file; sourced[f][processed] is what a file becomes that it sources.
ReadScriptLine(state, file, i, sourced) ==
  LET line == script[file][i] IN
  IF state.error # "none" THEN state
  ELSE
    CASE line.kind = "start" -> IF state.inBlock THEN Fail(state, "pragma")
                                ELSE [state EXCEPT !.inBlock = TRUE]
      [] line.kind = "end" -> IF state.inBlock THEN [state EXCEPT !.inBlock = FALSE]
                              ELSE Fail(state, "pragma")
      [] line.kind = "next" -> [state EXCEPT !.skipNext = TRUE]
      [] line.kind = "drop" -> state
      [] line.kind \in {"command", "source", "allow"} /\ state.inBlock -> state
      [] line.kind = "command" /\ ~ state.inBlock -> Keep(state, <<<<file, i>>>>)
      [] line.kind \in {"source", "allow"} /\ ~ state.inBlock ->
           IF state.skipNext THEN Keep(state, <<>>)
           ELSE IF ~ Allowed(line) THEN Fail(state, "not_found")
           ELSE Carry(state, sourced[line.to][state.processed])

ReadScript(file, processed, sourced) ==
  LET end == FoldLeft(LAMBDA state, i : ReadScriptLine(state, file, i, sourced),
                      Reading(processed \cup {file}), [i \in 1..Len(script[file]) |-> i])
  IN IF end.error = "none" /\ end.inBlock THEN Fail(end, "pragma") ELSE end

\* inline_bash_source, by the levels of sourcing that are left: max_depth less
\* depth, and one.  The depth is looked at before the files processed.
Inline[levels \in Nat] ==
  [file \in ScriptFiles |-> [processed \in SUBSET ScriptFiles |->
    IF levels = 0 THEN Fail(Reading(processed), "depth")
    ELSE IF file \in processed THEN Reading(processed)
    ELSE ReadScript(file, processed, Inline[levels - 1])]]

\* read_bash_script
Inlined == LET main == Inline[MaxDepth + 1]["main"][{}]
           IN IF main.error = "none" /\ main.text = <<>> THEN Fail(main, "empty") ELSE main

----
(* What bash runs, if no file sources itself: the reference. *)

Sourced(file) == {script[file][i].to : i \in {j \in DOMAIN script[file] :
                    script[file][j].kind \in {"source", "allow"}}}
Circular == \/ \E f \in ScriptFiles : f \in Sourced(f)
            \/ \E f, g \in ScriptFiles : g \in Sourced(f) /\ f \in Sourced(g)
            \/ "main" \in Sourced("lib") \/ "lib" \in Sourced("outside")
Plain == \A i \in DOMAIN script["main"] : script["main"][i] \notin Pragmas

\* By the levels of sourcing that are left: a chain of scripts that do not source
\* themselves is no longer than their number.
BashRuns[levels \in Nat] ==
  [file \in ScriptFiles |->
    IF levels = 0 THEN <<>>
    ELSE FlattenSeq([i \in DOMAIN script[file] |->
           IF script[file][i].kind = "command" THEN <<<<file, i>>>>
           ELSE BashRuns[levels - 1][script[file][i].to]])]

FirstOnly(s) ==
  FlattenSeq([i \in DOMAIN s |-> IF \E j \in 1..(i - 1) : s[j] = s[i] THEN <<>> ELSE <<s[i]>>])

\* Line i of main lies in a block, or a do-not-inline-next-line comes before it
\* with nothing between them that would have been kept.
InBlock(i) ==
  LET Before(kind) == {j \in 1..(i - 1) : script["main"][j].kind = kind}
  IN \E j \in Before("start") : \A k \in Before("end") : k < j
MarkedOut(i) ==
  InBlock(i) \/ \E j \in 1..(i - 1) :
    /\ script["main"][j].kind = "next"
    /\ \A k \in (j + 1)..(i - 1) : script["main"][k] \in Pragmas \/ InBlock(k)

----
(* Properties *)

\* Where no file sources itself the inlined script runs what bash would run, in
\* that order, but each file only once: a file sourced again is left out with
\* a warning of a circular source (compile_bash_reader.py).
RunsLikeBash ==
  Plain /\ ~ Circular /\ Inlined.error = "none" => Inlined.text = FirstOnly(BashRuns[3]["main"])

\* A pragma reaches no further than the lines it marks: every other command of
\* main is in the text, and a script is inlined only for a source line that no
\* pragma marks.  Whether a marked line itself is kept is left open: the code drops
\* it, as does the test scenario13, while the messages of the same function say
\* that it is "kept as-is instead of inlined" (compile_bash_reader.py:302).
PragmasReachOnlyTheirLines ==
  Inlined.error = "none" =>
    /\ \A i \in DOMAIN script["main"] :
         script["main"][i].kind = "command" /\ ~ MarkedOut(i) => Contains(Inlined.text, <<"main", i>>)
    /\ \A f \in ScriptFiles \ {"main"} : \A k \in DOMAIN script[f] :
         Contains(Inlined.text, <<f, k>>) =>
           \E i \in DOMAIN script["main"] :
             script["main"][i].kind \in {"source", "allow"} /\ ~ MarkedOut(i)
=============================================================================
