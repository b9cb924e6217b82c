----------------------------- MODULE ScriptBlocks -----------------------------
(***************************************************************************)
(* process_script_list (commands/compile_all.py): the items of one script, *)
(* each inlined if it calls a file, and the result put back as a list or   *)
(* as one literal block.  It is checked against what the items would run.  *)
(*                                                                         *)
(* An item is named by what it calls, how many arguments it passes on and  *)
(* whether it carries the pragma do-not-inline; its text is its effect.    *)
(* Blocks grow item by item, so that every small block is met.             *)
(***************************************************************************)
EXTENDS Naturals, Sequences, SequencesExt

CONSTANT MaxItems  \* bound: the items of a block

VARIABLES
  block,       \* the items
  style,       \* a list, a single text, or a list at the top level of the document
  emit_fences  \* FALSE in the traceless mode

blockVars == <<block, style, emit_fences>>

Item(calls, args, marked) == [calls |-> calls, args |-> args, marked |-> marked]

\* "lib" and "gone" are shell scripts, "gone" does not exist; "tool" and "large"
\* are programs, the text of "large" exceeds MAX_INLINE_LEN; "text" has several
\* lines; "node" is no string (!reference).
Items ==
  {Item(calls, 0, FALSE) : calls \in {"command", "text", "files", "node"}}
    \cup {Item(calls, args, marked) : calls \in {"lib", "gone", "tool", "large"}, args \in {0, 2},
                                      marked \in BOOLEAN}

BlockInit == block = <<>> /\ style \in {"list", "single", "toplist"} /\ emit_fences \in BOOLEAN

AddItem(item) ==
  /\ Len(block) < (IF style = "single" THEN 1 ELSE MaxItems)
  /\ style = "single" => item.calls # "node"
  /\ block' = Append(block, item)
  /\ UNCHANGED <<style, emit_fences>>

BlockNext == \E item \in Items : AddItem(item)

BlockSpec == BlockInit /\ [][BlockNext]_blockVars

----
(* Inlining.  An item becomes a sequence of pieces: markers, effects and   *)
(* nodes.                                                                  *)

Piece(is, runs, args) == [is |-> is, runs |-> runs, args |-> args]
Marker == Piece("marker", "nothing", 0)
AsItIs(item) == <<Piece(IF item.calls = "node" THEN "node" ELSE "text", item.calls, item.args)>>

\* extract_script_path: a script without arguments.  A comment on the line is no
\* argument, so a pragma in it makes no difference.
IsScriptCall(item) == item.calls \in {"lib", "gone"} /\ item.args = 0

InlineScript(item) ==
  IF emit_fences THEN <<Marker, Piece("text", item.calls, 0), Marker>>
                 ELSE <<Piece("text", item.calls, 0)>>

\* maybe_inline_artifact and generate_extraction_shim, fenced in either mode
InlineArtifact(item) == <<Marker, Piece("text", item.calls, 0), Marker>>

\* maybe_inline_interpreter_command: a program, or a shell script with arguments
IsProgramCall(item) ==
  item.calls \in {"lib", "gone", "tool", "large"} /\ ~ IsScriptCall(item) /\ ~ item.marked

\* build_eval_command.  bash -c 'code' a b gives a to the script as its $0.
InlineProgram(item) ==
  LET args == IF item.calls = "lib" THEN item.args - 1 ELSE item.args
  IN <<Marker, Piece("text", item.calls, args), Marker>>

InlineItem(item) ==
  CASE item.calls = "node" -> AsItIs(item)
    [] IsScriptCall(item) -> InlineScript(item)
    [] item.calls = "files" -> InlineArtifact(item)
    [] IsProgramCall(item) /\ item.calls # "large" -> InlineProgram(item)
    [] OTHER -> AsItIs(item)

\* read_bash_script and resolve_interpreter_target raise
Refused == \E i \in DOMAIN block :
             block[i].calls = "gone" /\ (IsScriptCall(block[i]) \/ IsProgramCall(block[i]))

Pieces == FlattenSeq([i \in DOMAIN block |-> InlineItem(block[i])])

----
(* The shape of the result: a sequence of items, each a sequence of pieces *)

Flush(state) ==
  [out |-> IF state.buf = <<>> THEN state.out ELSE Append(state.out, state.buf), buf |-> <<>>]

Collect(state, p) ==
  IF p.is = "node" THEN LET done == Flush(state) IN [done EXCEPT !.out = Append(@, <<p>>)]
  ELSE [state EXCEPT !.buf = Append(@, p)]

Collected(pieces) == FoldLeft(Collect, [out |-> <<>>, buf |-> <<>>], pieces)

\* Mutation of compact_runs_to_literal: the last run is not flushed.
compact_runs_to_literal_unflushed(pieces) == Collected(pieces).out

compact_runs_to_literal(pieces) == Flush(Collected(pieces)).out

\* A list in the document keeps its sequence; any string in it, with a script or
\* not, is enough for its runs to be compacted.
process_script_list ==
  LET someText == \E i \in DOMAIN block : block[i].calls # "node"
      single == [i \in DOMAIN Pieces |-> <<Pieces[i]>>]
  IN CASE style = "single" -> IF Len(Pieces) > 1 THEN <<Pieces>> ELSE single
       [] style = "list" /\ someText -> compact_runs_to_literal(Pieces)
       [] OTHER -> single

----
(* Properties *)

Effects(pieces) ==
  FlattenSeq([i \in DOMAIN pieces |-> IF pieces[i].is = "marker" THEN <<>> ELSE <<pieces[i]>>])

\* The compiled script runs what the items would run, in their order and with
\* their arguments, except a shell script with arguments: inlined as bash -c its
\* first argument is lost, although only what is "safe to inline without
\* changing semantics" (utils/parse_bash.py) should be.
BlockMeansTheSame ==
  ~ Refused /\ (\A i \in DOMAIN block : block[i].calls = "lib" => block[i].args = 0 \/ block[i].marked)
    => Effects(FlattenSeq(process_script_list)) = FlattenSeq([i \in DOMAIN block |-> AsItIs(block[i])])
=============================================================================
