------------------------------- MODULE MCTools -------------------------------
(***************************************************************************)
(* The commands that share no state with each other, one at a time: a      *)
(* behavior is one of the part chosen at the start.  The input change      *)
(* detector is one of the parts; only its property of rest needs fairness. *)
(***************************************************************************)
EXTENDS CommandLine, Settings, PipelineTrigger, CommandRunner, Autogit, PrecommitHook, MapSync,
        SourceInlining, ScriptBlocks, RoundTrip, Validation, InputChanges, TLC

VARIABLE part

toolsVars == <<part, cliVars, layersSet, triggerVars, runnerVars, gitVars, hookVars, mapVars, script,
               blockVars, roundVars, validateVars, inputsVars>>

Parts == {"cli", "settings", "trigger", "runner", "autogit", "hook",
          "map", "scripts", "blocks", "roundtrip", "validate", "inputs"}

\* A part that was not chosen rests in one of its initial states, the input
\* change detector over an empty directory.
ToolsInit ==
  /\ part \in Parts
  /\ CliInit
  /\ SettingsInit
  /\ TriggerInit
  /\ RunnerInit /\ (part # "runner" => interface = "gui")
  /\ AutogitInit
  /\ HookInit /\ (part # "hook" => shape = "plain" /\ hook = "none")
  /\ MapInit
  /\ ScriptInit
  /\ BlockInit /\ (part # "blocks" => style = "list" /\ emit_fences)
  /\ RoundInit /\ (part # "roundtrip" => platform = "gitlab")
  /\ ValidationInit /\ (part # "validate" => directory.files = 0 /\ directory.platform = "gitlab" /\ network
                               /\ schemas = [p \in Platforms |-> "none"])
  /\ InputsInit /\ (part # "inputs" => input = NoTexts)

CliPart ==
  /\ part = "cli" /\ CliNext
  /\ UNCHANGED <<part, layersSet, triggerVars, runnerVars, gitVars, hookVars, mapVars,
                script, blockVars, roundVars, validateVars, inputsVars>>
SettingsPart ==
  /\ part = "settings" /\ SettingsNext
  /\ UNCHANGED <<part, cliVars, triggerVars, runnerVars, gitVars, hookVars, mapVars,
                script, blockVars, roundVars, validateVars, inputsVars>>
TriggerPart ==
  /\ part = "trigger" /\ TriggerNext
  /\ UNCHANGED <<part, cliVars, layersSet, runnerVars, gitVars, hookVars, mapVars,
                script, blockVars, roundVars, validateVars, inputsVars>>
RunnerPart ==
  /\ part = "runner" /\ RunnerNext
  /\ UNCHANGED <<part, cliVars, layersSet, triggerVars, gitVars, hookVars, mapVars,
                script, blockVars, roundVars, validateVars, inputsVars>>
GitPart ==
  /\ part = "autogit" /\ AutogitNext
  /\ UNCHANGED <<part, cliVars, layersSet, triggerVars, runnerVars, hookVars, mapVars,
                script, blockVars, roundVars, validateVars, inputsVars>>
HookPart ==
  /\ part = "hook" /\ HookNext
  /\ UNCHANGED <<part, cliVars, layersSet, triggerVars, runnerVars, gitVars, mapVars,
                script, blockVars, roundVars, validateVars, inputsVars>>
MapPart ==
  /\ part = "map" /\ MapNext
  /\ UNCHANGED <<part, cliVars, layersSet, triggerVars, runnerVars, gitVars, hookVars,
                script, blockVars, roundVars, validateVars, inputsVars>>
ScriptPart ==
  /\ part = "scripts" /\ ScriptNext
  /\ UNCHANGED <<part, cliVars, layersSet, triggerVars, runnerVars, gitVars, hookVars,
                mapVars, blockVars, roundVars, validateVars, inputsVars>>
BlockPart ==
  /\ part = "blocks" /\ BlockNext
  /\ UNCHANGED <<part, cliVars, layersSet, triggerVars, runnerVars, gitVars, hookVars,
                mapVars, script, roundVars, validateVars, inputsVars>>
RoundPart ==
  /\ part = "roundtrip" /\ RoundNext
  /\ UNCHANGED <<part, cliVars, layersSet, triggerVars, runnerVars, gitVars, hookVars,
                mapVars, script, blockVars, validateVars, inputsVars>>
ValidatePart ==
  /\ part = "validate" /\ ValidationNext
  /\ UNCHANGED <<part, cliVars, layersSet, triggerVars, runnerVars, gitVars, hookVars,
                mapVars, script, blockVars, roundVars, inputsVars>>
InputsPart ==
  /\ part = "inputs" /\ InputsNext
  /\ UNCHANGED <<part, cliVars, layersSet, triggerVars, runnerVars, gitVars, hookVars,
                mapVars, script, blockVars, roundVars, validateVars>>
InputsRun ==
  /\ part = "inputs" /\ CompileStep
  /\ UNCHANGED <<part, cliVars, layersSet, triggerVars, runnerVars, gitVars, hookVars,
                mapVars, script, blockVars, roundVars, validateVars>>

ToolsNext ==
  \/ CliPart \/ SettingsPart \/ TriggerPart \/ RunnerPart \/ GitPart \/ HookPart
  \/ MapPart \/ ScriptPart \/ BlockPart \/ RoundPart \/ ValidatePart
  \/ InputsPart

\* A run of compile goes on, and where compilation is needed one is started.
ToolsSpec == ToolsInit /\ [][ToolsNext]_toolsVars /\ WF_toolsVars(InputsRun)

----
(* Properties *)

\* Each part keeps to its types.
ToolsTypeOK ==
  /\ TypeOKSettings /\ TriggerTypeOK /\ RunnerTypeOK /\ AutogitTypeOK /\ HookTypeOK /\ MapTypeOK
  /\ ValidationTypeOK /\ InputsTypeOK

\* The input files of the instance.
MCFiles == {[stem |-> "a", suffixes |-> <<"yml">>], [stem |-> "b", suffixes |-> <<"sh">>]}
=============================================================================
