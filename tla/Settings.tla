------------------------------ MODULE Settings -------------------------------
(***************************************************************************)
(* Where the value of a setting comes from: the command line, the          *)
(* environment (BASH2YAML_<KEY> and BASH2YAML_<SECTION>_<KEY>) and the     *)
(* configuration file (a section of its own and the top level).  Config of *)
(* config.py looks the layers up; the parser of __main__.py has defaults   *)
(* from Config, and main merges once more.                                 *)
(*                                                                         *)
(* A value is the name of the layer that gave it.                          *)
(***************************************************************************)
EXTENDS Naturals

VARIABLE layersSet  \* the layers that give a value for the setting

Layers == {"cli", "env_section", "env", "file_section", "file"}
Unset == "unset"

TypeOKSettings == layersSet \subseteq Layers

SettingsInit == layersSet = {}
SetLayer(layer) == layer \notin layersSet /\ layersSet' = layersSet \cup {layer}
UnsetLayer(layer) == layer \in layersSet /\ layersSet' = layersSet \ {layer}
SettingsNext == \E layer \in Layers : SetLayer(layer) \/ UnsetLayer(layer)

SettingsSpec == SettingsInit /\ [][SettingsNext]_layersSet

First(layers, otherwise) ==
  IF \E i \in DOMAIN layers : layers[i] \in layersSet
  THEN layers[CHOOSE i \in DOMAIN layers :
                layers[i] \in layersSet /\ \A j \in 1..(i - 1) : layers[j] \notin layersSet]
  ELSE otherwise

\* Config._get_value: with a section the plain variable is not looked at.
_get_value(sectioned) ==
  IF sectioned THEN First(<<"env_section", "file_section", "file">>, Unset)
               ELSE First(<<"env", "file">>, Unset)

Or(value, otherwise) == IF value = Unset THEN otherwise ELSE value
Cli == First(<<"cli">>, Unset)

\* input_dir, output_dir, parallelism
Global == _get_value(FALSE)

\* compile_input_dir, decompile_output_dir, lint_parallelism and the like
Sectioned == Or(_get_value(TRUE), Global)

\* Mutation of CompileInput: the section wins over the command line.
CompileInputSection == Or(_get_value(TRUE), Or(Cli, Global))

\* main: compile, clean, lint and detect-drift merge the global setting only.
CompileInput == Or(Cli, Global)

\* validate, detect-uncompiled and the output of decompile
SectionedArgument == Or(Cli, Sectioned)

----
(* Properties *)

\* detect-uncompiled and validate read the directory that compile compiles,
\* unless the [compile] section is used, or the environment and the file differ.
OneInputDirectory ==
  CompileInput # SectionedArgument
    => layersSet \cap {"env_section", "file_section"} # {} \/ {"env", "file"} \subseteq layersSet
=============================================================================
