# bash2yaml: models, checks and proofs

bash2yaml keeps the scripts of a CI pipeline in files of their own and compiles
them into the YAML that the CI service reads. Its correctness is about files:
what it may overwrite, when it may skip, what it remembers of its own writing,
and what is left when it is killed. Around that core are commands that work with
other programs (git, GitLab, child processes) or turn one text into another.
This directory holds TLA+ modules for both, the TLC configurations that check
them on small instances, and proofs, checked by TLAPS, for every instance.

    tlc -workers 2 -config MCCompile.cfg MCWorkspace.tla     # a run
    tlapm WorkspaceProofs.tla                                # a proof

## The system

| component | state | operations | talks to |
|---|---|---|---|
| compile (`commands/compile_all.py`) | `compile.lock`, `compilation.pending` in the input directory, one lock per output, the outputs | `run_compile_all`, `compile_single_file` (also in pool workers), `write_compiled_file` | change detector, integrity records, clean's stray list, state store |
| input change detector (`commands/input_change_detector.py`) | one digest per input file | `needs_compilation`, `mark_compiled`, `cleanup_stale_hashes` | compile |
| integrity records (`commands/hash_path_helpers.py`) | `.hash` files, centralized or (older releases) beside the output | find, migrate, list | compile, clean, detect-drift, map |
| clean (`commands/clean_all.py`) | none | list pairs, compare, unlink twice; list strays | shares outputs and records, takes no lock |
| detect-drift (`commands/detect_drift.py`) | none | compare every output with its record | shares outputs and records, takes no lock |
| atomic writes and locks (`utils/atomic_io.py`) | lock files | `atomic_write_text`, `file_lock` | compile, change detector, state store |
| watch mode (`watch_files.py`) | time of the last run | `on_any_event`, on the thread of the observer | compile |
| state store (`utils/state_store.py`) | `state.json`, the two files of older releases, `state.lock`; caches and pending updates per process | `record_hash`, `record_source`, `save`, `shred` | traceless commands, sidecar-free compile |
| traceless commands (`commands/traceless_cmds.py`) | extracted sources in the state directory | adopt, compile, verify, shred | state store, decompile, compile |
| decompile (`commands/decompile_all.py`) | extracted scripts | one file, a tree, adoption | state store, targets |
| map deploy and commit (`commands/map_deploy.py`, `map_commit.py`) | deployed copies and their records | copy out, copy back | integrity records |
| pipeline trigger (`commands/pipeline_trigger.py`) | results of the pipelines seen so far | trigger, poll until complete | GitLab |
| command runners (`gui.py`, `tui.py`) | current process, running flag | run, stop, cancel | the command line |
| front ends and command line (`gui.py`, `tui.py`, `interactive.py`, `__main__.py`) | none | forms, menu, parser, handlers, exit status | every command, autogit |
| configuration (`config.py`) | settings of the environment and the file | look up a setting | the command line |
| pre-commit hook (`commands/precommit.py`) | `.git/hooks/pre-commit` | install, uninstall | git |
| autogit (`commands/autogit.py`) | the index, commits | add, status, commit, push | git |
| script inlining (`commands/compile_bash_reader.py`, `compile_not_bash.py`, `compile_artifacts.py`) | none | inline a script, a program, an archive | compile |
| targets (`targets/*.py`) | none | where each CI platform has scripts and variables | compile, decompile |
| validation (`commands/validate_all.py`, `utils/validate_pipeline*.py`) | a schema cache shared by processes | validate a directory | the network |
| the rest | | lint, doctor, docs, pins, copying | |

What makes the first eight hard: several processes share the files (two
compiles, the workers of one that was killed, clean, a user, a watcher); every
publication is two writes, output and record; any of them can be killed between
two steps; and the next command has to tell its own unfinished work from a
user's edit with nothing but the files to go by. `PROJECT.json` lists the
hazards by source line with the properties that cover each.

What makes each component correct:

* compile never destroys a manual edit; when it says there is nothing to do,
  that is so; when it succeeds, output and record agree; after a crash, running
  it again completes the work.
* clean removes only what compile wrote. detect-drift accuses nobody wrongly.
* the change detector hides nothing that it can see, and compiling comes to rest.
* a watcher at rest has compiled every edit.
* saves into the state store are atomic and keep each other's records.
* traceless compile keeps manual edits, refuses only those, and publishes for a
  file the script of that file; what is adopted can be compiled.
* map-deploy and commit-map keep what only the user has written, and go on with
  what they left half done.
* a success that is reported is one: of a command, of triggered pipelines, of
  autogit, of an installed hook; a pool of validators finds its schema in the cache.
* Stop reaches the command that runs; polling ends in time.
* an inlined script runs what bash would have run, and decompile followed by
  compile gives back every script in its place.

## The modules

| module | models | built on |
|---|---|---|
| `OutputTree` | outputs and records; find, migrate and list records; strays; detect-drift | |
| `CompileAll` | runs of compile, their tasks, workers, locks, marker, digests and failures | `OutputTree` |
| `CleanAll` | runs of clean | `OutputTree` |
| `Workspace` | compile, clean and a user together; the properties | `CompileAll`, `CleanAll` |
| `WatchMode` | the watcher's event handler around a run of compile | `CompileAll` |
| `InputChanges` | the input change detector over files that come and go, and removal of stale records | |
| `HashRecords` | abstract: what a state directory promises its writers | |
| `StateStore` | the state directory, its lock file, savers and shred | implements `HashRecords` |
| `Traceless` | adopt, compile and shred over the state directory and the sidecar-free publication | |
| `MapSync` | map-deploy and commit-map over one source and its targets | |
| `PipelineTrigger` | triggering and polling, the clock, GitLab going on meanwhile | |
| `CommandRunner` | the threads of the graphical interface, the event loop and the screens of the terminal one | |
| `CommandLine` | a use of a command from form, menu or command line to its report | |
| `Settings` | the layers a setting comes from | |
| `PrecommitHook` | install and uninstall against hooks of other origin | |
| `Autogit` | five git commands beside a user who works on, by hand and with git | |
| `SourceInlining` | the recursion over sourced files and the pragmas, against what bash runs | |
| `ScriptBlocks` | the items of a script block, inlined and put together again | |
| `RoundTrip` | decompile and compile for six platforms | |
| `Validation` | validate, its pool, the schema cache | |
| `MCWorkspace`, `MCWatch`, `MCStateStore`, `MCTraceless` | constants and symmetry for TLC | |
| `MCTools` | `InputChanges` and the eleven modules from `MapSync` to `Validation`, which share no state: one of them runs in each behavior | |
| `CompileAllProofs` | lemmas about runs and tasks of compile, for the next two | `CompileAll` |
| `WorkspaceProofs` | theorems for any compilation: types, edits, locks, records; then without a pool: skips, drift, rerunning | `Workspace` |
| `WatchProofs`, `StateStoreProofs`, `TracelessProofs` | theorems about the module of that name | |
| `RepositoryProofs` | theorems about `MapSync`, `PrecommitHook`, `Autogit`, `InputChanges`, `RoundTrip` | |
| `CommandProofs` | theorems about `CommandRunner`, `PipelineTrigger`, `Validation`, `CommandLine`, `Settings` | |
| `ToolsProofs` | induction over sequences; theorems about `SourceInlining`, `ScriptBlocks` and the parts of `MCTools` together | the two above |

### Correspondence with the code

*Texts.* A file's text is a pair. `doc` is the data it parses to: for a compiled
text, the revision of its template (with the scripts it inlines) and that of
`global_variables.sh`; otherwise `ManualDoc`, or `CorruptDoc` when it does not
parse. `layout` is all that `yaml_is_same` looks through. The distinction is
needed because compile compares data where clean and detect-drift compare text.

*A run* is a process `p`. `pc[p]` follows `_run_compile_all`: `locked` (has
`compile.lock`), `checked` (did not skip), `cleared` (strays looked at, marker
written), `compiling`, `marking`, and then how it ended. Waiting for the lock is
not a state: a run that times out has changed nothing. A *task* `task[p][f]`
follows `compile_single_file`: `rendered` (text in memory), `check` (lock of the
output held, sibling record migrated), `publish`, `record`, and how it ended.
Reads and writes that other processes can come between are steps of their own;
each `atomic_write_text` is one step. In the pool, `Chunks` are the sets of
templates that `starmap` hands to a worker; sequential compilation has one chunk.
A killed run (`Crash`) loses `compile.lock`, and any subset of its busy workers
survives, as the operating system allows. A killed worker leaves its task `lost`.

*Clean* is `ListPairs`, then for each pair `ComparePair`, `UnlinkOutput`,
`UnlinkHash`, and may die anywhere. *The user* (`UserStep`) is not in the code:
edits of sources, the edits, deletions and damage that the error messages speak
of, each in any state that the run's constants allow.

*Watch mode.* `events` are relevant events not yet delivered, `recent` stands for
`now - _last_run < _debounce`. The window may end at any moment, also while the
compilation runs, since the half second is counted from its start. The
compilation runs inside the handler, so no other event is delivered meanwhile.

*Input change detector.* A file is its stem and its suffixes, a text its words and
whether it has extra white space. `run.at` follows a run of compile: `begun` (marker
written), `read`, `marking`, one step for each file. `compiled`, `raced` and `gone` are
history: what the last completed run had read, what changed while it ran, and
what was deleted with its record left behind.

*State store.* `pc` follows `_save`: the lock file opened, locked, the records
read, then one step that writes, clears the updates and unlocks. A lock belongs
to the opened file, so lock files have generations. `shred` removes one listed
file at a time; a shred that has begun is assumed to reach its end.

*Traceless mode.* A text is the revision of its script and whether a hand laid it
out; what compile publishes has the tool's layout. A *bare* text holds no script and no
variables: adopt extracts nothing from it, writes no uncompiled YAML
(`decompile_all.py:549`) and registers it all the same (620-629). `proc[p].at` follows
`run_traceless_adopt` (`extract`, `rewrite`, `register`, `recompile`, each of which
reads or writes files that others may touch) and `run_traceless_compile` with
`_write_compiled_file_no_sidecar` (`render`, `lock`, `publish`, `record`). The lock
of the output is held from the comparison to the record. A save of the state is
one step, which is what `StateStore` shows of it. `manual`, `blind`, `torn`, `own`,
`scripted` and `damaged` are history variables: they say whose a text is, and no action
of the tool reads them.

*Map.* Files of a directory are independent of each other, so one file stands for
all; its copies and records are per target. `CompareHashes` reads the three
hashes, `CopyFile` copies what is there by then, `RecordHash` writes the hash computed
before. `users` and `halfDone` are history.

*Pipelines.* The clock counts half seconds; a request takes none or one. `Look` is
one query of the loop over pending pipelines, `LastLook` one after the timeout.

*Command runners.* One of the two interfaces is open. `worker[c]` follows
`_execute_command` of `gui.py`, where each use of `current_process` is a step of its own,
since the thread goes through the field and not through a local name. `ReadingFails` is
its `except Exception` while the child lives: the `finally` block clears both fields, and
the child runs on. In `tui.py` the worker has the event loop (`loop`) from
`execute_command` to its end, which is the end of the output or an error in reading it
(`ReadLine`); Cancel, Close and another command are events of that loop. `unread` is
history: the commands whose output could not be read to its end.

*Autogit.* The work tree is the input directory, the output directory and the rest, each
with a text in the work tree, the index, the head and the upstream. The user saves or
removes, stages, commits and pushes at any time. `unpushed` is history: a commit made by
hand, or by a run that ended, is not on the remote.

*The hook.* Besides where `core.hooksPath` leads, a repository may be one whose setting
git follows and the tool does not (`"hooksPath unread"`): set globally or in an included
file, beginning with `~`, or in a `.git/config` that `configparser` refuses and git
accepts (`precommit.py:130-133`).

*Validation.* The cache file of a platform is absent, whole, too old, or cut off; cut off
within a character it is no text (`garbled`), which `_load_schema_from_cache` does not
catch. An answer that breaks off is not caught either (`GetSchemaRaises`). `unsaved` is
history: a schema could not be saved, or a saved one grew too old while the command ran.

*Front ends.* A command line is the set of its flags, and a form the set of
command lines it can produce. `Parse` is the parser and the merge with the
configuration, `Handle` any outcome a handler may have, `Autogit` and `Exit` the way
to the status.

*Inlining, blocks, round trips* are functions of their input. The input grows by
one line, item or slot at a time, so that TLC meets every small one, and the
property compares the function's result with a reference definition: what bash
would run, what the items say, what the document held. Two steps of a GitHub job may have one name,
and where nothing is extracted decompile writes no document (round `unwritten`), as for
Bitbucket and Semaphore. `inline_bash_source` counts
the depth up to `max_depth`; `Inline` and `BashRuns` are functions of the levels of
sourcing that are left.

## The runs

| run | what it shows | result |
|---|---|---|
| `compile` | `CurrentMeansUpToDate`: no skip hides stale output. `NoFalseDrift`: once the marker is gone, output and record that compile wrote agree. `EditsSurvive`: no edit is destroyed, save in the window between a check and the write that rests on it. `OrphansAreExplained`: a record without output, which stops the next compile, is left by nobody but a dying clean, a clean beside a compile or the user | holds, 2.1 M states |
| `pool` | `EditsSurvive` and `PublishedTogether` with workers that outlive their run, over a tree of an older release whose records migrate. `StaleComesFromOrphans`: such workers alone publish text of sources that have changed | holds, 1.1 M states |
| `recovery` | `Converges`: compiling again repairs everything; `RerunCompletes`: no run takes the tool's own output for an edit | holds, 0.3 M states |
| `watch` | `QuietMeansBuilt` and `PatientEditsBuilt` for a user who waits | holds, 0.2 M states |
| `state_store` | `SavesAreAtomic`: `StateStore` implements `HashRecords`; `SavesKeepOthers` | holds, 29 k states |
| `traceless` | `TracelessEditsSurvive`: compile without `--force` loses an edit only in the window between check and write, or if an adopt recorded it and did not extract it (it came between the two reads, or holds no script). `RefusalsAreReal`: it refuses only edits and what an interruption left. `AdoptedIsRenderable`: what was registered with a script can be compiled. `PublishesOwnScript` for files of different directories | holds, 6.1 M states |
| `tools` | the 20 properties below, of twelve parts, and their types | holds, 0.9 M states |
| `skip_after_clean` | `SkipMeansBuilt` | violated |
| `interrupted` | `RerunCompletes` with an edit of the sources after the interruption | violated |
| `watch_fast` | `EveryEditBuilt` for a user who does not wait | violated |
| `shred` | `SavesKeepOthers` with a shred beside a save | violated |
| `shared_scripts` | `PublishesOwnScript` for two files of one directory | violated |

The properties of `tools`, each with the exception that the code forces on it:

| property | says | except |
|---|---|---|
| `SkipsAreExplained` | a skip hides no change of an input file | what the detector cannot see: a deletion, a suffix it does not know, white space, an edit while a run compiles, a file that was left out of a run and put back |
| `Settles` | when edits are over, compiling comes to rest and the marker is gone | |
| `MapEditsSurvive` | a text that only the user has put there is not overwritten | between comparison and copy; where the target has no record |
| `DeploySkipsOnlyEdits` | "modified locally" is said of the user's changes | after a kill or a save of the source between copy and record, which no later deploy repairs |
| `SuccessIsReal` | no failed or canceled pipeline is reported with "All pipelines succeeded" | when the time was up, or it had been waiting for a user: a timeout is no failure to the handler |
| `PollEndsInTime` | polling overshoots the timeout by a round of requests or the shortest sleep, and a last round, at most | |
| `OneCommandInReach` | in the graphical interface one child at a time, and Stop reaches it | when a command is started between the two assignments that end the last one; a child whose output cannot be read |
| `CommandIsOnScreen` | in the terminal interface a command that runs is on the open screen, so no other runs beside it | one whose output cannot be read is left behind |
| `FormsAreUnderstood` | no form makes a command line the parser does not know | |
| `MenuIsComplete` | the menu gives each handler the attributes it reads | init, decompile of a folder, a trigger without variables |
| `ReportIsHonest` | what is reported as done is done, with its autogit | `clean --autogit`, which commits nothing |
| `OneInputDirectory` | compile and the commands about its input look at one directory | with a `[compile]` section, or both environment and file |
| `AutogitSuccessIsReal` | a success has committed, and pushed, what was there | after a commit that was not pushed, by hand or by an earlier run, there is nothing to commit; a configured directory that does not exist is passed over |
| `HookOfOthersSurvives` | a hook of another origin stays | put there after the check |
| `ReportedInstallRuns` | a reported install is this release's hook, executable, where git looks | after an install killed before the mode bits; where git follows a `core.hooksPath` that the tool does not read |
| `RunsLikeBash` | the inlined text is what bash runs | a file sourced twice appears once |
| `PragmasReachOnlyTheirLines` | what no pragma marks is in the text, and what is inlined comes from an unmarked source line | (whether a marked line is kept is left open, see below) |
| `BlockMeansTheSame` | a block has the effects of its items, in order | a shell script with arguments, which loses the first |
| `RoundTripKeeps` | where decompile writes a document, compile gives back each script and each variable | jobs with names alike and steps of one name, of which one script is lost; anchored jobs; CircleCI's object form; a job named global |
| `PrimedCacheServesAll` | no worker of the pool fetches or saves a schema, or turns a file down because of the cache | when a schema could not be saved, or the cache grew too old; with few files there is no priming |

An exception is a place where the code falls short; `PROJECT.json` has most of them
as hazards with their lines.

The five violations are places where the documentation promises more than the
code does:

1. *skip after clean.* `docs/usage/commands.md:233` recommends clean before
   compile "to ensure a fresh build". Compile decides to skip from the input
   digests alone (`compile_all.py:922`), so compile, clean, compile leaves no
   output; `--force` is needed.
2. *interrupted, then edited.* `docs/usage/commands.md:501-502`: "rerunning
   completes the operation". That holds as long as the sources are as they were
   (run `recovery`). If they changed, the regenerated text no longer equals the
   orphaned output, and compile refuses it as a manual edit
   (`compile_all.py:751-755`, `792-808`) until the user deletes it.
3. *watch.* `docs/usage/commands.md:42-43`: "automatically re-compile whenever a
   source file changes". An event within half a second of the start of the last
   compilation is dropped (`watch_files.py:65-67`) and nothing runs later; and
   an edit during a compilation is digested as compiled
   (`input_change_detector.py:204-207`), so even a later event skips.
4. *shred.* `docs/usage/traceless.md:118-119`: parallel workers "do not discard
   each other's hashes". Shred removes `state.lock` without taking it
   (`state_store.py:276`); a saver then creates and locks a new one while
   another still holds the old.
5. *shared scripts.* `docs/usage/traceless.md:70`: traceless compile recompiles
   "every adopted file in place from state-dir sources". The sources of a file go
   to a directory that mirrors its parent only (`decompile_all.py:609`), and
   scripts are named after jobs; adopting a second file of that directory with a
   job of the same name replaces the script of the first, and compile writes it
   into the first file.
The input change detector has three more, which `SkipsAreExplained` leaves out:
`CHANGELOG.md:142` has compile skip "when no source files in the input folder have
changed since last compile", but only files that are there, with a suffix of its
list (which lacks `.bash`), are looked at (`input_change_detector.py:148-158`); the
record of a deleted file stays, so a template that was left out of a compilation
and is put back counts as unchanged, whatever happened to `global_variables.sh`; and
`cleanup_stale_hashes` rebuilds the name of an input from `a.sh.hash` as `a.sh.sh` (line
231) and so removes every record, which no command asks of it yet.

Five more places, without a run of their own, where what is said and what is done differ;
the modules do what the code does, and the properties name them as exceptions or leave
them open:

* a line marked `do-not-inline` is dropped, while `compile_bash_reader.py:302` calls it
  "kept as-is instead of inlined", as does the comment at 234, and
  `docs/CHANGELOG.md:178` says "Prevents inlining"; the test of `scenario13` expects it
  to be dropped;
* a file that held no script when it was adopted is registered without an uncompiled
  YAML (`decompile_all.py:549`, 620-629), and every later compile raises at it, where
  `docs/usage/traceless.md:70` has it recompile every adopted file;
* "Cancel the running command." (`tui.py:1036`): the handler cannot run before the
  worker that reads has ended;
* "honoring `core.hooksPath`" (`precommit.py:143`): not if it is set anywhere but in a
  `.git/config` that `configparser` accepts;
* a schema cache cut within a character, or an answer that breaks off, turns a valid file
  down (`validate_pipeline.py:93`, 71, 242), although both methods mean to go on to the
  next source; and the pool judges every file by the schema of GitLab
  (`validate_all.py:212`).

### Bounds

Two templates, two revisions of every source, and one or two runs at a time.
Two templates are what a partial failure needs, two revisions what a stale
output needs. A run may start again after it has ended, so one process name is
any number of successive runs; two names are needed only where runs overlap,
that is in `pool`. `MaxEdits`, `MaxFaults`, `MaxCleans`, `MaxFailures` and
`MaxShreds` bound what happens around the runs; every violation found, and every
seeded bug in `PROJECT.json`, needs at most two edits and one fault. `recovery`
allows two faults, so that the repair is itself interrupted.

`EditWhen` says when sources may be edited: `"current"` (no marker, no run that
has read its sources), `"interrupted"` (a marker and no such run) and
`"running"`. `compile` and `pool` leave out `"running"`: there, the digest race of
item 3 breaks `CurrentMeansUpToDate`. `recovery` has `"current"` only, because of item 2.

`traceless` has two files, with scripts or without, in different directories (`shared_scripts`: in one), two
processes, two edits, one stop and one shred; each seeded bug needs at most one
edit and one stop. `QuietAdopt` says that nothing else runs while a file is
adopted: adopt takes no lock of the output, and a compile beside it can save its
record over that of adopt and then refuse the text that was adopted. Both runs
set it; of the theorems only `RefusalsStayReal` needs it.

`tools`: two projects, a timeout of 9 and an interval of 6 ticks, so that the last
sleep is cut short and odd; three commands, the least for one to be started while
another's thread ends and a third beside it; two changes of the user's in all areas of
git, one for autogit to commit and one by hand; two
targets, three saves and one kill for the map commands, enough for a file changed in
both targets after a deployment; four lines in three scripts and a depth of two,
so that a file can be sourced along two paths and too deep; three items in a
block, which is text, node, text; three slots in a document, two that collide, be it two steps of one name, and one more; two files and a pool from the second on (`MaxSerial = 1`, five in
the code); two input files of two words, so that one can be left out of a run that
the other causes, three edits of them, which deleting, changing and putting back
need, and one forced run, failure or removal of records (`MaxOthers`).

Symmetry is used in the runs that check safety properties only. The runs `pool`,
`watch`, `watch_fast`, `traceless`, `shared_scripts` and `tools` do not check
deadlock: a killed pool worker leaves its run waiting for ever, as
`multiprocessing.Pool` does; a watcher whose user is content, a repository in
which nothing is adopted and the bounds are spent, a command that has returned
have nothing to do.

### Fairness

`FairSpec` of `Workspace`: each process keeps running (weak fairness of the steps
of a run and of each task), and after a run ends another is started, which is
the user's part in "rerunning completes the operation". Faults and edits are not
fair and are bounded. `ToolsSpec`: the same of the steps of compile in
`InputChanges`, and nothing of the other parts.
`FairSpec` of `WatchMode`: the observer thread delivers events, the handler keeps
running, and time passes. Nothing obliges a user to edit.

## The proofs

All for arbitrary sets of templates, runs, revisions, chunks, writers, keys and
digests, any digest function and any bounds, from the named assumptions in
`OutputTree`, `CompileAll`, `WatchMode`, `Workspace`, `StateStore`, `MapSync`,
`Traceless`, `InputChanges`, `Autogit`, `CommandRunner`, `PipelineTrigger`,
`Validation` and `SourceInlining` (distinct model values, chunks that partition the templates, bounds
that are naturals), all evaluated by TLC in the passing runs. A theorem that
needs more says so in its `ASSUME`, and the text below says why.

### Compile, clean and the user

`WorkspaceProofs`
: *TypeCorrectness*: the types, together with `TaskInv`: only a run that
  compiles, or was killed while compiling, has tasks, it has read the globals,
  and a task past rendering has a compiled text. Without this, the types are
  not inductive, since a task's text ends up in the output.
: *ChecksPrecedeWrites* (`EditInv`): records hold only what the tool wrote, a
  task about to publish found no manual edit when it looked, and clean is about
  to remove a text the tool wrote.
: *ManualEditsSurvive*: `Spec => EditsSurvive`, from `EditInv`. The only step
  that replaces an output is `PublishOutput`, the only one that removes one
  without the user is `UnlinkOutput`; if either meets a manual edit, that edit
  is not the text its check saw.
: *OutputsAreLocked* (`PublishInv`): a task in its critical section owns the
  output's lock, and between its two writes the output is what it wrote unless
  the user or clean came in between.
: *OutputAndRecordAgree*: `Spec => PublishedTogether`, whatever killed runs left
  alive.
: *LiveRunsAreCurrent* (`LiveInv`), *OrphansAlonePublishStale*: `Spec => StaleComesFromOrphans`, with or
  without a pool, if nobody edits while a run compiles. A task belongs to a run that
  compiles or was killed while it did; of the first kind each holds what the sources
  compile to now. It is the wait of `starmap` for all chunks that keeps this true when
  the run ends and edits begin.
: *OrphansStayExplained*: `Spec => OrphansAreExplained`, in the tree of an older release too, where
  clean can meet records in both places and removes one.

The second half of `WorkspaceProofs` assumes `~ Pool`. With a pool, the workers of a
killed run live on beside the next run, and each of these properties can fail.
: *RunsTakeTurns* (`RunInv`): a run that compiles holds `compile.lock` and the
  marker, and no task outlives its run.
: *RunsReadTheSources* (`SourceInv`): what a run has read, and the digests it is
  about to record, are those of the sources. It needs that nobody edits while a
  run compiles (`"running" \notin EditWhen`), which is item 3 above.
: *DigestsAreTrue* (`FreshInv`), *SkippingIsSafe*: `Spec => []CurrentMeansUpToDate`,
  for sources that their digests tell apart; for others the claim is about
  revisions up to their digests, which the detector cannot tell apart either.
  The invariant follows an output through a run: what a task has published comes
  from the sources, and when the marker is removed this holds of every output.
: *DriftIsTheUsers* (`AgreeInv`): `Spec => []NoFalseDrift`, in a tree without records
  of an older release. With one, a migration that fails leaves a record beside
  the output that nobody updates.
: *OutputsAreKnown* (`OwnInv`), *RerunIsNeverRefused*: `Spec => RerunCompletes`, where only
  compile writes outputs (`OnlyCompileWrites`: the user deletes at most, no clean,
  and the sources wait while a run is unfinished). An output whose record is not
  its own is one that the unfinished run would write again, so compile repairs
  the record. Item 2 above is what happens otherwise. Here the tree may be that of
  an older release.

`WatchProofs`
: *WatcherRemembers* (`WatchInv`), *QuietWatcherHasBuilt*: `Spec => []QuietMeansBuilt` for a
  user who waits until the watcher is at rest before an edit and whose every edit
  is noticed (`WaitingUser`), with digests that tell revisions apart. The invariant says
  that an edit that is not built has an event to come, a run that has yet to read
  it, or a run that failed. Item 3 above is a user who does not wait.

### The state directory

`StateStoreProofs`
: *StoreTypes*; *QuietStoreIsLocked*, *OthersRecordsSurvive* and *SavesAreAtomicWhenQuiet*: if no
  shred overlaps a save (`QuietShred`; item 4 above otherwise), `Spec => SavesKeepOthers` and
  `Spec => SavesAreAtomic`. The inductive invariant (`StoreInv`) says that all
  savers have the one existing lock file open, that one of them at most is in
  the critical section, that what it has read is still what is there, and that
  a shred has listed every file.

`TracelessProofs`
: All five properties of `traceless`, for any files, folders, jobs and processes.
  *TracelessTypes* adds to the types that nothing names a revision that does not
  exist: a new edit is then a text that no record and no process holds.
  *TracelessManualEditsSurvive* (`EditsInv`): a record that holds an uncaptured text
  of the user was made by an adopt that had not read it, and what compile has
  accepted without `--force` is such a text or has changed since.
  *AdoptedStaysRenderable* (`RenderableInv`): a process that has read a text with a script has
  put the script, and then the YAML, in their places before it registers them, and
  nothing but a shred takes them away; a text without scripts changes neither.
  Neither needs adopts to run alone.
  *DistinctScriptsStayApart* assumes that no two files of a folder have jobs of one
  name, which `shared_scripts` shows to be needed; *RefusalsStayReal* assumes
  `QuietAdopt`, since a compile beside an adopt may save its record over the adopt's.
  Its invariant says that two processes never write one output, and that an output
  which is not as recorded, or not as a compile left it, is the user's or was left
  so by an interruption.

### Files shared with the user

`RepositoryProofs`
: *MapInvariant*, *DeploySkipsOnlyLocalEdits*: for any number of targets, saves and
  kills, `MapSpec => DeploySkipsOnlyEdits`. The types are not enough: the invariant
  adds that a command under way is at a target, that a target between its copy and
  its record counts as half done, and that every copy that differs from its record
  is the user's or half done (`MarkedIfModified`). It is the last that fails if
  one forgets that the recorded hash is older than the copy.
: *UsersTextsSurvive* (`OwnTextInv`): `MapSpec => MapEditsSurvive`. A text the user has just
  saved is newer than every record and everything a command has seen; what only
  the user has is therefore not what was recorded, and a command about to copy
  over it without `--force` has compared something else or found no record.
: *HookInvariant*, *HooksOfOthersSurvive*, *ReportedInstallsRun*: without `--force`, a
  hook is about to be written only where none was seen and removed only where ours
  was; a hook of ours that is not executable is about to be, or was left half-way;
  what is about to be reported was ours when it was checked. Whether git looks there
  does not follow: a `core.hooksPath` that is not read stays an exception.
: *AutogitInvariant*, *AutogitKeepsItsWord*: work tree, index, head and upstream never run
  ahead of each other in any area, what the directories that exist held at the start is
  staged before the commit (`StartIsStaged`), and a commit that is not on the remote was
  made by hand, was left by a run that ended, or is about to be pushed
  (`CommitsAreKnown`), whatever the user does with git meanwhile.
: *InputsTypes*, *SkipsStayExplained*: for any files and words, however runs fail and
  records are removed. The invariant (`DetectorInv`) ties the records written so
  far to what the run has read (`MarkedAsRead`) and, when the marker is gone, all
  records to what the last completed run had read; a record without its file is
  one of a deleted file.
: *DocumentsComeBack*: `RoundSpec => []RoundTripKeeps`, for documents with any number of
  slots. It rests on `SameFile`: two slots that decompile writes to one file belong
  to jobs with names alike, are steps of one name, or are the document's variables and
  those of a job `global`. The invariant (`RoundInv`) says which slot wrote each file last
  (`LastWrites`) and that exactly the visited slots call theirs.

### Commands that run or are run

`CommandProofs`
: *RunnerInvariant*, *StopReachesTheCommand*, *CommandStaysOnScreen*: for any number of
  commands. One thread at a time counts as running and finds its child in
  `current_process` (`OneThread`, `ChildInReach`), unless a command was started between the
  two assignments that end another; a child that is alive has such a thread, or its
  output could not be read. The event loop of the terminal interface belongs to its
  worker while a child lives whose output can be read (`LoopIsHeld`).
: *TriggerInvariant*, *ReportedSuccessIsReal*, *PollingEndsInTime*: for any number of projects, any
  timeout and interval, the numbers being what the properties are about
  (`ClockIsBounded` says for each place of the loop how late it can be there).
: *ValidationTypes*, *PrimingServesThePool*: for any number of files and any size of the
  pool. No worker starts before task 0 is done (`PoolWaits`), and that task ends with a
  whole schema in the cache, or with the command raising, or in what `unsaved` records
  (`CacheIsPrimed`); kills and reruns keep both.
: *ReportsAreHonest*, *FormsFitTheParser*, *MenuFitsTheHandlers*, *InputDirectoriesAgree*: `CommandLine`
  and `Settings` have no constants, so TLC has met every state; the proofs show
  which facts of the tables (`GuiFormsFit`, `TuiFormsFit`, `MenuFits`) the properties rest on.

### Scripts of any length

`ToolsProofs`
: The models of the inliner and of the blocks are folds and joins over sequences and
  a function that recurses, so their theorems need induction over data. The
  induction theorems of the library take an operator as parameter and cannot be
  cited here; the module derives the same from `NatLessThanWellFounded`, with sets
  in the place of operators: *SetInduction*, *SeqInduction* (a set of sequences that
  has the empty one and all one-item extensions of its members has every sequence)
  and *NatRecursion* (a function with given first value and steps exists). From these
  follow the laws of `FoldLeft` and `FlattenSeq` (*FoldExists*, *FlattenSeqAppend*,
  *FlattenSeqConcat*) and the equations of `Inline` and `BashRuns` (*InlineLaw*,
  *BashLaw*).
: *BlocksKeepTheirMeaning*: `BlockSpec => []BlockMeansTheSame`, for any length and each
  style. What is collected of the pieces, buffer included, joins to the pieces read
  so far (*CollectGathers*); every item alone keeps its effect (*EffectOfItem*).
: *UnmarkedLinesAreKept*: `ScriptSpec => []PragmasReachOnlyTheirLines`, for scripts of any length and
  any `MaxDepth`. After `k` lines of main the flag of a block is on exactly where the
  declarative `InBlock` holds (*BlockSteps*), the flag of the next line likewise
  (*AwaitSteps*), and the text has no command of main from elsewhere, since main is
  among the files processed when another is read (*InlineApart*).
: *InlinedScriptsRunLikeBash*: `ScriptSpec => []RunsLikeBash`. A result is `Served` when its
  text is what bash runs without the files processed before, and exactly the files
  met are added to these. A file is served if those it sources are (*FileServed*, by
  induction over its lines); that outside, lib and main source each other in no
  circle gives the three levels. Reading a file again gives nothing, because all
  its commands have been met: this needs the set of processed files to be handed
  back (`Carry`), and fails without it.

### The commands together

`ToolsProofs`
: *PartsKeepTheirSpecs*: `ToolsSpec` implies the specification of each of its twelve
  parts, so each theorem about a part holds of the system that `tools` checks.
  *ToolsTypes*: `ToolsSpec => []ToolsTypeOK`.

### Only model-checked

The liveness properties `Converges`, `PatientEditsBuilt` and `Settles`, which are outside
the prover's reach. Every other property that a passing run checks is stated by a
theorem; some of these need more than their runs, and say it: those for
compilation without a pool, `QuietShred`, `QuietAdopt`, `WaitingUser`, and files of
a folder whose jobs have different names. `PublishedTogether` and `EditsSurvive` are
proved with a pool, in the tree of an older release too, as `pool` checks them, and
so is `StaleComesFromOrphans`.

## Not modelled

Dry runs, `traceless verify`, `--check` (no state). The text that a script, a
program or an archive becomes when inlined; the judgement of a schema (any
verdict); the values of flags and the layout of widgets. Input files that come and
go are in `InputChanges` only; `CompileAll` has a fixed set. The command line in
the banner of an output. The validation of `state.json`, whose failure is
`SaveFails`. A change of input by white space only is in `InputChanges`; in
`CompileAll`, `Digest` may be any function, but the runs take an injective one.
The generated Makefile of decompile. Detection of the platform by file names. The
single-pass commands: lint, doctor, init, copy2local, show-config, pipeline docs,
check-pins and upgrades report or copy once, over the network or a directory, and
keep nothing that another reads. Two validations at a time, and pool workers that
outlive a killed one and then write to the schema cache. The scripts of Bitbucket and
Semaphore in compile, of which decompile writes no document.

## What is left

1. A shred of the files of older releases that dies half-way; a pool worker whose
   death leaves its run waiting. `PROJECT.json` has both as hazards without a
   property.
2. `inlined` zero: compile drops `global_variables.sh` of a template in which nothing
   else is inlined (`compile_all.py:859-862`).
3. Theorems: the refinement of a compilation that nobody disturbs to one that
   publishes all its outputs at once; the fresh and the drift properties with a
   pool whose workers end with their run.
