# hallfix in TLA+

hallfix is a command-line program that installs, removes, updates, diagnoses
and repairs packages through apt, dnf, pacman and zypper. It is a sequential
Python program, but several invocations may run at once, each may be killed at
any moment, and all share three things nobody locks for them: the packages of
the machine, `state.json` (who installed what) and `history.jsonl` (what was
done). What hallfix may do to a machine - which package `profile remove` takes
away, what `rollback` undoes - rests on those two files. Most of this project
is about whether they can be trusted; the rest is about what `doctor` claims
and `fix` promises, about the files hallfix saves for later, and about the
functions that choose versions, strategies, profiles and managers.

Paths below are relative to `src/hallfix/` of the repository.

## 1. Inventory

| part | state | operations | hard behaviour | what makes it correct |
|---|---|---|---|---|
| mutation commands (`cli/commands/tool.py, profile.py, update.py, rollback.py`) with `Planner`, `SafetyPolicy`, `resolve_confirmation`, `Executor` | plan, results, of one process | plan, confirm, execute, record ownership, append history | stale plans, kills between change and record, failing actions, concurrent processes | removes only what hallfix installed, asks before it changes, leaves a trace |
| maintenance commands (`doctor`, `network doctor`, `fix`, `repair`, `update system`) | `DiagnosticContext`, plan | probe, check, aggregate, look again, repair, record | the machine changes between probes; a second look disagrees with the first | no false alarm, none missed; a repair where one is needed and nowhere else |
| diagnostic checks (`domain/diagnostics`) | none | twenty functions and an aggregation | thresholds, severity masking | the worst finding decides |
| package-manager adapters and lock probes | native lock, lock file | install, remove, refresh, upgrade, repair, is_installed, check_lock | probe races, stale lock files, timeouts, English phrases | each call reports what it did |
| command runner | none | run, kill at the timeout, dry run, sudo | timeout of a child that cannot be killed | every call returns |
| `StateStore` | `state.json`, `state.json.tmp` | load, save, record_installed, record_removed | lost updates, shared temporary file, kills | an atomic map |
| `HistoryStore` | `history.jsonl` | append, list_all, get | torn lines, duplicate ids | ids are sequential and stable; little is lost |
| versions, compatibility, profile diff, recommendation | none | pure functions | padding, epochs, three-valued answers, ties | agree with what the docs say of them |
| `SnapshotStore`, `BackupManager` | `snapshots/*.json`; backups beside a file | save, list_all; backup, restore | kills and failed writes, two calls for one target, two backups in a second | what is there is whole; a restore brings back what was backed up |
| tool and profile registries | YAML files, read once | load, validate | mistakes in files written by hand | all or nothing; what loads can be planned with |
| configuration | `config.toml`, read once | load, merge with defaults, validate | a table that sets some thresholds | `doctor` tells exactly the configured levels apart |
| system detectors | none | one look at the machine each | detectors that do not agree | what is planned can be run |
| logging, redaction, reports, rendering, read-only commands, virtualization | output | print | text processing | not modelled, see section 8 |

The parts call each other in one direction: command -> Planner (reads packages
and `StateStore`) -> SafetyPolicy and prompt -> Executor -> adapter -> runner
-> native command; then Executor -> `StateStore`, command -> `HistoryStore`.
`rollback` reads the history back, `profile remove` and `update tools` the
state, `fix` the result of `doctor`. Every command loads the configuration
first and the registries it needs next, and ends with exit code 2 if either
refuses. There are no threads and no callbacks; all
concurrency is between processes and with the rest of the machine.

`PROJECT.json` lists the hazards of this code at the lines where they bite,
with the property that watches each.

## 2. Modules

| module | models | state |
|---|---|---|
| `Packages` | the contract of the adapters: what install and remove may report and leave | none |
| `Workflow` | the commands that change packages, from the arguments to the history | `pkg`, `store`, `history`; per process `pc`, `cmd`, `todo`, `plan`, `answer`, `res`, `due`, `copy` |
| `Provenance` | `Workflow` with history variables (where a package came from, who wanted it) | adds `native`, `wanted`, `standing` |
| `StateMap` / `StateFile` | the map `StateStore` promises / the system calls it makes | `map`, `asked` / `final`, `tmp` and the writer's descriptor |
| `HistoryLog` | `HistoryStore` | `file`, `next` |
| `PackageOps` / `PackageManager` | a call that takes effect at one moment / probe, lock, native command, timeout, exit status | `pkg`, `asked`, `reply` / `setup` (manager, who is root), `holder`, `file`; per process `pc`, `call`, `reply`, `left`, `failed` |
| `Diagnostics` | the checks of `doctor` as functions of a `DiagnosticContext` | none |
| `Maintenance` | `doctor`, `network doctor`, `fix`, `repair`, `update system` | `machine`, `history`; per process `pc`, `cmd`, `ctx`, `plan`, `answer`, `outcome`, `exit` |
| `SavedFiles` | snapshots, backups and restores, by system call, beside an editor | `file`, `tmp`, `now`; per process `pc`, `job`, `text`, `handle` |
| `Versions`, `Catalog` | `utils/version.py`; `compatibility.py`, `profile_diff.py`, `recommendation.py` | none |
| `Registry` | `yaml_loader.py`, `tool_registry.py`, `profile_registry.py`: which files load, and as what | none |
| `Configuration` | `config/manager.py` and the thresholds' own check | none |
| `Detection` | the package manager and family detectors, and what is planned from both | none |
| `CatalogQuestions` | a question put to any of these | `question` |
| `MC*` | constants for TLC | |
| `*Proofs` | theorems | |

How they fit: `PackageManager` implements `PackageOps`, whose reports are those
of `Packages`, which are the reports `Workflow` lets an action end with: the
details of a native command are checked once and used as one step.
`StateFile` implements `StateMap`, which is an atomic map until two processes
overlap; `Workflow` keeps the load and the save as two steps, so the race
between processes is in it too.
`Maintenance` and `Catalog` stand beside `Workflow`: they share the planner and
executor code, not state. `CatalogQuestions` composes the pure modules where
the code does: a registry that loaded is handed to `Catalog`'s choice of a
strategy and diff, a detected machine to the planner, a merged configuration to
`Diagnostics`. `SavedFiles` shares nothing with the others.

### Workflow and the code

| action | code |
|---|---|
| `Begin`, `BeginRollback` | the command's entry; `update tools` reads the state once, `rollback` the history once |
| `PlanTool` | one tool of `Planner.plan_*`, from the packages and `state.json` as they are then |
| `EndPlan` | no-op and dry run go to the history (a dry-run rollback is only shown), others to the policy |
| `Proceed`, `Decline` | `SafetyPolicy.evaluate_plan` and `resolve_confirmation` |
| `ExecuteInstall`, `ExecuteRemove` | `Executor._execute_one` with the adapter behind it |
| `EndRun`, `LoadState`, `SaveState`, `EndOwnership` | `Executor._record_ownership`: a load and a save for each recorded result |
| `AppendHistory` | `build_action_outcomes` and `HistoryStore.append` |
| `Crash` | a kill, or an exception nobody catches, at any point |
| `Outside` | the user's own package manager |

Abstractions. A tool is one package that is absent, "old" (below
minimum_version) or "new". Tools of a command and actions of a plan are sets,
in any order (duplicate ids in `--tools` are merged). A history record is known
by its position; ids are in `HistoryLog`. `rollback` without an id is one of
the choices of `rollback` with one. Declined plans leave no record, as in the
code. `present_before_hallfix` is always written false and is left out, as is
`record_already_present`, which has no caller. In `Provenance` a tool upgraded
by hallfix keeps its origin.

### PackageManager and the code

A call goes idle -> probe -> (unlock) -> run -> native -> idle. `TryLock` and
`Unlock` are the two halves of `flock_lock_probe`, `LookForFile` is
`existence_lock_probe`, `Start`/`Finishes`/`TimedOut`/`Refused` are the ends of
`SubprocessCommandRunner.run`, `Overrun`/`Raises` the timeout of a `sudo` child,
whose kill is refused: `subprocess.run` then waits for it and the
`PermissionError` ends hallfix. `Native*` describe the managers, which are not
in the repository, only by what the adapters look at: exit status, phrase,
package. `lock.py` says that apt's lock is a flock(2), and the model takes it
at its word; if a version of apt uses another kind of lock, the probe sees less
than modelled and `Refused` covers what follows. The command line only calls
the adapters with dry_run FALSE; their own dry run is modelled as a library
behaviour.

### StateFile, HistoryLog and the code

`OpenTmp`, `WriteTmp` and `Replace` are the system calls behind
`write_text` and `Path.replace`; a descriptor follows its file when it is
renamed. Only kills are modelled, not power loss (there is no fsync), and a
short write of the temporary file is a kill after `OpenTmp` (what `load` makes
of a partial file is what it makes of an empty one). `LoadFails` is `read_text`
raising `OSError` on a file with nothing wrong in it: `load` returns an empty
state, and the change is made to that. The abstract map has a step for it,
`Miss`, so that what it costs is in the promise.
In `HistoryLog` each append leaves a whole line, a body without newline, or a
cut body.

### SavedFiles and the code

| action | code |
|---|---|
| `CallSave`, `CallBackup`, `CallRestore` | `SnapshotStore.save`; `BackupManager.backup` and `restore` with their checks that the source is there |
| `Open`, `SourceGone`, `Write`, `WriteFails` | `write_text`, or `shutil.copy2` inside `_atomic_copy` |
| `ReplaceSave`, `ReplaceCopy`, `TmpGone` | `Path.replace`, or its FileNotFoundError |
| `Unlink` | the `finally` clause of `_atomic_copy`; `save` has none |
| `Kill`, `Edit`, `Tick` | a kill, the file's user, the clock that names backups |

The temporary name is made from the target's, so two calls for one target use
one temporary file; an open descriptor follows its file through renames and
unlinks, as in `StateFile`. One file is backed up. A snapshot's id is eight
random hexadecimal digits; that it is new is assumed. The text of a source is read at
one moment, modes and owners are left out. No command calls `BackupManager`
yet: its model is of a library that is there to be used.

### Maintenance, Catalog and the code

`Detect`, `CheckLock`, `ProbeDns`, `Audit` are the probes of
`build_diagnostic_context`, in its order; what no one changes during a run is
the constant `Host`. The probe of apt's lock sees it only as root (others may
not open its file, which reads as free). Each audit may fail, and then reads as
"not broken". `Run` leaves the packages broken or not whatever the commands
reported: the code does not look again. Only one fix is registered, so `repair`'s loop has at most
one turn. A version text is an optional epoch and a sequence of numbers, which
is all `parse_version` can tell apart.

`Registry` keeps of a file what its checks tell apart: broken, empty, scalar or
a mapping, and in a mapping the fields that something is planned with (id,
strategies, packages, versions); "every other field has its type" is one flag.
The two registries share `Load`, as the code shares the loop. In `Detection` a
machine is the set of programs in the four directories searched, and its
os-release files; `FamilyById` has one id for each family and one it does not
know. `Configuration` keeps thresholds in whole percent, since they are only
compared.

A version command is kept as far as `ToolVerifier` looks at it: not declared,
exit code 127, or anything else with the version it printed, if any.

`docs/tools.md` lines 48-53 explain the support levels differently from
`assess_compatibility`: there DETECTED_ONLY is a system on which nothing
resolves; in the code, its tests and `docs/troubleshooting.md`, one that the
tool does not list although a strategy resolves, and UNSUPPORTED is the one on
which nothing does. The last conjunct of `NativePreferred` states the latter.

Things this code does that no property is about, for the reader:
a tool whose architectures do not
include the machine's is called UNSUPPORTED by `tool info` and planned by `tool
install`; `--language` has the default "en", so the configured language is
never used; the option is not checked against the languages there are; a
`config.toml` or YAML file that is not UTF-8 ends in a traceback rather than in
exit code 2 (`Uncaught` in `Configuration`).

## 3. Runs

Each run asks one question; `PROJECT.json` names its properties.

| run | instance | shows |
|---|---|---|
| `workflow_one` | `Provenance`, one process, two tools and two profiles, plans of mixed risk, `--yes`, `--dry-run`, failures and kills | ownership, history and removals agree with what was done; every change has the consent its plan asks for |
| `workflow_two` | `Workflow`, two racing processes and one native change | two processes invent no claim, remove nothing that is not hallfix's and lose no trace of an install, whatever stale copies they save |
| `workflow_live` | two processes, two tools of medium risk, one without a strategy, localised managers | an execution of root's that was allowed to run ends, while the other process (behind sudo) need not go on |
| `history` | two appenders, together or in turn, any append torn or killed | ids stay sequential until appends overlap; a torn line costs one neighbour; the id of a finished record keeps naming it |
| `statefile` | two writers, in turn or at once, killed at any system call | an atomic map until they overlap; nothing invented after |
| `manager` | any of the four managers (flock for apt, a lock file that may stay for the others), two processes, any of them behind sudo | calls report what they did; with apt "busy" means somebody else has the lock; no lock is left behind; every call of root's comes back |
| `files` | two processes that save, back up and restore beside an editor, killed or failing at any system call | what is there is whole, what was saved is listed, a restore brings back what was backed up, only kills and failed saves leave temporary files |
| `maintenance` | two processes run `doctor`, `network doctor`, `fix`, `repair` and `update system` on a Debian machine that changes under them, with audits that may fail | no false alarm, none missed, a repair is planned only for what was broken and left out only for what was not, runs are recorded, changes have consent |
| `catalog` | pairs of versions, one tool on one system, three profiles on one machine, registry files, machines, configuration files | comparison, choice of strategy, version minimum, diff and recommendation against independent definitions; what loads can be planned with, what is planned can be run, what is configured is what `doctor` does |

Runs that end in a violation, each a disagreement of the code with a sentence
of its docs (quoted under `findings`):

| run | what TLC finds |
|---|---|
| `provenance_shared` | A profile installed over tools that are there is not recorded as their owner, so removing the profile that did install them takes them away from it. (One profile installs a tool, the other one's install finds it there, the first is removed.) |
| `provenance_preexisting` | A tool that was there below its `minimum_version` is upgraded by a profile install, counts as hallfix's from then on, and goes with `profile remove`. |
| `history_torn` | A kill in the middle of an append leaves a line without newline; the next record is glued to it, and a finished operation is missing from `hallfix history`. |

### Where the properties stop

A race, a failed probe or a foreign language takes some promises away. Rather
than leave the trigger out of the model, a history variable or a constant names
it, the property is stated up to it, and what is left of it afterwards is a
property of its own:

| promise | holds until | what is left |
|---|---|---|
| `SequentialIds` | `overlapped`: two processes append at once and both take the same id | `StableNames`, `TearsAreLocal` |
| `NeverTorn`, and the atomic part of `StateMap` | `overlapped`: two writers share `state.json.tmp` | `OnlyRecorded`, `Disturb` of `StateMap` |
| `TracksChanges`, `ClaimsRespected` | a second process: load, change and save are three steps | `NeverAssumed`, `RemovalsAreOurs`, `InstallsAccounted` |
| `NeverAssumed`, `RemovalsAreOurs` | `~EnglishOutput`: "already installed" is recognised by its wording | `RunsEnd`, `ImplementsOps` |
| `BusyMeansBusy` | `LockIsFile`: a lock file says nothing about its owner, who may be dead | `CallsReturn`, `ImplementsOps` |
| `CallsReturn`, `RunsEnd` | a child behind `sudo`, which hallfix may not kill (a process not in `Root`) | `ImplementsOps`, `InstallsAccounted` |
| `ImplementsMap`, and with it `TracksChanges` | a `state.json` that cannot be read when it is loaded: `load` takes any `OSError` for "no entries", and the save that follows forgets them (`blank`, `Miss` of `StateMap`; in `Workflow` a load never fails) | `OnlyRecorded` |
| `FixFitsMachine`, second half | `blind`: an audit of the command failed, which reads as "not broken" | first half, `RunsAreRecorded` |
| `FixFitsMachine`, second half | apt on a distribution that is not detected as Debian's: `fix` plans nothing there and exits 0 (the run is on Debian; the property and its theorem say so) | first half, `RunsAreRecorded` |
| `FixFitsMachine` | the repair itself: nothing is claimed of what commands that exit 0 leave, since nobody audits after them | `RunsAreRecorded` |
| `AlarmsAreReal` | the network is cut or comes back between its probe and the resolver's | `AlarmsAreRaised` |
| `CopiesWhole` | `clashed`: two calls for one target at a time share its temporary file | `NoLeftovers` |
| `RestoreBringsBack` | `clashed`, or `retaken`: a second backup in the same second has taken the first one's name | `CopiesWhole` |
| `MinimumIsEnough` | an epoch in either version: `1:2.43` is read as version 1 | `ComparesByValue` |
| `LoadedIsUsable` | a `minimum_version` without quotes, which YAML takes for a number: it is dropped in silence | the rest of the property |
| `ActionsAreRunnable` | `apt` without `apt-get`; a foreign manager earlier in the list of candidates | every action has an adapter |

An install that upgrades a package is recorded like one that puts it there, in
`state.json` and in the history, so `profile remove` and `rollback` may take
the package away. `RemovalsAreOurs` therefore speaks of tools hallfix put *or
upgraded*, and `PreexistingKept` says what the docs promise of `profile remove`.

## 4. Bounds

| bound | value | why it is enough |
|---|---|---|
| `MaxCommands` of `Workflow` | 3 (2 for liveness) | install, change, then remove or roll back: no property relates more commands |
| `MaxOutside` | 1 with two processes, 0 with one | one native change between any two steps makes a plan stale; with one process what others do can only make a plan's action unnecessary, which reports cover |
| tools, profiles | 2 and 2 with one process, 1 and 2 with two | one tool failing beside one succeeding, one profile sharing with another; the one tool both processes fight over |
| `MaxAppends` | 6 | several torn and whole lines in every order, by two writers |
| `MaxChanges` of `StateFile` | 4 | install, install, remove and one more, each with the other's inside |
| `MaxCommands`, `MaxChanges` of `Maintenance` | 2 and 1 | one command inside another, and one change by others between any two probes |
| `Disks` | 84 and 85 percent beside a full squashfs | both sides of the threshold for an error |
| `PoorHost` | root, no gateway, no name server | milder findings that must not mask the worse one |
| versions | up to three numbers of 0..2, some with an epoch; `Base` 10, `Places` 3 | shorter, equal and longer versions, zero padding. With `Base` above every number and `Places` at least their count a version has a value to compare with; the code knows no such bound, and the theorems hold for any |
| profiles | none, one or three, of up to three tools | different sizes, ties, an id in no registry |
| `MaxSecond`, `MaxCalls`, `MaxEdits` of `SavedFiles` | 2, 4, 2 | backups in the same and in different seconds; backup, edit, backup, restore with a call of the other process inside; an edit before and after a backup |
| registry files | any one tool file, alone or beside a second; one or two profiles | duplicates, a bad file beside a good one, a profile with an id no file defines |
| machines | any subset of the programs searched, up to two os-release files | several managers, derivatives, no release file |
| configuration files | each threshold absent, out of range, on both sides of the others' defaults, or no number | every merge of a table with the defaults |

`PackageManager` has no bound: its state space is finite. Native commands and
managers have no identity beyond what the guards test. Symmetry is used only in
runs without liveness. Workflow, history, state file, saved files and maintenance stop at
their bounds, so their runs do not check deadlock; the others do.

## 5. Fairness

`FairSpec` of `Workflow` is weak fairness, for each process in `Root`, of what
it does by itself once it was allowed to run: executing, recording, appending.
`subprocess.run` kills the child of such a process at the timeout, and nothing
else in an execution waits for anyone; the user at the prompt and the kill are
not fair. `ManagerFairSpec` is weak fairness of the steps of a call, for the
same processes. Nothing is assumed of other managers, which may hold a lock for
ever, nor, in either specification, of processes behind `sudo`, whose child may
go on for ever after `kill` was refused. No other specification states fairness, and no liveness is
claimed of `Maintenance`.

## 6. Proofs

The theorems hold for all values of the constants: any number of processes,
tools, profiles, commands.

- `WorkflowProofs`. `TypeCorrect`, then four invariants, each inductive with
  the type invariant. `Quiet` says that a process outside execution holds no
  results. `Ours` strengthens `NeverAssumed`: not only `store` but every loaded
  copy, every due result, every recorded outcome and every planned removal of a
  rollback or a profile removal is about tools that hallfix changed. The
  property alone is not inductive, because a save writes from a copy and a
  rollback plans from a record. `Consented` keeps the answer with the plan it
  was given to. `AllRecorded` follows a result from the process to the history.
  From these: `OwnershipSound`, `AutomaticRemovalsSound`, `ConsentSound`,
  `AccountingSound`. With one process, `ClaimsSeen` gives `ClaimsSound`.
  `RunsAreBoundedSound` is the part of `RunsEnd` that needs no fairness, and it
  holds for every process, in `Root` or not: a measure (`StepsLeft`) that each step of a run decreases and no step of others
  increases, and an action whose guard holds wherever the run is. A plan of n
  actions takes at most 3n + 3 steps, because each action has one result
  (`OneResultEach`).
- `HistoryLogProofs`, for any number of writers. `LogTypeCorrect`;
  `TearsAreLocalSound` and `StableNamesSound` by how an append changes the
  readable lines; `SequentialIdsSound` with `ChosenIsNext`: until two appends
  overlap, the id a writer holds is the next one.
- `StateFileProofs`, for any number of writers. `StateTypeCorrect`;
  `OnlyRecordedSound`, with all copies, files and pending maps below
  `recorded`; `NeverTornSound` and `StateFileImplementsMap` with `Quiet`: until
  two writers overlap there is no descriptor but the writer's own, the new map
  is the one loaded (`Base`: the old one, or the empty one if it could not be
  read), changed, and what is in the temporary file when it is renamed is that
  map. After a race every step is a `Disturb` of the abstract map.
- `PackageManagerProofs`, for any number of callers. `ManagerTypeCorrect` is
  strengthened with the relation between a call and where it is;
  `LockHeldInUseSound`; `BusyMeansBusySound` for apt; `ManagerImplementsOps`:
  every step of the adapters is a step of `PackageOps` or a stutter.
  `CallsAreBoundedSound`, in the same way, for `CallsReturn`: eight steps at
  most, whoever holds the lock.
- `ProvenanceProofs`: `TracksChangesSound`, with one process. Between commands
  every tool in `standing` is claimed; while one runs it is claimed or its
  result is among those still to be recorded (`Tracked`). That survives a save
  only because the results still due are those `Executor` has left (`DueIsLeft`)
  and because the copy that is saved is what the store still holds
  (`CopyIsFresh`), which is where one process is needed.
  `PreexistingKeptSound` says how far the sentence of the docs goes that
  `provenance_preexisting` refutes: for tools without a `minimum_version`, and
  until packages are changed outside hallfix, profile remove leaves alone what
  was there before, for any number of processes. The invariant follows such a
  tool through state, copies, plans and results (`HandsOff`). Both conditions
  are needed: an upgrade to the minimum makes hallfix the owner, and so does an
  install that finds, and upgrades, what the user installed after it was planned.
- `MaintenanceProofs`, for any number of processes, hosts, disks, thresholds and
  managers. The properties speak of the end of a run, the invariant of its way
  there: each value a process has read was true at some moment of its run, and
  its contrary not all along (`Seen` for disks and network, `Resolved` for the
  resolver, `Needed` for the packages a repair is planned for); `always` holds only problems there are
  now, and `ever` all of them (`Lasting`); a process that has come to a prompt
  has a plan to change something (`Planned`), the outcome of what it ran is in
  the history with its exit code (`RanOnce`), and the exit codes of `doctor`
  follow (`DoctorRight`). `Fixed` follows a command that sees nothing to repair
  from its first audit to its end: where dpkg can be asked and every audit was
  read, the packages were consistent at one of its looks. From these:
  `AlarmsAreRealSound`, `AlarmsAreRaisedSound`, `RunsAreRecordedSound`,
  `ChangesConsentedSound` and `FixFitsMachineSound`, none of them with a
  hypothesis on the host.
- `SavedFilesProofs`, for any number of processes, texts, snapshots and seconds.
  `NoLeftoversSound` needs only types; the others need `FilesInv`: until calls
  for one target overlap there is one process at work on it (`Alone`), which
  has a file open only between `Open` and `Write` (`Closed`), and at the rename
  its temporary file holds what it read (`AtWork`); each name holds nothing or
  something whole, a snapshot's its own (`Names`); and a backup holds the text
  its record was taken of unless its name was taken again (`Records`). From it: `SnapshotsKeptSound`,
  `CopiesWholeSound`, `RestoreBringsBackSound`.
- `CatalogProofs`, for versions of any length, any definitions, profiles,
  files, machines and configurations.
  `VersionsAreOrdered`: the comparison turns with its arguments, is transitive,
  and calls equal exactly the versions that differ in trailing zeros.
  `ComparesByValueSound`: it is the order of the numbers the versions stand for
  in any base above their parts (a difference in one place outweighs all places
  after it, `ValueOfFirstDifference`); `MinimumIsEnoughSound` and
  `MismatchesAreRealSound` follow from it. `NativePreferredSound` rests on
  `ResolveIsBestOfAll` (the loop of `resolve_strategy` ends with the first
  usable strategy of the most trusted kind) and the two tables' agreement;
  `BestIsBestSound` on `BestMatchIsBestOfAll`, the same of the loop over the
  profiles, where shares are compared without dividing (`LargerShare`).
  `LoadedIsUsableSound` takes every entry of a registry back to the one file
  that defines it; `ActionsAreRunnableSound` takes a planned action's manager
  back to the first candidate found on the machine. `EachLevelCountsSound`: for
  every configuration file that is accepted.

  These are facts about loops, which take induction. The induction theorems of
  the library need an operator as a parameter; `Induction` is proved from the
  well-foundedness of the naturals with a *set* in its place, and `FoldsExist`
  and `StepsExist` prove from it that the functions exist that the folds of the
  community modules, and the recursive function `Value`, are defined to be.

Assumptions are the `ASSUME`s of the modules and three hypotheses: that there
is one process, in `ClaimsSound` and `TracksChangesSound`, and that the
registry's tools are finitely many, in `RunsAreBoundedSound`. The `ASSUME`s of `CatalogQuestions` say of each constant what
the code guarantees of the values: a tool that loaded has known strategies with
a package each (which `LoadedIsUsable` shows of the registry), a profile that
loaded has a tool, a manager is one of four or unknown, a directory has
finitely many files and a list in one holds texts, a threshold accepted as a
number is one. That versions have at most `Places` parts below `Base` restricts
nothing: both may be as large as one likes.

Only model-checked: liveness (`RunsEnd`, `CallsReturn`), where the step from the
bounds above to the end of the run takes fairness and ENABLED, which the provers
do not reach; and the three properties of the docs that do not hold. Every safety
property the other runs check is the subject of a theorem.

## 7. Mistakes the properties catch

Definitions with an underscore in their name (`RecordOf_SuccessOnly`,
`OpenTmp_InPlace`, ...) are plausible mistakes in the definition that follows
them. With the mistake in place the named run finds the property violated;
`PROJECT.json` has the list.

## 8. Not modelled, and plan

Not modelled, because it is text in and text out with no state the rest depends
on: reports, rendering, logging and its rotation, redaction (regular
expressions), the parsing of `/proc` and of command output in detectors and
adapters, the kind of virtualization (only shown), the regular expression
that finds a version in what a tool's executable prints, and the read-only commands, which show what the parts above compute.

Order in which the project was built:

1. `Packages`, `Workflow` and its proofs
2. `Provenance` and its proofs
3. `HistoryLog`, `StateMap`, `StateFile` and their proofs
4. `PackageOps`, `PackageManager` and their proofs
5. `Diagnostics`, `Maintenance` and their proofs
6. `Versions`, `Catalog`, `CatalogQuestions`
7. `SavedFiles` and its proofs
8. `Registry`, `Detection`, `Configuration`, and `CatalogProofs`
9. the induction principles of `CatalogProofs`, and with them all its theorems
   about loops; the bounds of runs and calls; `PreexistingKeptSound`

What is left:

- that `Workflow` with one process implements an abstract ledger of ownership,
  in which a command is one step: `TracksChanges` and `ClaimsRespected` say its
  main parts now;
- which commands leave a record and which do not, with `--dry-run` or declined:
  the code has a rule, its docs do not state one to check it against;
- the exit codes of the commands that change packages, as `Maintenance` has
  those of its own;
- the connection of `SavedFiles` to the commands, once one of them makes a
  backup before it changes a file.
