# A verification project for tmake

tmake is a build tool in Jim Tcl: it reads `project.spec`, `build.spec` files and
a rulebase, which declare rules, and brings the targets asked for up to date. All
of its logic is in `src/tmake` (one file) with helpers in `src/lib`. This directory
holds TLA+ models of that logic, the TLC configurations that check them, and
theorems about them that the TLA+ proof system checks.

## 1. Inventory

| component | state | operations | where |
|---|---|---|---|
| driver | the goals, `tmake(cleaning)`, `resetstatus`, `addtargets`, `orphans`, `exitcode` | the loop over the goals, building Load files and reloading, deleting orphans, `tmake-exit` | `make` 313, `add-build-targets` 657, `reset-target-status` 667, `tmake-exit` 1570 |
| dependency engine | `tmake(rulestatus)`, `tmake(current)`, the Tcl call stack | `build`, `build-deps`, `build-sync`, `target-post-build` | 3104-3708 |
| background jobs | `tmake(running)`, `tmake(pending)`, `tmake(maxjobs)`, child processes | `fork-job-if-required`, `add-new-job`, `wait-for-job-slots`, `wait-for-one-job`, `wait-for-background-jobs` | 1561, 2769, 2974-3101 |
| cache and change detection | `tmakecache` (`dephash`, `cmd`, `deps`, `target`, `srchash`, `exec`, `warnings`, `headerscan`), `.makecache` | `load-cache`, `needbuild?`, `calc-file-hash`, `target-post-build`, `write-cache`, `clean-cache` | 705-799, 2580-2713 |
| dynamic dependencies | `depfindcache`, `tmakecache(headerscan)` | `calc-dyndeps`, `header-scan-regexp-recursive`, `find-file`, `find-all-files-on-path` | 2871, 3739-3921 |
| rule base | `tmake(rules)`, `tmake(targets)` | `target`, `parse-rule`, `update-rule` | 2202-2565 |
| defines and scopes | `defines`, the saved scopes | `define`, `define!`, `define?`, `define-append`, `get-define`, `Scope` | 1215-1251, 1948-2091 |
| descriptions | the directory, `tmake(projectfiles)` | `load-build-description`, `process-build-spec-file`, `SubDirs`, `VirtualSubDir`, `Load` | 802-863, 1257-1345 |
| orphans | `tmakecache(generated)` | `get-orphan-targets`, `discard-orphan-targets` | 1347-1407 |
| rulebase.default, options, utilities, output, installation | - | declare rules; parse options; paths, templates, globs; colour, help; copying files | `src/rulebase.default`, `src/lib` |

How they interact. tmake is a single process without threads. The driver loads the
descriptions, which fill the rule base, and calls `build-sync` for each goal.
`build` recurses over the static dependencies (`build-deps`), lets the rule's
`-dyndep` script find dynamic ones (which may build generated headers, again with
`build-sync`), asks the cache whether the target is out of date, and runs the
commands: in tmake itself, or in a forked child if `-j` allows it and a
`build-deps` loop is there to be notified (`notifytarget`). A rule with outstanding
children "waits": `build` returns `waiting` all the way up to a `build-sync`, which
waits for *one* job and calls `build` again from the top. The job's end updates
the statuses (`wait-for-one-job`), and that happens from inside whatever
activation of `build` happens to need a slot, a header, or the end of tmake.

What is hard here:

- the children run concurrently with tmake, and the only record of who waits for
  whom is `rulestatus`, `running` and `pending`, which three procs overwrite;
- early exits (`-q`, `-fatal`, signals, refusal to run as root, recursion) leave
  from deep inside the recursion and still reap children and save the cache;
- the cache is updated in memory before commands run and saved at the end: what
  is on disk after an early exit, a kill or a half-written file must not make the
  next run skip something;
- the same rule is visited many times, and its status is the only thing that keeps
  its commands from running twice.

- the header cache outlives the run that filled it: headers come and go, in front
  of others on the include path or behind them, and are made by rules while they are
  looked up;
- descriptions are programs that change global state while they are read, and may end
  in the middle of a scope, by an error, or because `ifconfig` says so; the rules they
  declare are merged in whatever order the directories are visited.

What makes the components correct: the engine starts commands once, in dependency
order, never more than `maxjobs` of them, ends, and reports failure honestly;
the cache never lets a run skip a target that is not what its rule would
make now, and lets a null build do nothing; the headers found for a file are closed
under inclusion, whether they come from the cache or not; a description sees the
definitions of the scopes it is in, and a rule is the sum of its declarations. The `hazards` of `PROJECT.json` list
each place where this could go wrong.

## 2. Modules

| module | what it is |
|---|---|
| `BuildEngine` | the dependency engine and the background jobs: state, one action per step, properties |
| `Schedule` | the abstract specification: rules become good or bad once, commands start at most once and after what they need |
| `ScheduledEngine` | the refinement mapping from `BuildEngine` to `Schedule` |
| `ScheduleInvariant` | what has to be added to `EngineInvariant` to show that mapping right, when no rule depends on itself |
| `ScheduleProofs` | the proof of the refinement, and of `FailureHasCause` |
| `EngineInvariant` | the inductive invariant of `BuildEngine`, in named parts |
| `ExitInvariant` | what has to be added to show that an exit code of 0 can be trusted |
| `BuildEngineProofs` | theorems about `BuildEngine` and their proofs |
| `CycleInvariant`, `CycleProofs` | the invariant, and the proofs, of what happens to rules that depend on themselves |
| `BuildEngineMC` | projects for TLC |
| `Incremental` | `BuildEngine` composed with the cache and the files, over several runs of tmake |
| `IncrementalInvariant` | its inductive invariant, in named parts, and where the cache can be trusted |
| `IncrementalProofs` | theorems about `Incremental` and their proofs |
| `IncrementalMC` | projects for TLC |
| `Driver` | proc `make`: targets, Load files and reloading, cleaning, orphans, added targets |
| `DriverInvariant` | the inductive invariant of `Driver`, in named parts |
| `DriverProofs` | theorems about `Driver` and their proofs |
| `DriverMC` | projects for TLC |
| `DepScan` | the recursive scan for headers with its two caches, over edits and several runs |
| `DepScanInvariant` | the inductive invariant of `DepScan`, in named parts |
| `DepScanProofs` | theorems about `DepScan` and their proofs |
| `DepScanMC` | a project for TLC |
| `RuleBase` | `target` and `parse-rule` as operators on the rule base |
| `Descriptions` | the reading of `project.spec` and the `build.spec` files, over `RuleBase` |
| `DescriptionsInvariant` | the inductive invariant of `Descriptions`, in named parts |
| `DescriptionsProofs` | theorems about `Descriptions` and their proofs |
| `DescriptionsMC` | a project for TLC |
| `RecursionProofs` | lemmas about functions defined by recursion, for the proofs of `Descriptions` and `Driver` |

`ScheduledEngine` extends `BuildEngine` with an instance of `Schedule`; `Incremental` extends
`BuildEngine` and conjoins the cache to each of its actions; `Descriptions` extends
`RuleBase`. `Driver` does not compose with `BuildEngine`: it takes from it what `Schedule`
promises. `DepScan` stands on the other side of the engine: where `BuildEngine` has a
fixed list of scanned dependencies (`Scan`), `DepScan` says how that list comes about.

### BuildEngine

State. `status` is `tmake(rulestatus)`; `running`, `pending`, `exitcode`, `isroot` are
the members of `tmake` of those names; `child[r]` is what the forked child of `r`
has done (nothing, runs, ended); `exists[r]` says whether all target files of the
rule are there. The Tcl stack is `act` and `cur`: an activation of `build` per rule
suffices because `build` marks the rule "checking" before it recurses and refuses
to enter it again; `act[Main]` is proc `make`. An activation has a program counter
and the local variables of `build` and `build-deps`: the rest of the list being
walked (`todo`), the dynamic dependencies found (`dyn`), the status to return
(`st`), whether dependencies were outstanding or failed (`wait`, `bad`, the counters
`count` of `build-deps`), the caller (`by`) and the `notifytarget` (`notify`).

Actions and code:

| action | code |
|---|---|
| `NextGoal` | the loop head of `make` (516) |
| `BuildKnown`, `BuildRecursive`, `BuildEnter` | a call of `build`: the answers before the rule is entered (3283-3323), "Recursive definition" (3318), entering (3332-3371) |
| `DepsDone`, `ScanDone` | the end of the two `build-deps` loops (3244-3266) and of `calc-dyndeps` |
| `HashError`, `Decide` | `calc-deplist-hash` of a file that is not there; the decision, and the refusal to run as root |
| `SlotWait`, `Fork` | `wait-for-job-slots`, `add-new-job` in the parent |
| `RunSync` | the commands in tmake itself with `target-post-build` and the tests after it |
| `Return` | `set-rule-status` at the end of `build`, and what the caller does with the answer (`AnswerDeps`, `AnswerMain`, `AnswerScan`) |
| `SyncWait` | `build-sync` waiting for a job |
| `ExitReap`, `Exit` | `tmake-exit` |
| `ChildExit`, `Signal` | a child ends; SIGINT or SIGTERM |

`Reap(j)` is `wait-for-one-job` with its `target-post-build`; `SlotWait`, `SyncWait` and
`ExitReap` are the three places that call it. Commands end in one of three ways:
"ok", "fail" (with a message), "quiet" (without one: the child was killed, or
`SEPJOBIO` is 0). `wait-for-one-job` also gives up when `wait` is interrupted (2978-2981): in
`tmake-exit` that ends the loop with jobs still running (`WaitOver`), which are left
behind; elsewhere its caller comes back and waits again. Whether an existing target is out of date is left open (`Decide`
may say either), so that what is shown of the engine does not depend on the cache.

### Incremental

Adds what the decision rests on, for rules without `-dyndep` (`NoDyndeps`). Files have a count of changes for a time stamp;
`dephash` and `cmd` are the members of `tmakecache`, `disk` is `.makecache`. Each
action of the engine is conjoined with what the code does to the cache at that
point: `IDecide` computes the decision and stores the new hash (`needbuild?`),
`PostCache` is the cache part of `target-post-build`, `IExit` is `write-cache`. The
history variables `made` and `reads` say what a target was really made from and
what running commands have read. Sources are edited at any time; commands are
edited between runs. `Faults` names what else a behaviour may have, and each
behaviour has one of them: targets deleted between runs, or a kill at any time, also
while the cache is being written.

### Driver

What proc `make` does around the engine. A call of `build-sync` is modelled by what
`Schedule` says of it: rules settle one by one after what they need, here (`RunHere`)
or in a child (`Fork`, `Reap`), and a rule may fail while jobs below another
dependency still run (`FailDeps`), as they do after `wait-for-one-job` marks it failed.
`pc` is the place in `make`: at the head of the loop, in the loop over the Load files,
building the target itself, in `tmake-exit`. `conf` is what the Load files contain
and `loaded` what they contained when the description was read, which decides what
is declared (`Declared`); `cached` is `tmakecache(file)`.

A reload changes rules in two ways: in what they depend on, and in their commands, which may use
variables that a Load file defines (or get them by `-getvars`, 2542-2548). The texts of commands are not modelled,
but which Load files they depend on is: `Commands[r][t]` stands for the commands of `r` when the Load
files contain `t`. The cache has what was built last: `cmd` is `tmakecache(cmd)`, `hashed` the
dependencies that `tmakecache(dephash)` lists for a rule, and `stale` the rules for which one of
the hashes in it is not that of the file. A rule is up to date when all three agree with the
description that is loaded (`Unchanged`, 3409-3484); `needbuild?` stores the dependencies before the commands
run (`StoreHash`), `target-post-build` the commands after (`Make`), and a file that is made puts those that depend on it
out of date (`Dependents`).

| action | code |
|---|---|
| `NextTarget`, `LoopDone` | the head of the loop over the targets (516-525) |
| `LoadPlain`, `LoadAnswer`, `LoadFails` | the loop over `tmake(projfiles)` (538-557) |
| `Reload`, `GiveUp` | restoring `tmake`, reading the descriptions, the limit (560-577) |
| `DeleteOrphans` | `do-delete-orphans [get-orphan-targets]` (584-585) |
| `GoalBuilt`, `GoalFails` | the rest of the turn (587-624): statuses, added targets |
| `StrayEnds` | a child that the reload has made tmake forget ends ("Ignoring unknown pid", 3044); it may have made its file, a Load file perhaps |

The dependencies of a rule are those of `Deps` that the loaded description declares. The
commands of projects are external: they may write Load files (`EditConf`), add
targets and ask for a reset.

### DepScan

What `header-scan-regexp-recursive` does for a rule with `-dyndep`. `files` and `mtime` are
the file system (a path is its own uuid, a time stamp the number of changes so far);
`findcache` is `tmake(depfindcache)`, a function from pairs of a name and an include path
to what `find-file` answered, `headerscan` the member of `tmakecache` of that name: for each
input a stamp, the headers, and how each name resolved. `pc` is the place in the proc:
collecting include paths from the cached results, verifying them, or scanning. Its locals
are `file`, `stamp`, `incpaths`, `queue` (`toscan` and `newscan`), `rest` (what is left of the
loop over the matches), `deps` and `results`. `find` is a call of `find-file` that is under
way: the directories left to look in, and what was found. `answer` is what the last scan
returned, with `how` to tell a cached answer from a new one. `dirty` says whether something has marked the cache
dirty, without which it is not saved: `Rescan` drops the entry of the file without marking it (3876).
`NameOf` is the name that reads like the path of a file: the input itself counts as scanned (3884), by that name.

| action | code |
|---|---|
| `StartScan` | the call, the stamp and the test of the cached one (3818-3850) |
| `GatherPaths` | the loop over the cached results that collects include paths (3851-3855) |
| `FindFile`, `FindOnPath`, `BuildTarget` | `find-file`, and `find-all-files-on-path` directory by directory (3739-3804): a header that is a target is built there and then, and may fail, after which it is gone (`target-post-build`) or, when only a dependency of it failed, still there |
| `VerifyName` | a cached name is looked up again and compared; the first difference drops the entry (3858-3878) |
| `SkipName`, `ScanName`, `TakeMatch` | the scan proper (3885-3912) |
| `ReturnCached`, `ReturnScanned` | the two ends; the second stores the entry |
| `Edit` | the user, or the commands of a rule, change, make or remove a file |
| `NextRun`, `Stop` | tmake ends, or is stopped in the middle of a scan, and is run again, after the first perhaps with other include paths. A stop saves the cache without the entry that is being scanned for, or, if nothing is dirty, does not save it |

The actions are the places between which a file may change: one file is looked at in
each of them. `file`, `stamp` and `incpaths` are set together in `StartScan`.

### RuleBase and Descriptions

`RuleBase` has no state: `ParseRule`, `Identical`, `Merge`, `Valid` and `Target` are what
`parse-rule`, `target` and `update-rule` (2202-2565) do to a rule base that is a function from
the targets known. `-do`, `-add`, `-inputs`, `-depends` and `-phony` stand for the options, which
are merged in one of these ways.

`Descriptions` reads a project. What a description contains is not fixed: at each point
any of the commands may come next, up to `MaxCommands`, so that a run is about all
projects with so many commands. `Projects` names which commands go together. A value is
the list of the scopes that have contributed to it, which is enough to see whose
definition is in force. `open` is the stack of descriptions and scopes that are being read, with the
`defines` and the local directory that each has saved; `frame` are the variables
of stack frame #1, which `define-var` and `tmake-reset-defines` keep equal to `defines`.

| action | code |
|---|---|
| `Define`, `DefineFixed`, `DefineDefault`, `DefineAppend` | `define`, `define!`, `define?`, `define-append` (1948-2091) |
| `OpenScope`, `CloseScope` | `Scope` before and after its script, with `tmake-reset-defines` (1215-1251) |
| `ReturnFromScope` | `return` in the script, which ends `Scope` without restoring anything |
| `VirtualSubDir`, `EpilogVirtual` | `VirtualSubDir` (1321-1341) |
| `ReadSpec`, `EndDescription`, `EpilogFails`, `EpilogSpec` | `load-build-description` and `process-build-spec-file` (802-863, 1257-1311): the prolog, the end of a description in one of three ways (its end, `ifconfig`, an error), the epilog and the directories below |
| `SubDirs`, `AutoSubDirs` | the commands of that name |
| `Declare` | `target` with one of `Decls` |
| `Finish` | the last check of `load-build-description` (850-862) |

### Schedule and the refinement

`Schedule` knows nothing of jobs, recursion or waiting: a rule is idle, busy, good or
bad. `ScheduledEngine!Phase` maps a rule that is on the stack to idle (whatever
`wait-for-one-job` writes into its status meanwhile) until its commands run, and
then to what `build` is about to return. The runs check that every behaviour of
the engine is one of `Schedule` (`ImplementsSchedule`), also with cycles; section 4 proves
it for projects of any size in which no rule depends on itself.

## 3. Runs

| run | question | instance |
|---|---|---|
| `engine_jobs` | are all interleavings with children safe, do they end, do they implement `Schedule`; is a cycle found, and only a real one | 8 rules, 2 jobs; a generated header found by the scan of an object, whose generator has to be built first; next to it a rule that depends on itself and a cycle that only a scan closes; a rule that is not forked, one with `-finally`, two that may not make their target; three command lines; all outcomes |
| `engine_quickstop` | do the early exits leave a consistent state and an honest exit code, and do they end, with every job accounted for, also when a signal interrupts the last wait | four rules that compete for two slots, one of them below a chain of two, with `-q`, a `-fatal` rule, a missing source file, signals, and tmake run by root |
| `inc_jobs` | does the cache skip only what is right; does a null build start nothing | 3 rules over one source file, one of them not forked, 2 jobs, 3 runs, edits of the source and of a rule's commands, `-finally`, a silent failure to make a target; either targets deleted between runs, or a kill at any point |
| `dep_scan` | are the headers found closed under inclusion, also when they come from the cache; are generated ones made first; does the cache settle | two rules that ask for one file; a header in either of two directories, one that a rule makes and that may stand before or behind two others; a name that reads like the input; two include paths; two changes of any kind |
| `spec_files` | are definitions those of the open scopes, does every directory get read, is a rule the sum of its declarations | four directories and two virtual ones, any four commands |
| `driver` | are targets built, and orphans deleted, by the descriptions that are current; does a reload or a cleaning leave a stale status or lose a job; does tmake end | three Load files, one written by a project rule and one below a job and a rule that is not forked and whose commands use a variable of the first; a target that only one content of a Load file declares; `tmake all clean all`, a rule that adds `all` and resets, `--force`, a Load file that never settles |
| `finding_*` | six disagreements between the code and what it says of itself | the smallest projects that show them |

Bounds and why they suffice. Two jobs are the least number at which jobs run next
to each other, next to commands in tmake itself, and at which a third has to wait
for a slot; six rules are enough for two independent jobs below a rule, a job
below a scan, and a rule that reports to another that is itself waiting, and the two
of the cycles share the library with them, so that both are entered while jobs run. Three
runs are one to fill the cache, one that is disturbed and one that suffers for it.
`MaxVer`, `MaxText` bound the edits of each source and each rule; an edit is only ever
compared for equality with what is cached, so one change of each is enough to
make the cache wrong. Deadlock is checked in every run: a process that is gone
stutters (`Exited`, `Gone`).

In `dep_scan` `MaxChanges` is two: a change after the entry of the cache was made and
another one that hides it, or one edit and the making of the header; the entries are
compared with what is there, so that a third adds nothing that a theorem does not say
(section 4). `Trees` are all the trees in which the headers that the
edits bring into play are not there yet.

In `spec_files` a scope in a scope, a definition in the inner one and one after it take four
commands, as do the four kinds of declarations of one rule in all their orders (`-do`,
another `-do`, `-add`, neither).

In `driver` one job is enough to have something running when another dependency
fails. `Trees` and `Texts` bound what earlier runs have left: everything built but the target that is only
declared sometimes (cleaning leads to nothing built), and one content. The limit of five reloads is the one of the code.

Fairness (`FairSpec`): tmake itself never stops being scheduled, and every command
ends. Nothing is assumed of signals or of the order in which children end.
Without the second part a command that never ends would keep tmake from ending,
which no build tool can help.

`FairSpec` of `Driver` is the same: tmake goes on, and the jobs it waits for end; nothing
is assumed of children that it has forgotten.

`FairSpec` of `DepScan`: tmake goes on with a scan it has begun, asks for each rule with
`-dyndep` in a run, and is run again when it has. Edits and stops are not required, and are
bounded, so `Settles` speaks of what happens when the user leaves the files alone. The safety
properties hold without fairness.

`NullBuild` is about rules without `-dyndep`, as all of `Incremental` is. With one the code may build something in
a run after nothing has changed: verification in the second run searches the directories of the headers found by the first
(3851-3874), which may have a header that the first did not look for there; the list of dynamic dependencies then differs
from the cached one (3390) and the target is made again.

What the violations show is recorded in `PROJECT.json` under `findings`:

- `finding_missing_target`: a rule whose commands succeed without making the target
  fails in `target-post-build`, but `build` overwrites that with "built" (3704), and the
  commands of a phony dependent run without the file. A non-phony one ends in an
  error when it hashes the missing file (`HashError`).
- `finding_quiet_failure`: `tmake -q` says "Targets failed to build" and exits with 0
  when the failed child left no message (3039).
- `finding_fatal`: `-fatal` does nothing when the rule runs in the background (3038).
- `finding_signal`: after ^C during commands that tmake runs itself the new
  dependency hash is saved although the commands did not finish, and the next
  run takes the old target as up to date (3641). The exit of `-q` while a rule waits
  for a slot and the refusal to run commands as root have the same cause; the
  passing runs of `Incremental` therefore leave out signals, `-q` and root.
- `finding_reload`: `tmake default all` of README.md 697-713, where the commands of
  `default` write a file that is only loaded: nothing makes tmake read it again, and
  `all` is built with the old configuration.

- `finding_virtual_error`: `VirtualSubDir` ignores an error in its description (1332): what
  follows it there is not read, and tmake goes on and succeeds.

What properties excuse. Some properties are stated only where the code keeps them; each
condition names a case in which the program does go wrong, but of which no
document of the repository speaks:

- `Unique` in `CachedComplete` and `Settles`: a name that was found in several
  directories. The cached 4-tuples are walked three at a time (3852), so that only the
  directory of the first match is sure to be searched for the headers it includes.
- `Alone` in `Settles`: rules with different include paths for one file share its entry and
  replace it in turn.
- `escaped` in `LexicalScoping` and `InPlace`: a scope that `ifconfig`, `return` or an error leaves is
  not undone before the description ends. The epilog then runs in the directory of the
  scope, and may fail for it.
- `fixed = Replay.fixed` in `LexicalScoping`: `define!` in a scope or a subdirectory fixes the variable for
  the rest of the project.
- `nested` in `EntersAll`: `SubDirs` below the top directory collects names relative to
  the top, which are compared with bare names of subdirectories. `SubDirs b` in `a/build.spec` leaves
  `a/b` unread and reads `b` twice.
- In `CommandsKept` no declaration with commands comes before the first `-do`: those given by `-add`
  before it are lost.
- `exitcode = 0` in `CycleNeverBuilt`, for cycles that a scan closes. `loop` has a scan that finds
  `mid`, and `mid` depends on a library and on `loop`. When a job of the library fails while `mid` is
  on the stack, `wait-for-one-job` overwrites its "checking" with "failed"; the scan of `loop`, which asks for
  `mid` again, gets that answer instead of a recursion, drops the header, and `loop` is built.
  The error of the library has been reported by then, and tmake exits with 1.

- `NameOf` in `Closed` and `CachedComplete`: a name in an `#include` that reads like the path of the input from the top
  is never looked up (3884), wherever the include path has a file of that name.
- `unsettled` and `loadfailed` in `Stabilises`, and the condition `LoadsSettle` of its proof: a Load file that is
  always out of date is built in every pass. So is one whose commands use a variable that it defines with a
  new value every time, and one whose commands use a variable of another Load file is built again after each
  reload that changes it (2542-2548, 3463-3479): with a cycle of such uses tmake ends at the limit of
  five reloads, though no rule is "always out of date" by itself.
- `OwnLoads` in `GoalsCurrent` and `OrphansOnly`: once a Load file has failed, a reload may forget a job that
  makes another one (567, 3044). When it ends nothing looks at the file again, and the target is built, with
  exit code 0, by a description that is not the one on disk.

A last one is excused in `GoalsCurrent`, `OrphansOnly` and
`JobsKept` rather than recorded by a run of its own: a Load file whose commands report
an error ends only the inner loop (552). The orphans of the stale description are
still deleted, the target is still built, and if another Load file was built
before, the reload forgets the jobs that are running and the error.

## 4. Proofs

`BuildEngineProofs` proves, for any set of rules, any dependencies, scans, goals and
options and any number of jobs (assumption `EngineAssumption` of `BuildEngine`: types,
finitely many rules, no job limit of 0, and no file rule that depends on a phony
one, which `load-build-description` 850-862 enforces):

- `Invariance`: `Spec => []IInv`;
- from it `TypeCorrect`, `JobsAreAccounted`, `NotifyTargetsWait`, `RunsReady`, `StartsOnce`,
  `SettledIsFinal` (an action property) and `SlotsBound`.

The invariant. None of the properties is inductive: that a rule is ready when its
commands run depends on what its loop has remembered about dependencies whose
status has changed since, and that `wait-for-one-job` does no harm depends on where
on the stack the rule that it writes to is. `IInv` (module `EngineInvariant`) says:

- `FrameOK`: the activations form a stack. Each was called for the head of its
  caller's list, only `cur` is outside of a loop, and `notify` is the caller exactly
  when that is in a `build-deps` loop;
- `StatusOK`: a rule on the stack is "checking", or "failed" because a job it waits
  for has failed; only a rule about to return can be "running" or "built", and then
  `build` returns the same;
- `LoopOK`: what a loop has gone through is settled, or counted as outstanding or
  failed; a rule that is past its loops, or has a job, has only ready dependencies;
- `JobOK`: a rule that a job reports to has it among its dependencies, and, while
  on the stack, is still in its first loop with the job ahead or counted as
  outstanding, or is about to return "waiting";
- `PendingOK`: `pending` is at least the number of jobs that report to a rule. It
  may be more, since it is not decremented for failed jobs; at least is what keeps
  the rule from being woken early;
- `StartedOK`: after the commands have been started the status keeps `build` from
  entering the rule again.

The proof has one lemma per action; three lemmas carry most of it: `CurStep` (a step that changes
only the innermost activation), `ReapStep` (a job is reaped, from wherever) and
`StartedStep` (commands start). `AnswerEffect` and `ReapEffect` first reduce what the
actions do to what the invariant can tell.

`ScheduleProofs` proves, under the same assumption and one more (`Acyclic`: every non-empty set
of rules has one that needs no other of the set, by its dependencies or by its scan),

- `ScheduleInvariance`: `Spec => [](IInv /\ SInv)`;
- `EngineFollowsSchedule`: `Spec => ImplementsSchedule`, the refinement;
- `FailuresHaveCauses`: `Spec => []FailureHasCause`.

`Acyclic` is what tmake demands: with a cycle it stops with "Recursive definition". It does
so only on meeting a rule that is "checking"; one that `wait-for-one-job` has marked "failed" while
it is on the stack answers "failed" to the cycle instead, and the rule that gets this
answer fails with a dependency that `Schedule` still sees as idle. A rank of the rules is not needed:
the rules on the stack, all but `cur` of which have called one of them, would be a set that
contradicts `Acyclic` if one of them were called again (`CalleesIdle`).

`SInv` (module `ScheduleInvariant`) adds to `IInv`:

- `CalledOK`: the stack has no gaps, which that argument needs;
- `ScanningOK`: a scan runs after dependencies that are all ready, and calls what it has found;
- `CauseOK`: a rule that failed without having been started has a dependency that failed for
  good, from the moment the loop remembers it;
- `ForkedOK`, `SlotsOK`: the job of a rule about to return reports to its caller, and
  with one slot there are no jobs, so that `Schedule` never sees more than `Width` rules busy.

A step of the schedule is a change of one phase, or of two when a job fails together with the
rule that waits for it. `InnerStep` shows that steps of `cur` change no other phase, `ReapSeen` the
same for jobs, from wherever they are reaped.

`BuildEngineProofs` also proves, for any projects, with cycles or without,

- `ExitInvariance`: `Spec => [](IInv /\ XInv)`;
- `ExitIsHonest`: `Spec => []HonestExit`.

The assumption `FailuresReported` says that with `-q` no job fails without a message: `finding_quiet_failure`
is what happens otherwise. Without `-q` such a job may fail, and is reported when its rule is
asked for again; that nobody forgets to ask is what the theorem is about. The invariant `XInv` (module
`ExitInvariant`) looks at a tmake that has reported nothing (`Clean`): a rule that has gone
through its loops has dependencies, and headers found by its scan, that are all settled
(`ThroughOK`), and so has make with the goals that it dropped from its list (`GoalsOK`). `TouchedOK` bounds
what may have a status at all: `Below` is the intersection of the sets of rules that have the goals and, with
a rule, what it needs. When the list of goals is empty the settled rules are such a set, so
that no rule is failed, waiting or running (`AllDone`); everything else that leads
to an exit has a code other than 0.

`CycleProofs` proves, for any projects and whatever the jobs do to the statuses meanwhile,

- `CycleInvariance`: `Spec => [](IInv /\ XInv /\ CInv)`;
- `RecursionReal`: `Spec => []RecursionIsReal`, that "Recursive definition" is never reported of a rule
  that something else has marked "checking";
- `CyclesNotBuilt`: `Spec => []CycleNeverBuilt`.

`OnCycle(E)` are the rules that can be reached from themselves: those in every set that is closed under
the edges `E` and has their successors. `CInv` (module `CycleInvariant`) says that the stack is one path
(`StackOK`: a set of activations that only `cur` leads out of has `cur`), so that the rule which
is called again can be reached from itself; and that no rule on a cycle is through with its dependencies
(`CyclesOK`). A rule that is through has settled dependencies (`ThroughOK` of `XInv`, or
`LoopOK` for the static ones, which does not depend on the exit code), one of which is on the cycle as well,
and would be through with its own.

`IncrementalProofs` proves, for any projects without `-dyndep`, edits of sources and commands at any time the model has them,
any number of runs, and targets deleted between runs or a kill at any point,

- `CacheInvariance`: `ISpec => [](IInv /\ XInv /\ KInv)`;
- from it `SkipIsSound` (`SkipSound`), `BuildsRight` (`BuiltRight`) and `NullBuilds` (`NullBuild`),

under the assumption `CacheSafe`, which names where the cache of tmake can be trusted at all. Its first part is
the scope of the module (`NoDyndeps`: dynamic dependencies are hashed with the others, and their list is compared with the
one in the cache, 3376-3420, which `RuleDeps` and `Hash` leave out); TLC finds `SkipSound` violated when any of the others is
dropped:

- no signals (`finding_signal`), no refusal to run commands as root, and `-q` with one job only: each is a way of
  leaving tmake when `needbuild?` has stored the hash of dependencies whose commands have not finished;
- where tmake may be killed, commands that may succeed without leaving their target have dependencies.
  Otherwise nothing is compared but the commands, which the cache knows from the run in which the target was
  missing, and a part of the target that a kill leaves is taken for the whole.

The invariant `KInv` (module `IncrementalInvariant`) says in one line (`KnownOK`) that a target which
the cache in memory knows as it is, and whose commands do not run, was made from what it would be made from
now. What it takes for that:

- `PastOK`: nothing that is cached is from the future, so that an edit makes a difference;
- `ChildOK`: commands in a child have read what the cache says, unless the cache is behind already:
  this is where an edit between the decision and the end of the commands is noticed (`needbuild?` stores the
  hash before, `target-post-build` the commands after);
- `SavedOK`, `KillOK`: the same of the cache on the disk, at the end, or at any time if tmake may be killed.
  A target that is being made, or is gone, is not known to the cache on the disk, since
  something about it has changed that is only saved at the end;
- `SettledOK`, `DoneOK`, `NullOK`: as long as nothing was edited and nothing reported, rules that are
  settled are known as they are; hence all that the goals need, by the argument of `ExitIsHonest` (`Below`),
  when tmake exits with 0; hence there is nothing to do in the next run.

`DescriptionsProofs` proves, for any directories, virtual directories, variables and declarations and any number of
commands in any order (assumption `DescriptionsAssumption`: types, and that a name and the directory it is in determine
a directory),

- `DescriptionsInvariance`: `Spec => []IInv`;
- from it `DescriptionsType` (`TypeOK`), `ScopingLexical` (`LexicalScoping`), `CommandsInPlace` (`InPlace`), `AllEntered`
  (`EntersAll`), `DependenciesKept` (`DependsKept`) and `CommandsAreKept` (`CommandsKept`).

The invariant (module `DescriptionsInvariant`):

- `NestingOK`, `IdsOK`: what may be open in what, and that ids grow with the nesting;
- `PlaceOK`: what a scope has saved of the directory is that of the scope around it;
- `LogOK`: the commands that count are those of what is open; there is a point in their list
  before which all are older than a scope, and the definitions saved by it are what those have done (`Agree`),
  up to the variables that were fixed since. So leaving a scope, which cuts the list there and restores what was
  saved, makes the two agree again, however much was nested;
- `TopFirst`, `WalkOK`: the directories that are due are being read or will be; those named by `SubDirs` wait until the
  `build.spec` of the top directory ends;
- `RulesOK`: a rule is made of its declarations (`MadeOf`).

`Replay`, `Added` and `Those` are recursive functions over lists. The induction theorems of the library are out of the
provers' reach, since they take an operator as a parameter; `RecursionProofs` states what is needed with sets and functions
in its place. A set of numbers has a least member (`LeastNat`), so a property of numbers holds if its
counterexamples, as a set, cannot have one (`Induction`); the step of a recursion is a function
(`Recursive`), of which it is shown that there is exactly one function that follows it (`RecursionExists`,
`RecursionUnique`). Each of the three operators is first shown to be such a function.

`DepScanProofs` proves, for any set of files, directories, names and contents, any include
paths, any rules with generated headers among what they include and any number of edits,
runs and stops (assumption `DepScanAssumption`: types, and that the input of a rule is a source
file that is there; names that read like the input are left out of what `Closed` says):

- `ScanInvariance`: `Spec => []Inv`;
- from it `AnswersAreClosed` (`Closed`), `CachedAnswersAreComplete` (`CachedComplete`) and
  `HeadersAreGenerated` (`GeneratedFirst`).

An answer from the cache is right because of what was true when its entry was made, maybe
runs ago, and what verification has looked at since. The invariant
`Inv` (module `DepScanInvariant`) ties the two together:

- `TimeOK`: no time stamp that is remembered anywhere is from the future, so that a file
  which is written again differs from whatever is remembered of it;
- `Looked(n, D, M)`: the matches `M` of name `n` have been looked for in the directories `D` in
  this run, and are still what is there unless the user has edited files since. `FindCacheOK`
  says so of what `find-file` remembers, `FindOK` of the directories it has been through;
- `EntryOK`: an entry of the cache, however old, is consistent in itself: for
  every header in it whose time stamp is still the one remembered, each name the header includes is
  among the names of the entry (`Consistent`), or reads like the input. Nothing is said of headers that have
  changed, and nothing needs to be;
- `ScanOK`: the same while the entry is being made, with the names and the matches still
  to be handled set apart;
- `GatherOK`, `VerifyOK`: the directory of the first match of each name is going to be
  searched; each name that verification has passed is `Looked` in all of these directories. When
  verification is through, every time stamp has been compared, so all of `EntryOK`
  applies, and the answer is closed.

The proof has one lemma per action and invariant part it can disturb; `LookedWrite` (making a
header disturbs no earlier look, since no look passes a target that is not settled)
and `ConsistentWrite` (an edit only takes premises away) carry it.

`DriverProofs` proves, for any rules, Load files, contents, command lines, orphans left by
earlier runs and any number of jobs,

- `LoopInvariance`: `Spec => []IInv`;
- from it `ReloadKeepsJobs` (`JobsKept`), `OrphansAreKnown` (`KnownFiles`), `CleaningForgets`
  (`CleanForgets`) and `ExitIsHonest` (`HonestExit`);
- `DriverType`: `Spec => []TypeOK`, which includes the limit of reloads;
- `CalmInvariance`: `Spec => []CalmOK`, without any condition;
- `GoalsAreCurrent` and `OrphansAreReal`: `Spec => GoalsCurrent` and `Spec => OrphansOnly`, if no commands write
  Load files by hand (`Edits = {}`; `finding_reload` is what happens otherwise);
- `LoadFilesSettle`: `Spec => []Stabilises`, if `LoadsSettle`.

The assumption `DriverAssumption` has, besides types, what the rulebase makes of cleaning
targets: they are no Load files, they need only phony rules, and only other cleaning
targets need them (`rulebase.default` 2346-2347). Without it a job could run while `clean`
deletes files, and be recorded as cleaned. A rule whose commands edit a Load file by hand is
phony. What a target needs (`Below`) is the intersection of the closed sets with it, so that
no induction along dependencies is needed: a set of settled rules with all that they need
is closed, hence holds everything below a settled target (`DoneBelow`).

The invariant (module `DriverInvariant`) is about when the statuses can be relied on:

- `EngineOK`: as long as no Load file has failed, and again after each reload, statuses and
  jobs are those of the calls so far: what is settled or runs has what it needs, and
  jobs run only below the target that is being built. Hence none runs once that is
  settled, which is why a reload forgets no job;
- `FailedOK`, `EndOK`: without an error, only rules below the target being built have failed, and
  tmake ends with nothing left to do and nothing running;
- `CleaningOK`: `tmake(cleaning)` belongs to the target, and only phony rules run under it;
- `FilesOK`: target files are recorded in the cache, and those of settled rules are there.

That targets are built by the current descriptions needs four more parts (`CurrentInv`). `CalmOK`: without
an error a target is only built when every Load file that a rule makes is up to date, none of them "built", which would have led
to a reload. `PhonyOK`: a phony rule is never up to date, so a Load file that is was found on the disk. `CurrentOK`: if
a Load file is not what the descriptions were read from, then it is missing, or the loop over the Load files has already
seen it built or fail; then `CalmOK` does not hold of it, and no target is built. A cleaning target deletes it, and tmake
itself or its jobs make it again in a pass that ends in a reload. A child that an earlier reload has forgotten
would not: that is where the condition `OwnLoads` comes from. TLC finds `GoalsCurrent` violated without it as soon as a Load
file is made in a child. `PlainOK` is the same for Load files that no rule makes.

`LoadsSettle` says that what Load files are made from settles: no phony rule, none that only some descriptions declare,
none whose commands call `reset-target-status`, and an order of the Load files in which nothing that one of them needs is made by
commands that use variables of that one, of a later one, or of one that is edited by hand (stated without an order: every
non-empty set of Load files has a member that ignores all of the set). TLC finds `Stabilises` violated when any of the four
is left out: such a rule can put a Load file out of date in every pass.

The argument counts Load files that are built for good. `Kept(T)`: all that the members of `T` need is there, is not
being made, is recorded in the cache as it is now (`Recorded`), and ignores what the Load files outside of `T`
contain; so no reload can change its commands, and as nothing it depends on is optional, nor its
dependencies. No step takes a member from such a set: what is settled while Load files are built is recorded (`SettledOK`,
unless nothing will be built at all), so it is not built again. When a pass has built a Load file (`BuiltOK`), the
reload adds one to `T`: among the Load files outside of `T` there is one that ignores all
of them (the fourth condition), and after a pass all that it needs is recorded. So each reload is paid for by another member of
`T` (`ReloadsOK`), which has no more members than there are Load files that a rule makes. `HashedOK` says that the
cache lists nothing but dependencies.

Only model-checked. Liveness (`Termination` of the engine and the driver, `Settles`) is beyond the prover.
Every safety property of the passing runs is a theorem. For some a run also covers projects that the theorem
leaves out: `engine_jobs` checks `ImplementsSchedule` and `FailureHasCause` with two cycles, in which they hold though
they need not in all (see `Acyclic` above), and `driver` checks `GoalsCurrent` and `OrphansOnly` with
a rule that edits a Load file, as the only target.

## 5. Not modelled

Command texts and messages; variable substitution, of which only one consequence is in `Driver` (the commands of a rule
change with the Load files, `Commands`); dynamic dependencies in the decision whether a target is out of date (they are in
`BuildEngine` as far as they are built, in `DepScan` as far as they are found, and out of `Incremental`); what children do
that an interrupted `wait` in `tmake-exit` has left behind, after tmake is gone (in `Incremental` they write nothing more; its
theorems exclude signals); capturing of output; `-n`,
`--configure`, warnings; rules with several targets (a rule stands for its
targets, which are made and deleted together); the `exec` and `srchash` parts of the
cache (a file hashes to its change count); time stamps that are too coarse to tell
two edits apart. In `Driver`: Load files with `--nocare`, `-q`, `--configure` and options that
only show something, and errors while a description is read. In `DepScan`: the
regular expression (the names that a file includes are a function of its contents), and
the scanners that projects write themselves. In `Descriptions`: the high-level commands of the rulebase,
which only declare rules; deferred actions; `Load` (its effects are in `Driver`); `SubDirs` naming the
directory it is in or one above, which makes tmake read descriptions without end (the
bound on commands hides it); `RuleBase` leaves out rules with several targets, aliases and `-vars`.

The rulebase, option parsing, utilities, output and installation
are sequential text processing without state that other parts rely on. `autosetup` is vendored; the `test*` directories are
projects that tmake builds.

## 6. What is left

In the order in which it would add most:

1. Rules with several targets in `Incremental`, whose cache entries are per target, and
   `UseHashes`.
2. Rules with several targets, aliases and `-vars` in `RuleBase`.
3. The pure algorithms of `src/lib` (`getopt`, relative paths, `compare-versions`) as operators.
