-------------------------------- MODULE Driver --------------------------------
(***************************************************************************)
(* Proc make after the descriptions have been parsed: the loop over the    *)
(* targets, the Load files that are built first and whose change makes     *)
(* tmake load the descriptions again, orphans, cleaning targets, and       *)
(* add-build-targets and reset-target-status.                              *)
(*                                                                         *)
(* What build-sync does in between is what module Schedule says of the     *)
(* engine: rules are settled once, after what they need, in tmake itself   *)
(* or in children.  A reload replaces the global array tmake, the jobs and *)
(* the exit code in it included; the files, the cache and the children are *)
(* not part of it.                                                         *)
(***************************************************************************)
EXTENDS Integers, Sequences, FiniteSets

CONSTANTS
    Rules,          \* all rules that any description declares
    Deps,           \* Deps[r]: the set of rules that r depends on
    Phony,          \* rules with -phony
    Forks,          \* rules whose commands run in the background
    Loads,          \* tmake(projfiles), in order
    Contents,       \* what a Load file may contain
    Writes,         \* Writes[l]: what Load file l may contain, made or edited
    Declares,       \* Declares[c]: the optional rules that content c declares
    Commands,       \* Commands[r][t]: the commands of r when the Load files are as in t
    CmdLines,       \* the possible targets of the command line
    CleanTargets,   \* tmake(clean-targets)
    Adds,           \* Adds[r]: what the commands of r pass to add-build-targets
    Resets,         \* rules whose commands call reset-target-status
    Edits,          \* phony rules whose commands write a Load file themselves
    MayUnsettle,    \* rules that may be out of date every time
    MaxJobs,        \* tmake(maxjobs)
    Texts,          \* what the Load files may contain at first
    Trees,          \* the sets of target files that earlier runs may have left
    None

LoadFiles == {Loads[i] : i \in DOMAIN Loads}
Optional  == UNION {Declares[c] : c \in Contents}
MaxReload == 5

\* What the Load files may contain, and what commands rules may have.
AllTexts == [LoadFiles -> Contents \union {None}]
AllCommands == UNION {{Commands[r][t] : t \in AllTexts} : r \in Rules}

\* The sets of rules that descriptions may declare, and in each the rules that a
\* target needs: those in every set with it that is closed under dependencies.
Descriptions == {(Rules \ Optional) \union UNION {Declares[c] : c \in C} : C \in SUBSET Contents}
ClosedIn(D) == {S \in SUBSET D : \A q \in S : Deps[q] \intersect D \subseteq S}
Below == [D \in Descriptions |-> [t \in D |-> {r \in D : \A S \in ClosedIn(D) : t \in S => r \in S}]]

ASSUME DriverAssumption ==
    /\ IsFiniteSet(Rules)
    /\ Deps \in [Rules -> SUBSET Rules]
    /\ Phony \subseteq Rules /\ MayUnsettle \subseteq Rules
    /\ None \notin Contents
    /\ Writes \in [LoadFiles -> SUBSET Contents]
    /\ Declares \in [Contents -> SUBSET (Rules \ LoadFiles)]
    /\ None \notin AllCommands
    /\ Forks \intersect CleanTargets = {}
    /\ CmdLines \subseteq Seq(Rules)
    /\ Adds \in [Rules -> Seq(Rules)]
    /\ MaxJobs \in Nat \ {0}
    /\ Texts \subseteq [LoadFiles -> Contents]
    /\ Trees \subseteq SUBSET (Rules \ Phony)
    /\ Loads \in Seq(LoadFiles)
    /\ Edits \subseteq Phony
    /\ LoadFiles \intersect CleanTargets = {}
    /\ \A r \in Rules \ CleanTargets : Deps[r] \intersect CleanTargets = {}
    /\ \A D \in Descriptions : \A t \in CleanTargets \intersect D : Below[D][t] \subseteq Phony

VARIABLES
    force,      \* tmake(force)
    unsettled,  \* the members of MayUnsettle that are
    conf,       \* conf[l]: what the Load file l contains, None if it is missing
    loaded,     \* loaded[l]: what it contained when the description was loaded
    exists,     \* the target files there are
    cached,     \* the keys of tmakecache(file)
    stale,      \* the rules that depend on a file whose hash in tmakecache(dephash) is not right
    hashed,     \* hashed[r]: the targets that tmakecache(dephash) lists for r
    cmd,        \* tmakecache(cmd)
    status,     \* tmake(rulestatus)
    running,    \* tmake(running)
    stray,      \* children that are not in tmake(running)
    exitcode,   \* tmake(exitcode)
    targets,    \* the targets still to be built
    added,      \* tmake(addtargets)
    cleaning,   \* tmake(cleaning)
    resetstatus,\* tmake(resetstatus)
    pc,         \* where make is
    goal,       \* the target of this turn of the loop
    loadq,      \* the rest of the loop over tmake(projfiles)
    reload,     \* a Load file was built
    reloads,    \* reloadcount
    loadfailed  \* history: a Load file could not be built

config == <<force, unsettled>>
spec   == <<conf, loaded>>
files  == <<exists, cached>>
cache  == <<stale, hashed, cmd>>
engine == <<status, running, stray, exitcode>>
flags  == <<added, cleaning, resetstatus>>
loop   == <<loadq, reload, reloads, loadfailed>>
vars   == <<config, spec, files, cache, engine, flags, targets, pc, goal, loop>>

\* The rules of the description that is loaded, and of the one on disk.
RulesOf(text) == (Rules \ Optional)
                   \union UNION {Declares[text[l]] : l \in {k \in LoadFiles : text[k] # None}}
Declared == RulesOf(loaded)

Settled == {"uptodate", "built"}

\* What a target needs, directly or not; nothing if no rule makes it.
Needed(t) == IF t \in Declared THEN Below[Declared][t] ELSE {}

\* What the Load files need.
ForLoads == UNION {Below[D][l] : D \in Descriptions, l \in LoadFiles \intersect Rules}

\* Targets left by an earlier run, by the description of then; some of what
\* the Load files are made from has been edited since.
Init ==
    /\ force \in BOOLEAN
    /\ unsettled \in SUBSET MayUnsettle
    /\ exists \in Trees
    /\ cached = exists
    /\ \E c \in Texts : conf = [l \in LoadFiles |-> IF l \in Rules \ exists THEN None ELSE c[l]]
    /\ loaded = conf
    /\ \E s \in SUBSET (exists \intersect ForLoads) : stale = s \union unsettled
    /\ \E t \in Texts :
          /\ hashed = [r \in Rules |-> IF r \in exists THEN Deps[r] \intersect RulesOf(t) ELSE {}]
          /\ cmd = [r \in Rules |-> IF r \in exists THEN Commands[r][t] ELSE None]
    /\ status = [r \in Rules |-> "unknown"]
    /\ running = {}
    /\ stray = {}
    /\ exitcode = 0
    /\ targets \in CmdLines
    /\ added = <<>>
    /\ cleaning = FALSE
    /\ resetstatus = FALSE
    /\ pc = "next"
    /\ goal = None
    /\ loadq = <<>>
    /\ reload = FALSE
    /\ reloads = 0
    /\ loadfailed = FALSE

-----------------------------------------------------------------------------
(* The engine: a call of build-sync for the target below. *)

Target  == IF pc = "load" /\ loadq # <<>> THEN Head(loadq) ELSE goal
Calling == pc = "build" \/ (pc = "load" /\ loadq # <<>> /\ Head(loadq) \in Rules)
Visit(r) == Calling /\ r \in Needed(Target) /\ status[r] = "unknown"

\* Mutant: a job that is still running counts as done.
ReadyEarly(r) == \A d \in Deps[r] \intersect Declared : status[d] \in Settled \union {"running"}

Ready(r) == \A d \in Deps[r] \intersect Declared : status[d] \in Settled

\* Mutant: --force also holds for the Load files.
ForcedAlways == force

\* tmake(ignoreforce) is set while the Load files are built.
Forced == force /\ pc = "build"

\* needbuild? and the comparison of the commands find nothing.
Unchanged(r) ==
    /\ r \notin stale
    /\ hashed[r] = Deps[r] \intersect Declared
    /\ cmd[r] = Commands[r][loaded]

UpToDate(r) ==
    /\ Visit(r) /\ Ready(r)
    /\ r \in exists /\ Unchanged(r)
    /\ ~Forced
    /\ status' = [status EXCEPT ![r] = "uptodate"]
    /\ UNCHANGED <<config, spec, files, cache, running, stray, exitcode, flags, targets, pc, goal, loop>>

\* Mutant: what was built is not recorded.
RecordNothing(r) == cached

\* target-post-build remembers the files that rules made.
Record(r) == IF r \in Phony \/ cleaning THEN cached ELSE cached \union {r}

\* reset-target-status is for commands that have changed files by hand: here
\* what all the Load rules are made from, or nothing that matters.
Touched(r) == {{}} \union (IF r \in Resets THEN {LoadFiles \intersect Rules} ELSE {})

\* The hashes that are not right when that of r has been stored.
Rehashed(r) == stale \ ({r} \ unsettled)

\* Files that depend on r are out of date now.
Dependents(r) == {d \in Rules \ Phony : r \in hashed[d]}

\* The commands of r made its file: they and what was out of date are recorded.
Make(r, outdated) ==
    /\ status' = [status EXCEPT ![r] = "built"]
    /\ exists' = exists \union ({r} \ Phony)
    /\ cached' = Record(r)
    /\ cmd' = IF r \in Phony \/ cleaning THEN cmd ELSE [cmd EXCEPT ![r] = Commands[r][loaded]]
    /\ \E touched \in Touched(r) : stale' = outdated \union touched \union Dependents(r)
    /\ IF r \in LoadFiles THEN \E c \in Writes[r] : conf' = [conf EXCEPT ![r] = c]
                          ELSE UNCHANGED conf
    /\ UNCHANGED exitcode

\* They did not, with a message or without one; target-post-build deletes it,
\* and the hash becomes "failed".
Break(r) ==
    /\ status' = [status EXCEPT ![r] = "failed"]
    /\ exists' = exists \ {r}
    /\ conf' = [l \in LoadFiles |-> IF l = r THEN None ELSE conf[l]]
    /\ exitcode' \in {exitcode, 1}
    /\ stale' = stale \union {r}
    /\ UNCHANGED <<cached, cmd>>

\* discard-orphan-targets: where there are orphans, the commands of rules that
\* are no more are dropped from the cache.
Discarded == IF cached \subseteq Declared THEN cmd
             ELSE [r \in Rules |-> IF r \in Declared THEN cmd[r] ELSE None]

\* The commands of the phony rules that the loop is about.
Clean(r) ==
    /\ r \in CleanTargets
    /\ status' = [status EXCEPT ![r] = "built"]
    /\ exists' = exists \ (Declared \union cached)
    /\ cached' = cached \intersect Declared
    /\ conf' = [l \in LoadFiles |-> IF l \in Rules THEN None ELSE conf[l]]
    /\ cmd' = Discarded
    /\ UNCHANGED <<stale, exitcode>>

EditConf(r) ==
    /\ r \in Edits
    /\ \E l \in LoadFiles \ Rules : \E c \in Writes[l] : conf' = [conf EXCEPT ![l] = c]
    /\ status' = [status EXCEPT ![r] = "built"]
    /\ UNCHANGED <<stale, cmd, files, exitcode>>

OutOfDate(r) ==
    /\ Visit(r) /\ Ready(r)
    /\ r \in Phony \/ r \notin exists \/ ~Unchanged(r) \/ Forced

\* needbuild? stores the new hash before the commands run.
StoreHash(r) == hashed' = [hashed EXCEPT ![r] = Deps[r] \intersect Declared]

RunHere(r) ==
    /\ OutOfDate(r) /\ StoreHash(r)
    /\ r \notin Forks \/ r = Target \/ MaxJobs = 1
    /\ \/ r \notin CleanTargets \union Edits /\ Make(r, Rehashed(r))
       \/ Clean(r)
       \/ EditConf(r)
       \/ Break(r)
    /\ added' = added \o Adds[r]
    /\ resetstatus' = (resetstatus \/ r \in Resets)
    /\ UNCHANGED <<config, loaded, running, stray, targets, cleaning, pc, goal, loop>>

Fork(r) ==
    /\ OutOfDate(r) /\ StoreHash(r)
    /\ r \in Forks /\ r # Target
    /\ MaxJobs > 1 /\ Cardinality(running) < MaxJobs
    /\ running' = running \union {r}
    /\ status' = [status EXCEPT ![r] = "running"]
    /\ stale' = Rehashed(r)
    /\ UNCHANGED <<config, spec, files, cmd, stray, exitcode, flags, targets, pc, goal, loop>>

\* A job is waited for: by build-sync, for a slot, or by tmake-exit.
Reap(r) ==
    /\ Calling \/ pc = "exit"
    /\ r \in running
    /\ running' = running \ {r}
    /\ (r \notin Edits /\ Make(r, stale)) \/ EditConf(r) \/ Break(r)
    /\ UNCHANGED <<config, loaded, hashed, stray, flags, targets, pc, goal, loop>>

\* A rule fails with a dependency; others may still be running.
FailDeps(r) ==
    /\ Visit(r)
    /\ \E d \in Deps[r] \intersect Declared : status[d] = "failed"
    /\ status' = [status EXCEPT ![r] = "failed"]
    /\ exitcode' \in {exitcode, 1}
    /\ UNCHANGED <<config, spec, files, cache, running, stray, flags, targets, pc, goal, loop>>

-----------------------------------------------------------------------------
(* The loop of make. *)

NextTarget ==
    /\ pc = "next" /\ targets # <<>> /\ exitcode = 0
    /\ goal' = Head(targets)
    /\ targets' = Tail(targets)
    /\ added' = <<>>
    /\ IF goal' \in CleanTargets
         THEN /\ cleaning' = TRUE
              /\ pc' = "build"
              /\ UNCHANGED <<loadq, reload, reloads>>
         ELSE /\ pc' = "load"
              /\ loadq' = Loads
              /\ reload' = FALSE
              /\ reloads' = 0
              /\ UNCHANGED cleaning
    /\ UNCHANGED <<config, spec, files, cache, engine, resetstatus, loadfailed>>

\* build-sync of a Load file that is not a target but exists.
LoadPlain ==
    /\ pc = "load" /\ loadq # <<>> /\ Head(loadq) \notin Rules
    /\ loadq' = Tail(loadq)
    /\ UNCHANGED <<config, spec, files, cache, engine, flags, targets, pc, goal, reload, reloads, loadfailed>>

LoadAnswer ==
    /\ pc = "load" /\ Calling
    /\ status[Target] \in Settled
    /\ reload' = (reload \/ status[Target] = "built")
    /\ loadq' = Tail(loadq)
    /\ UNCHANGED <<config, spec, files, cache, engine, flags, targets, pc, goal, reloads, loadfailed>>

\* A failure that was reported only ends the loop over the Load files.
LoadFails ==
    /\ pc = "load" /\ Calling
    /\ status[Target] = "failed"
    /\ loadfailed' = TRUE
    /\ IF exitcode = 0
         THEN exitcode' = 1 /\ pc' = "exit" /\ UNCHANGED loadq
         ELSE loadq' = <<>> /\ UNCHANGED <<exitcode, pc>>
    /\ UNCHANGED <<config, spec, files, cache, status, running, stray, flags, targets, goal, reload, reloads>>

\* Mutant: the limit is off by one.
LimitLate == reloads > MaxReload

Limit == reloads >= MaxReload

LoadsDone == pc = "load" /\ loadq = <<>>

\* Mutant: a Load file that was built is only read by the next run.
MustReloadNever == FALSE

MustReload == reload

\* Mutant: the reloads are not counted.
ReloadsUncounted == reloads

ReloadsNow == reloads + 1

\* set tmake $tmake_save, and the descriptions are read again.  From now on rules
\* have the dependencies and the commands that the Load files give them.
Reload ==
    /\ LoadsDone /\ MustReload
    /\ ~Limit
    /\ reloads' = ReloadsNow
    /\ reload' = FALSE
    /\ loadq' = Loads
    /\ loaded' = conf
    /\ status' = [r \in Rules |-> "unknown"]
    /\ stray' = stray \union running
    /\ running' = {}
    /\ exitcode' = 0
    /\ added' = <<>>
    /\ cleaning' = FALSE
    /\ resetstatus' = FALSE
    /\ UNCHANGED <<config, conf, files, cache, targets, pc, goal, loadfailed>>

GiveUp ==
    /\ LoadsDone /\ MustReload
    /\ Limit
    /\ exitcode' = 1
    /\ pc' = "exit"
    /\ UNCHANGED <<config, spec, files, cache, status, running, stray, flags, targets, goal, loop>>

\* Mutant: what this run has not asked for is taken for an orphan.
OrphansUnasked == {r \in cached : status[r] \notin Settled}

Orphans == cached \ Declared

\* do-delete-orphans, and on to the target itself.
DeleteOrphans ==
    /\ LoadsDone /\ ~MustReload
    /\ exists' = exists \ Orphans
    /\ cached' = cached \ Orphans
    /\ cmd' = Discarded
    /\ pc' = "build"
    /\ UNCHANGED <<config, spec, stale, hashed, engine, flags, targets, goal, loop>>

\* The targets that were added, once each, before the rest of the list.
Merged ==
    LET new[i \in 0..Len(added)] ==
          IF i = 0 THEN <<>>
          ELSE LET known == {targets[k] : k \in DOMAIN targets}
                              \union {new[i-1][k] : k \in DOMAIN new[i-1]}
               IN  IF added[i] \in known THEN new[i-1] ELSE Append(new[i-1], added[i])
    IN  new[Len(added)] \o targets

\* Mutant: cleaning does not reset the status of the rules.
ForgetsOnRequest == resetstatus

Forgets == cleaning \/ resetstatus

GoalBuilt ==
    /\ pc = "build" /\ goal \in Declared
    /\ status[goal] \in Settled
    /\ status' = IF Forgets THEN [r \in Rules |-> "unknown"] ELSE status
    /\ cleaning' = FALSE
    /\ resetstatus' = FALSE
    /\ targets' = Merged
    /\ pc' = "next"
    /\ UNCHANGED <<config, spec, files, cache, running, stray, exitcode, added, goal, loop>>

\* Mutant: nothing is reported for a target that fails without a message.
GoalCodeQuiet == exitcode

\* build-error: the target failed, or there is no rule for it.
GoalCode == 1

GoalFails ==
    /\ pc = "build"
    /\ goal \notin Declared \/ status[goal] = "failed"
    /\ exitcode' = GoalCode
    /\ pc' = "exit"
    /\ UNCHANGED <<config, spec, files, cache, status, running, stray, flags, targets, goal, loop>>

LoopDone ==
    /\ pc = "next" /\ (targets = <<>> \/ exitcode # 0)
    /\ pc' = "exit"
    /\ UNCHANGED <<config, spec, files, cache, engine, flags, targets, goal, loop>>

Exit ==
    /\ pc = "exit" /\ running = {}
    /\ pc' = "gone"
    /\ UNCHANGED <<config, spec, files, cache, engine, flags, targets, goal, loop>>

\* A child that tmake has forgotten ends: "Ignoring unknown pid".  It may have
\* written its file, and nothing is recorded.
StrayEnds(r) ==
    /\ r \in stray
    /\ stray' = stray \ {r}
    /\ \/ UNCHANGED <<conf, exists, stale>>
       \/ /\ exists' = exists \union ({r} \ Phony)
          /\ stale' = stale \union Dependents(r)
          /\ IF r \in LoadFiles THEN \E c \in Writes[r] : conf' = [conf EXCEPT ![r] = c]
                                ELSE UNCHANGED conf
       \/ /\ r \in Edits
          /\ \E l \in LoadFiles \ Rules : \E c \in Writes[l] : conf' = [conf EXCEPT ![l] = c]
          /\ UNCHANGED <<exists, stale>>
    /\ UNCHANGED <<config, loaded, cached, hashed, cmd, status, running, exitcode, flags, targets, pc, goal, loop>>

Gone == pc = "gone" /\ stray = {} /\ UNCHANGED vars

Tmake ==
    \/ \E r \in Rules : UpToDate(r) \/ RunHere(r) \/ Fork(r) \/ Reap(r) \/ FailDeps(r)
    \/ NextTarget \/ LoadPlain \/ LoadAnswer \/ LoadFails \/ Reload \/ GiveUp
    \/ DeleteOrphans \/ GoalBuilt \/ GoalFails \/ LoopDone \/ Exit

Next == Tmake \/ (\E r \in Rules : StrayEnds(r)) \/ Gone

Spec == Init /\ [][Next]_vars

\* tmake runs on, and the commands that it waits for end.
FairSpec == Spec /\ WF_vars(Tmake)

-----------------------------------------------------------------------------
(* Properties. *)

TypeOK ==
    /\ force \in BOOLEAN
    /\ unsettled \in SUBSET MayUnsettle
    /\ conf \in [LoadFiles -> Contents \union {None}]
    /\ loaded \in [LoadFiles -> Contents \union {None}]
    /\ exists \subseteq Rules \ Phony
    /\ cached \subseteq Rules \ Phony
    /\ stale \subseteq Rules
    /\ hashed \in [Rules -> SUBSET Rules]
    /\ cmd \in [Rules -> AllCommands \union {None}]
    /\ status \in [Rules -> {"unknown", "uptodate", "built", "failed", "running"}]
    /\ running \subseteq Forks
    /\ stray \subseteq Forks
    /\ exitcode \in {0, 1}
    /\ targets \in Seq(Rules)
    /\ added \in Seq(Rules)
    /\ cleaning \in BOOLEAN
    /\ resetstatus \in BOOLEAN
    /\ pc \in {"next", "load", "build", "exit", "gone"}
    /\ goal \in Rules \union {None}
    /\ loadq \in Seq(LoadFiles)
    /\ reload \in BOOLEAN
    /\ reloads \in 0..MaxReload
    /\ loadfailed \in BOOLEAN

Starts(r) == status[r] = "unknown" /\ status'[r] \in {"running", "built"}

\* A reload forgets the jobs that still run when a Load file has failed: as long as
\* none has, or no Load file is made in a child, nothing but tmake writes Load files.
OwnLoads == loadfailed => Forks \intersect LoadFiles = {}

\* Commands for a target of the user (541-543, README.md 296-298 and 683-684:
\* the Load files are built first, and if anything was built the descriptions
\* are read again) are started by the descriptions that are on disk, unless
\* an error was reported, the target is a cleaning one, or a child that makes a
\* Load file may have been forgotten (567).
GoalsCurrent ==
    [][(pc = "build" /\ ~cleaning /\ exitcode = 0 /\ OwnLoads /\ \E r \in Rules : Starts(r))
         => loaded = conf]_vars

\* Deleting orphans before a target is built (584-585) deletes nothing that
\* the descriptions on disk declare, in the same cases.
OrphansOnly ==
    [][(LoadsDone /\ exitcode = 0 /\ OwnLoads) => (exists \ exists') \intersect RulesOf(conf) = {}]_vars

\* A target that is in no description any more is in the cache, so that it
\* will be deleted as an orphan (1357-1368), over any number of reloads.
KnownFiles == ~loadfailed => exists \ Declared \subseteq cached

\* What a target is built from is there: a cleaning target makes tmake forget
\* what it has built before (605-612), whatever follows it in the command line.
CleanForgets ==
    (pc \in {"load", "build"} /\ ~cleaning)
        => {r \in Declared \ Phony : status[r] \in Settled} \subseteq exists

\* Reloading (565-568) forgets tmake(running); no child is forgotten by it
\* as long as the Load files could be built.
JobsKept == stray # {} => loadfailed

\* Load files settle (561-570): where none needs, through the variables in its
\* commands, what it contains itself, tmake reads the descriptions again at most once
\* for each Load file that a rule makes.  A rule that is always out of date, or a
\* Load file that fails, can make it more; --force (534) cannot.
Stabilises == reloads > Cardinality(LoadFiles \intersect Rules) => unsettled # {} \/ loadfailed

\* tmake that exits with 0 has built every target it was asked for, and
\* those that were added (587-596, 614-623).
HonestExit ==
    (pc = "gone" /\ exitcode = 0)
        => /\ targets = <<>>
           /\ \A r \in Declared : status[r] # "failed"

\* tmake ends, also when Load files change every time.
Termination == <>(pc = "gone")
=============================================================================
