----------------------------- MODULE Incremental -----------------------------
(***************************************************************************)
(* Several runs of tmake over one build directory: the engine together     *)
(* with the cache (.makecache) by which build decides that a target is out *)
(* of date.  The cache keeps the hash of the dependencies (dephash), which *)
(* is stored when the rule is found out of date, before its commands run,  *)
(* and the commands (cmd), stored when they have succeeded.  Between and   *)
(* during the runs sources are edited; rules are edited between runs; and  *)
(* tmake may be killed.  The rules are rules without -dyndep.              *)
(***************************************************************************)
EXTENDS BuildEngine

CONSTANTS
    MaxRuns,    \* bound on the runs of tmake
    MaxVer,     \* bound on the edits of each source file
    MaxText,    \* bound on the edits of the commands of each rule
    Faults      \* what may go wrong: targets may be deleted between runs
                \* ("delete"), or tmake may be killed, once ("kill"), or neither

\* No rule has -dyndep.  The code hashes the dynamic dependencies with the others
\* (3376, 3412-3420) and compares their list with tmakecache(deps) (3390-3403), and a
\* later scan may find more of them though nothing has changed (3851-3874).
NoDyndeps == \A r \in Rules : Scan[r] = <<>>

ASSUME IncrementalAssumption == NoDyndeps

VARIABLES
    ver,        \* the modification time of each file, as a count of changes
    text,       \* the commands of each rule, as a count of changes
    dephash,    \* tmakecache(dephash)
    cmd,        \* tmakecache(cmd) and tmakecache(deps), 0 when not there
    disk,       \* the contents of .makecache
    made,       \* history: what the target file of a rule was made from
    reads,      \* history: what the running commands of a rule have read
    run,        \* the number of this run
    edited,     \* history: a change since this run began
    null,       \* history: nothing to do since the last run, which succeeded
    fault       \* the member of Faults that this build has; "killed" afterwards

cache == <<dephash, cmd>>
files == <<ver, made, reads>>
world == <<text, disk, run, edited, null, fault>>
ivars == <<cache, files, world>>
allvars == <<vars, ivars>>

\* All that a rule without -dyndep depends on.
RuleDeps(r) == {Deps[r][i] : i \in DOMAIN Deps[r]}

\* calc-deplist-hash: files and targets hash to their modification times.
Hash(r)    == {<<d, ver[d]>> : d \in RuleDeps(r)}
NoHash     == {}
FailedHash == {<<None, 0>>}

\* The file of a rule that was never written.
Nothing == [from |-> NoHash, text |-> 0, whole |-> FALSE]

EmptyCache == [dephash |-> [r \in Rules |-> NoHash], cmd |-> [r \in Rules |-> 0]]

IInit ==
    /\ Init
    /\ exists = [r \in Rules |-> FALSE]
    /\ ver = [n \in Node |-> 0]
    /\ text = [r \in Rules |-> 1]
    /\ dephash = EmptyCache.dephash /\ cmd = EmptyCache.cmd /\ disk = EmptyCache
    /\ made = [r \in Rules |-> Nothing]
    /\ reads = [r \in Rules |-> Nothing]
    /\ run = 1
    /\ edited = FALSE /\ null = FALSE /\ fault \in Faults

-----------------------------------------------------------------------------
(* The steps of the engine, with what they do to the cache and the files *)

\* needbuild?: there is something to compare and it differs.
DepsChanged(r) == RuleDeps(r) # {} /\ Hash(r) # dephash[r]

\* Mutant: the commands are not compared.
CommandsChangedNever(r) == FALSE

CommandsChanged(r) == r \in HasDo /\ cmd[r] # text[r]

\* needbuild? stores the new hash whenever it differs; a rule that must be built
\* for another reason stores it as well.  Then the commands are compared.
IDecide ==
    /\ Decide(IF act[cur].st = "built" \/ DepsChanged(cur) \/ CommandsChanged(cur)
              THEN "built" ELSE "uptodate")
    /\ dephash' = IF cur \in Phony THEN dephash
                  ELSE [dephash EXCEPT ![cur] = Hash(cur)]
    /\ UNCHANGED <<cmd, files, world>>

\* Mutants: the hash is taken when the commands have finished; the commands
\* are not remembered.
PostCacheLate(r, ok, there) ==
    /\ cmd' = IF ok /\ r \notin Phony THEN [cmd EXCEPT ![r] = text[r]] ELSE cmd
    /\ dephash' = [dephash EXCEPT ![r] = IF Produced(r, ok, there) THEN Hash(r)
                                         ELSE FailedHash]
PostCacheNoCommands(r, ok, there) ==
    /\ UNCHANGED cmd
    /\ dephash' = IF Produced(r, ok, there) THEN dephash
                  ELSE [dephash EXCEPT ![r] = FailedHash]

\* target-post-build: the commands are cached when they succeed, even if the
\* target is missing; on failure the hash is made to differ.
PostCache(r, ok, there) ==
    /\ cmd' = IF ok /\ r \notin Phony THEN [cmd EXCEPT ![r] = text[r]] ELSE cmd
    /\ dephash' = IF Produced(r, ok, there) THEN dephash
                  ELSE [dephash EXCEPT ![r] = FailedHash]

IReap ==
    /\ SlotWait \/ SyncWait \/ ExitReap
    /\ \/ \E j \in running :
            /\ running' = running \ {j}
            /\ PostCache(j.rule, child[j.rule] = "ok", exists[j.rule])
       \/ running = {} /\ UNCHANGED cache
    /\ UNCHANGED <<files, world>>

Inputs(r) == [from |-> Hash(r), text |-> text[r], whole |-> TRUE]

IFork ==
    /\ Fork
    /\ reads' = [reads EXCEPT ![cur] = Inputs(cur)]
    /\ UNCHANGED <<cache, ver, made, world>>

\* Commands of r that have read m end with outcome o.  Successful commands may
\* leave an existing target as it is when it would not change; failing ones may
\* have written a part of it.
Writes(r, m, o, there, touch) ==
    /\ o = "ok" /\ there /\ ~touch => exists[r] /\ made[r].whole
    /\ o # "ok" /\ there /\ ~touch => exists[r]
    /\ ver' = IF there /\ touch THEN [ver EXCEPT ![r] = @ + 1] ELSE ver
    /\ made' = IF there /\ (touch \/ o = "ok")
               THEN [made EXCEPT ![r] = [m EXCEPT !.whole = o = "ok"]] ELSE made

\* Interrupted commands skip target-post-build.
IRunSync(o, there, fin, touch) ==
    /\ RunSync(o, there, fin)
    /\ Writes(cur, Inputs(cur), o, there, touch)
    /\ IF signal THEN UNCHANGED cache ELSE PostCache(cur, o = "ok", there)
    /\ UNCHANGED <<reads, world>>

\* A child that was killed with tmake writes no more; nor does, here, a child that
\* an interrupted wait has left behind.
IChildExit(r, o, there, touch) ==
    /\ mode # "exited"
    /\ ChildExit(r, o, there)
    /\ Writes(r, reads[r], o, there, touch)
    /\ UNCHANGED <<cache, reads, world>>

\* tmake-exit writes the cache when it has changed, but root does not create it
\* and exits with 1 instead.
IExit ==
    LET saved   == [dephash |-> dephash, cmd |-> cmd]
        refused == isroot /\ disk = EmptyCache /\ saved # disk
    IN  /\ Exit
        /\ disk' = IF refused THEN disk ELSE saved
        /\ edited' = (edited \/ code # 0 \/ refused)
        /\ UNCHANGED <<cache, files, text, run, null, fault>>

IOther ==
    /\ \/ NextGoal \/ BuildKnown \/ BuildRecursive \/ BuildEnter
       \/ DepsDone \/ ScanDone \/ HashError \/ Return \/ Signal
    /\ UNCHANGED ivars

-----------------------------------------------------------------------------
(* The world around the runs *)

\* A source file is changed, at any time.
Edit(f) ==
    /\ ver[f] < MaxVer
    /\ ver' = [ver EXCEPT ![f] = @ + 1]
    /\ edited' = TRUE /\ null' = FALSE
    /\ UNCHANGED <<vars, cache, made, reads, text, disk, run, fault>>

\* The commands of a rule are changed between two runs.
EditRule(r) ==
    /\ mode = "exited" /\ text[r] < MaxText
    /\ text' = [text EXCEPT ![r] = @ + 1]
    /\ edited' = TRUE
    /\ UNCHANGED <<vars, cache, files, disk, run, null, fault>>

\* Somebody deletes a target between two runs.
Delete(r) ==
    /\ fault = "delete" /\ mode = "exited" /\ exists[r]
    /\ exists' = [exists EXCEPT ![r] = FALSE]
    /\ edited' = TRUE
    /\ UNCHANGED <<status, act, cur, running, pending, child, exitcode, env,
                   mode, code, started, cache, files, text, disk, run, null,
                   fault>>

\* Rules whose commands are running, in a child or in tmake.
InFlight == {r \in Rules : child[r] = "live" \/ (cur = r /\ act[r].pc = "run")}

\* tmake and its children are killed.  Of the rules in flight, those in torn
\* leave a part of their target.  The cache is what it was, or, when it was
\* just being written, a file that does not load or that lacks its last lines.
Kill(torn) ==
    /\ fault = "kill" /\ mode # "exited"
    /\ torn \subseteq InFlight \ Phony
    /\ fault' = "killed" /\ edited' = TRUE
    /\ mode' = "exited" /\ code' = 2
    /\ exists' = [r \in Rules |-> exists[r] \/ r \in torn]
    /\ ver' = [n \in Node |-> IF n \in torn THEN ver[n] + 1 ELSE ver[n]]
    /\ made' = [r \in Rules |-> IF r \in torn THEN Nothing ELSE made[r]]
    /\ \/ UNCHANGED disk
       \/ /\ mode = "exiting" /\ WaitOver
          /\ disk' \in {EmptyCache, [EmptyCache EXCEPT !.cmd = cmd]}
    /\ UNCHANGED <<status, act, cur, running, pending, child, exitcode, env,
                   started, cache, reads, text, run, null>>

\* tmake is started again and loads the cache.
NextRun ==
    /\ mode = "exited" /\ run < MaxRuns
    /\ run' = run + 1
    /\ null' = ~edited /\ edited' = FALSE
    /\ dephash' = disk.dephash /\ cmd' = disk.cmd
    /\ status' = [r \in Rules |-> "unknown"]
    /\ act' = [a \in Rules \union {Main} |->
                 IF a = Main THEN [Idle EXCEPT !.todo = targets] ELSE Idle]
    /\ cur' = Main
    /\ running' = {} /\ pending' = [r \in Rules |-> 0]
    /\ child' = [r \in Rules |-> "none"]
    /\ isroot' \in Users /\ UNCHANGED targets
    /\ exitcode' = 0 /\ signal' = FALSE /\ mode' = "build" /\ code' = 0
    /\ started' = [r \in Rules |-> 0]
    /\ UNCHANGED <<exists, files, text, disk, fault>>

LastRun == Exited /\ run = MaxRuns /\ UNCHANGED ivars

INext ==
    \/ IDecide \/ IReap \/ IFork \/ IExit \/ IOther
    \/ \E o \in Outcomes, there, fin, touch \in BOOLEAN : IRunSync(o, there, fin, touch)
    \/ \E r \in Rules, o \in Outcomes, there, touch \in BOOLEAN :
         IChildExit(r, o, there, touch)
    \/ \E f \in Files : Edit(f)
    \/ \E r \in HasDo : EditRule(r) \/ Delete(r)
    \/ \E torn \in SUBSET InFlight : Kill(torn)
    \/ NextRun \/ LastRun

ISpec == IInit /\ [][INext]_allvars

-----------------------------------------------------------------------------
(* Properties *)

\* The dependencies and the commands of r hash to what is remembered of them.
Matches(r, hash, commands) ==
    /\ RuleDeps(r) # {} => hash = Hash(r)
    /\ commands = text[r]

\* What the next run would take from the cache as up to date.
WouldSkip(r) == exists[r] /\ Matches(r, disk.dephash[r], disk.cmd[r])

\* A target that the next run will not rebuild is complete and was made by the
\* present commands from the present dependencies: however the last run ended,
\* the cache it has left is safe to use.
SkipSound ==
    mode = "exited" =>
        \A r \in HasDo \ Phony : WouldSkip(r) => made[r] = Inputs(r)

\* After a run that exits with 0 and during which nothing was edited, every
\* target below the goals that is made by commands is right.
BuiltRight ==
    mode = "exited" /\ code = 0 /\ ~edited =>
        \A r \in Below \intersect (HasDo \ Phony) : exists[r] /\ made[r] = Inputs(r)

\* A null build: when nothing has changed since a run that succeeded, no
\* commands are started.
NullBuild == null => \A r \in Rules \ Phony : started[r] = 0
=============================================================================
