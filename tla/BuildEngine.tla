----------------------------- MODULE BuildEngine -----------------------------
(***************************************************************************)
(* The dependency engine of tmake: procs build, build-deps, build-sync,    *)
(* target-post-build and the background jobs of fork-job-if-required,      *)
(* add-new-job, wait-for-job-slots and wait-for-one-job.                   *)
(*                                                                         *)
(* tmake is one process that recurses over the rules; commands run in it   *)
(* (synchronously) or in forked children that it reaps one at a time.  An  *)
(* activation of proc build is kept per rule (act): a rule that is being   *)
(* built has status "checking" and is never entered twice.  Whether an     *)
(* existing target is out of date is left open here (Decide); module       *)
(* Incremental computes it from the cache.                                 *)
(***************************************************************************)
EXTENDS Integers, Sequences, FiniteSets

CONSTANTS
    Rules,      \* rule targets
    Files,      \* dependencies that are not targets
    Present,    \* the members of Files that exist
    Deps,       \* Deps[r]: the static dependencies of r, in order
    Scan,       \* Scan[r]: the targets the -dyndep scan of r builds, in order
    CmdLines,   \* the targets, in order, of the command lines that may be given
    Phony,      \* rules with -phony
    HasDo,      \* rules with -do
    Forks,      \* rules that are -slow, or whose -do calls run
    NoFork,     \* rules with -nofork
    Fatal,      \* rules with -fatal
    Finally,    \* rules whose -finally script may fail
    RootOk,     \* rules with -rootok
    MayMiss,    \* rules whose -do may succeed without creating the target
    MaxJobs,    \* tmake(maxjobs)
    QuickStop,  \* tmake(quickstop)
    Outcomes,   \* how commands may end, see below
    Signals,    \* whether SIGINT or SIGTERM may arrive
    Users,      \* the values that tmake(isroot) may have
    Main,       \* the activation of proc make
    None        \* the empty notifytarget

\* "ok": all scripts finished (a Tcl error of a -nofail rule included);
\* "fail": they stopped with a message; "quiet": they stopped without one
\* (the child was killed, or SEPJOBIO is 0 and nothing captured its stderr).
AllOutcomes == {"ok", "fail", "quiet"}

Node == Rules \union Files

ASSUME EngineAssumption ==
    /\ Rules \intersect Files = {}
    /\ Main \notin Node
    /\ None \notin Node \union {Main}
    /\ IsFiniteSet(Rules)
    /\ Present \subseteq Files
    /\ Phony \subseteq Rules /\ HasDo \subseteq Rules
    /\ Deps \in [Rules -> Seq(Node)]
    /\ Scan \in [Rules -> Seq(Rules)]
    /\ CmdLines \subseteq Seq(Node)
    /\ \A r \in Rules \ Phony : \A i \in DOMAIN Deps[r] : Deps[r][i] \notin Phony
    /\ MaxJobs \in Nat \ {0}
    /\ QuickStop \in BOOLEAN
    /\ Signals \in BOOLEAN
    /\ Users \subseteq BOOLEAN
    /\ Outcomes \subseteq AllOutcomes

Elements(s) == {s[i] : i \in DOMAIN s}

Settled == {"uptodate", "built"}
Pending == {"waiting", "running"}
Status  == Settled \union Pending \union {"unknown", "checking", "failed"}

Jobs == [rule : Rules, notify : Rules]

\* The program counter of an activation: the two build-deps loops, a
\* build-sync loop (calling, waiting for a job), and the steps after them.
DepLoops == {"deps", "dyn"}
Pcs == DepLoops \union {"goal", "sync", "wait", "decide", "run", "return"}

Activation ==
    [pc : Pcs, todo : Seq(Node), dyn : Seq(Rules), st : Status,
     wait : BOOLEAN, bad : BOOLEAN,
     by : Rules \union {Main}, notify : Rules \union {None}]

Idle == [pc |-> "goal", todo |-> <<>>, dyn |-> <<>>, st |-> "unknown",
         wait |-> FALSE, bad |-> FALSE, by |-> Main, notify |-> None]

VARIABLES
    status,     \* tmake(rulestatus)
    act,        \* the activations of build, and of make
    cur,        \* the innermost activation
    running,    \* tmake(running)
    pending,    \* tmake(pending)
    child,      \* what the forked child of a rule has done
    exists,     \* whether all target files of a rule exist
    exitcode,   \* tmake(exitcode)
    signal,     \* a caught signal is pending
    isroot,     \* tmake(isroot)
    targets,    \* the targets of the command line
    mode,       \* "build", then "exiting" inside tmake-exit, then "exited"
    code,       \* the argument of tmake-exit
    started     \* history: how often the commands of a rule were started

env == <<signal, isroot, targets>>
vars == <<status, act, cur, running, pending, child, exists, exitcode,
          env, mode, code, started>>

Init ==
    /\ targets \in CmdLines
    /\ status = [r \in Rules |-> "unknown"]
    /\ act = [a \in Rules \union {Main} |->
                IF a = Main THEN [Idle EXCEPT !.todo = targets] ELSE Idle]
    /\ cur = Main
    /\ running = {}
    /\ pending = [r \in Rules |-> 0]
    /\ child = [r \in Rules |-> "none"]
    /\ exists \in [Rules -> BOOLEAN]
    /\ \A r \in Phony : ~exists[r]   \* a file of that name is ignored anyway
    /\ exitcode = 0
    /\ signal = FALSE
    /\ isroot \in Users
    /\ mode = "build"
    /\ code = 0
    /\ started = [r \in Rules |-> 0]

-----------------------------------------------------------------------------
(* Leaving: tmake-exit waits for the jobs and exits with its argument. *)

TmakeExit(c) == mode' = "exiting" /\ code' = c
Continue     == UNCHANGED <<mode, code>>
ExitIf(cond, c) == IF cond THEN TmakeExit(c) ELSE Continue

\* The test of build: -q was given and something has failed already.
QuickStopped == QuickStop /\ exitcode # 0

\* Mutant: a dependency whose job is running does not count.
OutstandingWaiting(ret) == ret = "waiting"

Outstanding(ret) == ret \in Pending

(***************************************************************************)
(* The caller c of build gets the answer ret.  In a build-deps loop a      *)
(* pending signal ends tmake; a failure is reported and, with -q, ends it. *)
(***************************************************************************)
AnswerDeps(c, ret, acts) ==
    LET failed == ret = "failed"
        f == [acts[c] EXCEPT !.todo = Tail(@),
                             !.wait = @ \/ Outstanding(ret),
                             !.bad  = @ \/ failed]
    IN  /\ act' = [acts EXCEPT ![c] = f]
        /\ exitcode' = IF failed /\ ~signal THEN 1 ELSE exitcode
        /\ IF signal THEN TmakeExit(2) ELSE ExitIf(failed /\ QuickStop, 1)

\* Mutant: make does not report a failed goal that reported nothing itself.
AnswerMainSilent(ret, acts) ==
    /\ LET f == [acts[Main] EXCEPT
                     !.pc   = IF ret \in Pending THEN "wait" ELSE "goal",
                     !.todo = IF ret \in Pending THEN @
                              ELSE IF ret = "failed" THEN <<>> ELSE Tail(@)]
       IN  act' = [acts EXCEPT ![Main] = f]
    /\ UNCHANGED exitcode
    /\ ExitIf(ret = "failed" /\ QuickStop, 1)

\* In the build-sync loop of make: a failed goal ends the loop over the goals.
AnswerMain(ret, acts) ==
    /\ LET f == [acts[Main] EXCEPT
                     !.pc   = IF ret \in Pending THEN "wait" ELSE "goal",
                     !.todo = IF ret \in Pending THEN @
                              ELSE IF ret = "failed" THEN <<>> ELSE Tail(@)]
       IN  act' = [acts EXCEPT ![Main] = f]
    /\ exitcode' = IF ret = "failed" THEN 1 ELSE exitcode
    /\ ExitIf(ret = "failed" /\ QuickStop, 1)

\* In the build-sync loop of find-all-files-on-path: a generated header that
\* fails is reported and is not a dependency.
AnswerScan(c, ret, acts) ==
    LET h == Head(acts[c].todo)
        f == [acts[c] EXCEPT !.pc   = IF ret \in Pending THEN "wait" ELSE @,
                             !.todo = IF ret \in Pending THEN @ ELSE Tail(@),
                             !.dyn  = IF ret \in Settled /\ exists[h]
                                      THEN Append(@, h) ELSE @]
    IN  /\ act' = [acts EXCEPT ![c] = f]
        /\ exitcode' = IF ret = "failed" /\ ~QuickStop THEN 1 ELSE exitcode
        /\ ExitIf(ret = "failed" /\ QuickStop, 1)

Answer(c, ret, acts) ==
    \/ acts[c].pc \in DepLoops /\ AnswerDeps(c, ret, acts)
    \/ acts[c].pc = "sync" /\ c = Main /\ AnswerMain(ret, acts)
    \/ acts[c].pc = "sync" /\ c # Main /\ AnswerScan(c, ret, acts)

-----------------------------------------------------------------------------
(* proc build up to the end of the dependency loops *)

\* The call of build that the innermost activation is about to make.
Calling == /\ mode = "build"
           /\ act[cur].pc \in DepLoops \union {"sync"}
           /\ act[cur].todo # <<>>
Callee == Head(act[cur].todo)

\* Mutant: a rule that is being built is dropped from the dependencies.
RepliesDropCycle(d) ==
    IF d \in Rules /\ status[d] = "checking" THEN {"uptodate"}
    ELSE IF d \in Files THEN {IF d \in Present THEN "uptodate" ELSE "failed"}
    ELSE {status[d]} \intersect (Settled \union {"running", "failed"})

\* The answer of build when it has one at once: d is not a target, or its
\* status is decided, or its job is still running.
Replies(d) ==
    IF d \in Files THEN {IF d \in Present THEN "uptodate" ELSE "failed"}
    ELSE {status[d]} \intersect (Settled \union {"running", "failed"})

BuildKnown ==
    /\ Calling
    /\ \E ret \in Replies(Callee) : Answer(cur, ret, act)
    /\ UNCHANGED <<status, cur, running, pending, child, exists, env, started>>

\* build of a rule that is being built: "Recursive definition", a fatal error.
BuildRecursive ==
    /\ Calling
    /\ Callee \in Rules /\ status[Callee] = "checking"
    /\ exitcode' = 1
    /\ TmakeExit(1)
    /\ UNCHANGED <<status, act, cur, running, pending, child, exists, env,
                   started>>

\* Mutants: a failed rule is tried again, one that is up to date is checked
\* again, one that is running is entered again.
EnterableFailed   == {"unknown", "waiting", "failed"}
EnterableUptodate == {"unknown", "waiting", "uptodate"}
EnterableRunning  == {"unknown", "waiting", "running"}

Enterable == {"unknown", "waiting"}

FirstStatus(r) == IF r \in Phony \/ ~exists[r] THEN "built" ELSE "uptodate"

\* build enters a rule.  Only a build-deps loop passes a notifytarget.
BuildEnter ==
    /\ Calling
    /\ Callee \in Rules /\ status[Callee] \in Enterable
    /\ status' = [status EXCEPT ![Callee] = "checking"]
    /\ act' = [act EXCEPT ![Callee] =
                 [pc |-> "deps", todo |-> Deps[Callee], dyn |-> <<>>,
                  st |-> FirstStatus(Callee), wait |-> FALSE, bad |-> FALSE,
                  by |-> cur,
                  notify |-> IF act[cur].pc = "sync" THEN None ELSE cur]]
    /\ cur' = Callee
    /\ UNCHANGED <<running, pending, child, exists, exitcode, env, mode,
                   code, started>>

\* Mutants: failed dependencies are ignored; after any error nothing waits.
DepsStatusIgnoresFailed(f) == IF f.wait THEN "waiting" ELSE f.st
DepsStatusGivesUp(f) ==
    IF f.bad \/ (f.wait /\ exitcode # 0) THEN "failed"
    ELSE IF f.wait THEN "waiting" ELSE f.st

\* The result of build-deps.
DepsStatus(f) ==
    IF f.wait THEN "waiting" ELSE IF f.bad THEN "failed" ELSE f.st

\* The end of a build-deps loop.  With outstanding or failed dependencies the
\* answer is known; otherwise the dynamic dependencies are next, then Decide.
DepsDone ==
    LET f  == act[cur]
        st == DepsStatus(f)
    IN  /\ mode = "build" /\ f.pc \in DepLoops /\ f.todo = <<>>
        /\ \/ /\ st \notin Settled
              /\ ExitIf(QuickStopped, exitcode)
              /\ act' = [act EXCEPT ![cur].pc = "return", ![cur].st = st]
           \/ /\ st \in Settled /\ f.pc = "deps"
              /\ Continue
              /\ act' = [act EXCEPT ![cur].pc = "sync", ![cur].todo = Scan[cur]]
           \/ /\ st \in Settled /\ f.pc = "dyn"
              /\ ExitIf(QuickStopped, exitcode)
              /\ act' = [act EXCEPT ![cur].pc = "decide"]
    /\ UNCHANGED <<status, cur, running, pending, child, exists, exitcode,
                   env, started>>

\* calc-dyndeps has scanned every input: build-deps over what it found.
ScanDone ==
    /\ mode = "build" /\ cur # Main
    /\ act[cur].pc = "sync" /\ act[cur].todo = <<>>
    /\ act' = [act EXCEPT ![cur].pc = "dyn", ![cur].todo = act[cur].dyn]
    /\ UNCHANGED <<status, cur, running, pending, child, exists, exitcode,
                   env, mode, code, started>>

-----------------------------------------------------------------------------
(* The end of a rule's commands: target-post-build *)

\* The commands of r succeeded and left its targets behind.
Produced(r, ok, there) == ok /\ (r \in Phony \/ there)

\* Mutant: the status is not updated.
PostStatusForgotten(r, ok, there, fin) ==
    IF Produced(r, ok, there) /\ fin THEN status[r] ELSE "failed"

\* What target-post-build makes of r: fin is the success of -finally.
PostStatus(r, ok, there, fin) ==
    IF Produced(r, ok, there) /\ fin THEN "built" ELSE "failed"

\* Mutants: every error counts; the message of a failure is not reported.
PostExitcodeCounts(r, ok, there, fin, msg) ==
    IF (ok /\ ~Produced(r, ok, there)) \/ ~fin \/ msg THEN exitcode + 1 ELSE exitcode
PostExitcodeQuiet(r, ok, there, fin, msg) ==
    IF (ok /\ ~Produced(r, ok, there)) \/ ~fin THEN 1 ELSE exitcode

\* It reports missing targets, a failed -finally, and the message of a failure.
PostExitcode(r, ok, there, fin, msg) ==
    IF (ok /\ ~Produced(r, ok, there)) \/ ~fin \/ msg THEN 1 ELSE exitcode

\* Whether the target is there after commands that ended with outcome o.
Leaves(r, o, there) ==
    IF r \in Phony THEN ~there ELSE o = "ok" => there \/ r \in MayMiss

Finishes(r, fin) == fin \/ r \in Finally

(***************************************************************************)
(* wait-for-one-job reaps job j: post-build, then the rule that asked for  *)
(* it (notifytarget) becomes unknown when nothing is pending, or failed.   *)
(***************************************************************************)
Reap(j) ==
    LET r   == j.rule
        n   == j.notify
        ok  == child[r] = "ok"
    IN  /\ j \in running
        /\ child[r] \in Outcomes
        /\ \E fin \in BOOLEAN :
             LET st == [status EXCEPT ![r] = PostStatus(r, ok, exists[r], fin)]
             IN  /\ Finishes(r, fin)
                 /\ exitcode' = PostExitcode(r, ok, exists[r], fin, child[r] = "fail")
                 /\ status' = IF ~ok THEN [st EXCEPT ![n] = "failed"]
                              ELSE IF pending[n] = 1 /\ st[n] = "waiting"
                              THEN [st EXCEPT ![n] = "unknown"] ELSE st
        /\ exists' = [exists EXCEPT ![r] = @ /\ Produced(r, ok, @)]
        /\ pending' = IF ok THEN [pending EXCEPT ![n] = @ - 1] ELSE pending
        /\ running' = running \ {j}
        /\ child' = [child EXCEPT ![r] = "none"]
        /\ ExitIf(~ok /\ QuickStop, exitcode')

\* build-sync got "waiting" or "running": wait for a job, then call build again.
SyncWait ==
    /\ mode = "build" /\ act[cur].pc = "wait"
    /\ \/ \E j \in running : Reap(j)
       \/ /\ running = {}
          /\ Continue
          /\ UNCHANGED <<status, running, pending, child, exists, exitcode>>
    /\ act' = [act EXCEPT ![cur].pc = "sync"]
    /\ UNCHANGED <<cur, env, started>>

-----------------------------------------------------------------------------
(* proc build: deciding, running the commands, returning *)

\* Hashing the dependencies needs their files.
Unhashable == /\ cur \notin Phony
              /\ \E i \in DOMAIN Deps[cur] :
                   Deps[cur][i] \in Rules /\ ~exists[Deps[cur][i]]

\* calc-file-hash of a missing file: a Tcl error that only callmake catches.
HashError ==
    /\ mode = "build" /\ act[cur].pc = "decide" /\ Unhashable
    /\ exitcode' = 1
    /\ TmakeExit(1)
    /\ UNCHANGED <<status, act, cur, running, pending, child, exists, env,
                   started>>

\* Commands that tmake refuses to run as root.
Refuses(r) == isroot /\ r \in HasDo \ RootOk

\* Whether the rule is out of date.  A rule that has to be built but has no
\* commands is just "built"; one with commands may not run them as root.
Decide(verdict) ==
    LET f == act[cur]
    IN  /\ mode = "build" /\ f.pc = "decide" /\ ~Unhashable
        /\ verdict \in Settled
        /\ f.st = "built" => verdict = "built"
        /\ \/ /\ verdict = "built" /\ Refuses(cur)
              /\ exitcode' = 1
              /\ TmakeExit(1)
              /\ UNCHANGED act
           \/ /\ ~(verdict = "built" /\ Refuses(cur))
              /\ act' = [act EXCEPT
                           ![cur].pc = IF verdict = "built" /\ cur \in HasDo
                                       THEN "run" ELSE "return",
                           ![cur].st = verdict]
              /\ Continue
              /\ UNCHANGED exitcode
        /\ UNCHANGED <<status, cur, running, pending, child, exists, env,
                       started>>

\* fork-job-if-required would fork for the innermost rule.
Backgrounds == /\ MaxJobs > 1
               /\ act[cur].notify # None
               /\ cur \in Forks \ NoFork

Running == mode = "build" /\ act[cur].pc = "run"

\* Mutant: one job too many.
SlotFreeOffByOne == Cardinality(running) <= MaxJobs

SlotFree == Cardinality(running) < MaxJobs

\* wait-for-job-slots
SlotWait ==
    /\ Running /\ Backgrounds /\ ~SlotFree
    /\ \E j \in running : Reap(j)
    /\ UNCHANGED <<act, cur, env, started>>

\* add-new-job, in the parent.
Fork ==
    /\ Running /\ Backgrounds /\ SlotFree
    /\ LET n == act[cur].notify
       IN  /\ running' = running \union {[rule |-> cur, notify |-> n]}
           /\ pending' = [pending EXCEPT ![n] = @ + 1]
    /\ status' = [status EXCEPT ![cur] = "running"]
    /\ child' = [child EXCEPT ![cur] = "live"]
    /\ started' = [started EXCEPT ![cur] = @ + 1]
    /\ act' = [act EXCEPT ![cur].pc = "return", ![cur].st = "running"]
    /\ ExitIf((QuickStop \/ cur \in Fatal) /\ exitcode # 0, exitcode)
    /\ UNCHANGED <<cur, exists, exitcode, env>>

(***************************************************************************)
(* The commands run in tmake itself.  After a signal tmake exits without   *)
(* target-post-build.  The status that build returns, and that Return      *)
(* stores, is the one of the commands, not the one of target-post-build.   *)
(***************************************************************************)
RunSync(o, there, fin) ==
    LET ok == o = "ok"
    IN  /\ Running /\ ~Backgrounds
        /\ o \in Outcomes /\ Leaves(cur, o, there) /\ Finishes(cur, fin)
        /\ started' = [started EXCEPT ![cur] = @ + 1]
        /\ \/ /\ signal
              /\ exists' = [exists EXCEPT ![cur] = there]
              /\ exitcode' = IF o = "fail" THEN 1 ELSE exitcode
              /\ TmakeExit(2)
              /\ UNCHANGED <<status, act>>
           \/ /\ ~signal
              /\ exists' = [exists EXCEPT ![cur] = there /\ Produced(cur, ok, there)]
              /\ exitcode' = PostExitcode(cur, ok, there, fin, o = "fail")
              /\ status' = [status EXCEPT ![cur] = PostStatus(cur, ok, there, fin)]
              /\ act' = [act EXCEPT ![cur].pc = "return",
                           ![cur].st = IF ok THEN "built" ELSE "failed"]
              /\ ExitIf((QuickStop \/ cur \in Fatal) /\ exitcode' # 0, exitcode')
        /\ UNCHANGED <<cur, running, pending, child, env>>

\* Mutant: a rule that waits keeps the mark of being built.
FinalStatusKeepsMark(f) == IF f.st = "waiting" THEN "checking" ELSE f.st

FinalStatus(f) == f.st

\* The end of build: set-rule-status and the answer to the caller.
Return ==
    LET f == act[cur]
    IN  /\ mode = "build" /\ f.pc = "return"
        /\ status' = [status EXCEPT ![cur] = FinalStatus(f)]
        /\ cur' = f.by
        /\ Answer(f.by, f.st, [act EXCEPT ![cur] = Idle])
        /\ UNCHANGED <<running, pending, child, exists, env, started>>

-----------------------------------------------------------------------------
(* make, tmake-exit, and the world outside *)

\* The loop over the goals stops when none is left or something has failed.
NextGoal ==
    /\ mode = "build" /\ cur = Main /\ act[Main].pc = "goal"
    /\ \/ /\ act[Main].todo # <<>> /\ exitcode = 0
          /\ act' = [act EXCEPT ![Main].pc = "sync"]
          /\ Continue
       \/ /\ act[Main].todo = <<>> \/ exitcode # 0
          /\ TmakeExit(exitcode)
          /\ UNCHANGED act
    /\ UNCHANGED <<status, cur, running, pending, child, exists, exitcode,
                   env, started>>

\* wait-for-background-jobs inside tmake-exit, then exit.
ExitReap == /\ mode = "exiting"
            /\ \E j \in running : Reap(j)
            /\ UNCHANGED <<act, cur, env, started>>

\* The loop is over when no job is left, or when a signal interrupts wait; then
\* the children are left behind.
WaitOver == running = {} \/ Signals

Exit == /\ mode = "exiting" /\ WaitOver
        /\ mode' = "exited"
        /\ UNCHANGED <<status, act, cur, running, pending, child, exists,
                       exitcode, env, code, started>>

\* A forked child ends its commands and exits.
ChildExit(r, o, there) ==
    /\ child[r] = "live"
    /\ o \in Outcomes /\ Leaves(r, o, there)
    /\ child' = [child EXCEPT ![r] = o]
    /\ exists' = [exists EXCEPT ![r] = there]
    /\ UNCHANGED <<status, act, cur, running, pending, exitcode, env, mode,
                   code, started>>

Signal == /\ Signals /\ ~signal /\ mode = "build"
          /\ signal' = TRUE
          /\ UNCHANGED <<isroot, targets, status, act, cur, running, pending, child, exists,
                         exitcode, mode, code, started>>

\* The process is gone.
Exited == mode = "exited" /\ UNCHANGED vars

Tmake ==
    \/ NextGoal
    \/ BuildKnown \/ BuildRecursive \/ BuildEnter
    \/ DepsDone \/ ScanDone
    \/ HashError \/ \E v \in Settled : Decide(v)
    \/ SlotWait \/ Fork
    \/ \E o \in Outcomes, there, fin \in BOOLEAN : RunSync(o, there, fin)
    \/ Return \/ SyncWait
    \/ ExitReap \/ Exit

Children == \E r \in Rules, o \in Outcomes, there \in BOOLEAN : ChildExit(r, o, there)

Next == Tmake \/ Children \/ Signal \/ Exited

Spec == Init /\ [][Next]_vars

\* tmake never stops by itself and every command ends.
Fairness == /\ WF_vars(Tmake)
            /\ \A r \in Rules : WF_vars(\E o \in Outcomes, there \in BOOLEAN :
                                           ChildExit(r, o, there))

FairSpec == Spec /\ Fairness

-----------------------------------------------------------------------------
(* Properties *)

\* Every variable keeps its type.
TypeOK ==
    /\ status \in [Rules -> Status]
    /\ act \in [Rules \union {Main} -> Activation]
    /\ cur \in Rules \union {Main}
    /\ running \in SUBSET Jobs
    /\ pending \in [Rules -> Int]
    /\ child \in [Rules -> AllOutcomes \union {"none", "live"}]
    /\ exists \in [Rules -> BOOLEAN]
    /\ exitcode \in {0, 1}
    /\ signal \in BOOLEAN /\ isroot \in BOOLEAN /\ targets \in CmdLines
    /\ mode \in {"build", "exiting", "exited"}
    /\ code \in {0, 1, 2}
    /\ started \in [Rules -> Nat]

\* fork-job-if-required never has more than MAXJOBS children, whichever
\* activation forks and whichever reaps.
SlotBound == Cardinality(running) <= MaxJobs

\* tmake(running) and tmake(rulestatus) agree: a rule is "running" exactly while
\* it has a job, it has one job, and no child is forgotten.  wait-for-one-job
\* overwrites the status of the notifytarget and must not hit such a rule.
JobsAccounted ==
    /\ \A r \in Rules :
         LET has == \E j \in running : j.rule = r
         IN  (status[r] = "running" <=> has) /\ (child[r] # "none" <=> has)
    /\ \A j, k \in running : j.rule = k.rule => j = k

\* The rule a job reports to is still waiting for it, or has failed already:
\* it has not been built, and is not running, behind the job's back.
NotifyWaits ==
    \A j \in running : status[j.notify] \in {"waiting", "checking", "failed"}

Executing(r) == status[r] = "running" \/ (cur = r /\ act[r].pc = "run")

Ready(d) == IF d \in Rules THEN status[d] \in Settled ELSE d \in Present

\* The commands of a rule run only while all its dependencies are built or up
\* to date, and none of them changes its mind meanwhile.
ReadyToRun ==
    \A r \in Rules : Executing(r) =>
        \A i \in DOMAIN Deps[r] : Ready(Deps[r][i])

\* The commands of a rule are started at most once for the goals of one tmake.
AtMostOnce == \A r \in Rules : started[r] <= 1

\* build, target-post-build and wait-for-one-job never revoke "built" or
\* "uptodate".
SettledForGood ==
    [][\A r \in Rules : status[r] \in Settled => status'[r] = status[r]]_vars

\* A rule fails because its own commands ran, or because of a dependency.
FailureHasCause ==
    \A r \in Rules : status[r] = "failed" /\ started[r] = 0 =>
        \E i \in DOMAIN Deps[r] :
            LET d == Deps[r][i]
            IN  IF d \in Rules THEN status[d] = "failed" ELSE d \notin Present

\* Below the goals are the rules that every set has that has the goals, and with
\* a rule its dependencies and what its scan finds.
Needed(S) ==
    /\ Elements(targets) \intersect Rules \subseteq S
    /\ \A r \in S : (Elements(Deps[r]) \union Elements(Scan[r])) \intersect Rules \subseteq S

Below == {r \in Rules : \A S \in SUBSET Rules : Needed(S) => r \in S}

\* tmake exits with 0 only when every goal is built and nothing has failed.
HonestExit ==
    mode = "exited" /\ code = 0 =>
        /\ \A i \in DOMAIN targets : Ready(targets[i])
        /\ \A r \in Rules : status[r] # "failed"

\* One rule depends on another, by itself or through what its scan finds.
StaticEdges == {e \in Rules \X Rules : e[2] \in Elements(Deps[e[1]])}
ScanEdges   == {e \in Rules \X Rules : e[2] \in Elements(Scan[e[1]])}

\* The rules that depend on themselves: r is in every set that has the
\* dependencies of r and of its members.
OnCycle(E) == {r \in Rules : \A S \in SUBSET Rules :
                 (\A e \in E : e[1] \in S \union {r} => e[2] \in S) => r \in S}

OnStaticCycle == OnCycle(StaticEdges)
OnAnyCycle    == OnCycle(StaticEdges \union ScanEdges)

\* "Recursive definition" is reported only for a rule that depends on itself.
RecursionIsReal ==
    Calling /\ Callee \in Rules /\ status[Callee] = "checking" => Callee \in OnAnyCycle

\* A rule that depends on itself is never built, in whatever order its
\* dependencies are reached and its jobs end.  Through a scan it may be, but
\* only after something has failed.
CycleNeverBuilt ==
    \A r \in OnAnyCycle :
        r \in OnStaticCycle \/ exitcode = 0 => started[r] = 0 /\ status[r] \notin Settled

\* The target files of the dependencies are there while the commands run.
InputsExist ==
    \A r \in Rules : Executing(r) =>
        \A i \in DOMAIN Deps[r] :
            Deps[r][i] \in HasDo \ Phony => exists[Deps[r][i]]

\* When a -fatal rule has run and failed no further commands are started.
FatalStops ==
    [][(\E r \in Fatal : status[r] = "failed" /\ started[r] = 1)
          => started' = started]_vars

\* tmake ends: no activation waits for ever and build-sync does not spin.
Termination == <>(mode = "exited")
=============================================================================
