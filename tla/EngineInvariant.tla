--------------------------- MODULE EngineInvariant ---------------------------
(***************************************************************************)
(* The inductive invariant of the dependency engine: what the activations  *)
(* of build on the call stack, the statuses of the rules and the jobs know *)
(* of each other.                                                          *)
(***************************************************************************)
EXTENDS BuildEngine

Active(r) == act[r].pc # "goal"

JobsFor(n) == {j \in running : j.notify = n}

\* make only walks over the goals; a scan only builds targets.
PcsOK ==
    /\ act[Main].pc \in {"goal", "sync", "wait"}
    /\ cur # Main => Active(cur)
    /\ \A r \in Rules : act[r].pc \in {"sync", "wait"} => act[r].todo \in Seq(Rules)

\* The activations form a stack below cur: each was called for the first
\* element of its caller's list, and is told to notify the caller when that is
\* in a build-deps loop.
FrameOK(r) ==
    Active(r) =>
        LET b == act[r].by
        IN  /\ b # cur
            /\ act[b].pc \in {"deps", "sync"}
            /\ act[b].todo # <<>> /\ Head(act[b].todo) = r
            /\ act[r].notify = IF act[b].pc = "sync" THEN None ELSE b
            /\ r # cur => act[r].pc \in {"deps", "sync"}

\* The stack has no gaps: all of it but cur has called something.
CalledOK(r) == Active(r) /\ r # cur => \E p \in Rules : Active(p) /\ act[p].by = r

\* The status of a rule that is being built, as wait-for-one-job and the steps
\* of build may have left it.
StatusOK(r) ==
    /\ status[r] = "checking" => Active(r)
    /\ Active(r) =>
         /\ status[r] \in {"checking", "failed", "running", "built"}
         /\ act[r].pc # "return" => status[r] \in {"checking", "failed"}
    /\ act[r].pc \in {"deps", "sync", "wait", "dyn"} => act[r].st \in Settled
    /\ act[r].pc = "return" /\ mode = "build" =>
         /\ act[r].st \notin {"unknown", "checking"}
         /\ status[r] = "running" <=> act[r].st = "running"
         /\ status[r] = "built" => act[r].st = "built"

AllReady(r) == \A d \in Elements(Deps[r]) : Ready(d)

\* What a loop over dependencies has gone through is settled, or remembered as
\* outstanding or failed.
LoopOK(r) ==
    /\ act[r].pc = "deps" =>
         /\ Elements(act[r].todo) \subseteq Elements(Deps[r])
         /\ \A d \in Elements(Deps[r]) :
              Ready(d) \/ act[r].wait \/ act[r].bad \/ d \in Elements(act[r].todo)
    /\ act[r].pc \in {"sync", "wait", "dyn", "decide", "run"} => AllReady(r)
    /\ act[r].pc \in {"deps", "sync", "wait"} =>
         \A d \in Elements(act[r].dyn) : status[d] \in Settled
    /\ act[r].pc = "dyn" =>
         \A d \in Elements(act[r].todo) : d \in Rules /\ status[d] \in Settled
    /\ status[r] = "running" => AllReady(r)

\* A rule that a job reports to has it among its static dependencies, and does
\* not get past them while the job runs.
JobOK(j) ==
    LET n == j.notify
    IN  /\ j.rule \in Elements(Deps[n])
        /\ status[n] \in {"waiting", "checking", "failed"}
        /\ Active(n) => act[n].pc \in {"deps", "return"}
        /\ act[n].pc = "deps" => act[n].wait \/ j.rule \in Elements(act[n].todo)
        /\ act[n].pc = "return" /\ mode = "build" => act[n].st = "waiting"

\* tmake(pending) counts at least the jobs that run for a rule.
PendingOK == /\ IsFiniteSet(running)
             /\ \A n \in Rules : Cardinality(JobsFor(n)) <= pending[n]

\* The commands of a rule have been started at most once, and then build does
\* not enter the rule again.
StartedOK(r) ==
    started[r] # 0 =>
        /\ started[r] = 1
        /\ mode = "build" =>
             /\ status[r] \in {"running", "built", "failed"}
             /\ Active(r) => /\ act[r].pc = "return"
                             /\ act[r].st \in {"running", "built", "failed"}

\* The inductive invariant.
IInv == /\ TypeOK /\ PcsOK /\ JobsAccounted /\ PendingOK
        /\ \A r \in Rules : FrameOK(r) /\ StatusOK(r) /\ LoopOK(r) /\ StartedOK(r)
        /\ \A j \in running : JobOK(j)
=============================================================================
