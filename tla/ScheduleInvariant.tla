-------------------------- MODULE ScheduleInvariant --------------------------
(***************************************************************************)
(* What the engine knows beyond EngineInvariant when no rule depends on    *)
(* itself: enough to show that it implements the schedule.                 *)
(***************************************************************************)
EXTENDS ScheduledEngine, EngineInvariant

\* What build may be called for while r is being built.
Calls(r) == Elements(Deps[r]) \union Elements(Scan[r])

\* In every set of rules there is one that needs no other of the set.
Acyclic == \A S \in SUBSET Rules : S # {} => \E r \in S : Calls(r) \intersect S = {}

\* A scan builds what it has found, after dependencies that are all ready.
ScanningOK(r) ==
    /\ act[r].pc \in {"sync", "wait"} => Elements(act[r].todo) \subseteq Elements(Scan[r])
    /\ act[r].pc \in {"sync", "wait", "dyn"} => ~act[r].wait /\ ~act[r].bad

\* Dependencies that have failed for good.  A rule on the stack may have been
\* marked failed and yet answer something else.
Failed(d) == IF d \in Rules THEN status[d] = "failed" /\ (mode = "build" => ~Active(d))
                            ELSE d \notin Present

Hopeless(r) == \E d \in Elements(Deps[r]) : Failed(d)

\* What has not been started has failed only with a dependency.
CauseOK(r) ==
    /\ act[r].pc = "deps" /\ act[r].bad => Hopeless(r)
    /\ started[r] = 0 =>
         /\ act[r].pc = "return" /\ act[r].st = "failed" => Hopeless(r)
         /\ status[r] = "failed" => Hopeless(r)
         /\ status[r] # "running"

\* A rule that has just been forked reports to the rule that called it.
ForkedOK(j) == act[j.rule].pc = "return" => j.notify = act[j.rule].notify

\* One process at a time.
SlotsOK == SlotBound /\ (MaxJobs = 1 => running = {})

\* Inductive together with IInv.
SInv == /\ SlotsOK
        /\ \A r \in Rules : CalledOK(r) /\ ScanningOK(r) /\ CauseOK(r)
        /\ \A j \in running : ForkedOK(j)
=============================================================================
