--------------------------- MODULE ScheduledEngine ---------------------------
(***************************************************************************)
(* The engine implements the schedule.  A rule that is being built is idle *)
(* until its commands run, whatever wait-for-one-job writes into its       *)
(* status meanwhile, and then what build is about to return.               *)
(***************************************************************************)
EXTENDS BuildEngine

PhaseOf(st) ==
    CASE st \in Settled  -> "good"
      [] st = "failed"   -> "bad"
      [] st = "running"  -> "busy"
      [] OTHER           -> "idle"

RunsHere(r) == cur = r /\ act[r].pc = "run" /\ ~Backgrounds

Phase(r) ==
    IF act[r].pc = "return" THEN PhaseOf(act[r].st)
    ELSE IF act[r].pc = "goal" THEN PhaseOf(status[r])
    ELSE IF RunsHere(r) THEN "busy" ELSE "idle"

RuleDeps(r) == {Deps[r][i] : i \in DOMAIN Deps[r]}

\* Jobs, plus one rule that runs its commands in tmake itself.
Sched == INSTANCE Schedule WITH
    Rules  <- Rules,
    Needs  <- [r \in Rules |-> RuleDeps(r) \intersect Rules],
    Broken <- {r \in Rules : ~(RuleDeps(r) \intersect Files \subseteq Present)},
    Width  <- IF MaxJobs = 1 THEN 1 ELSE MaxJobs + 1,
    phase  <- [r \in Rules |-> Phase(r)]

\* Every step of build, target-post-build and the job handling is a step of the
\* schedule or changes nothing there.
ImplementsSchedule == Sched!Spec
=============================================================================
