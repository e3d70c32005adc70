----------------------------- MODULE ExitInvariant -----------------------------
(***************************************************************************)
(* What the engine knows beyond EngineInvariant about the goals: enough to *)
(* show that an exit code of 0 can be trusted.                             *)
(***************************************************************************)
EXTENDS EngineInvariant

\* With -q a job that fails without a message ends tmake before anyone reports it.
FailuresReported == QuickStop /\ MaxJobs > 1 => "quiet" \notin Outcomes

\* Without -j nothing is forked.
ForksOK == MaxJobs = 1 => running = {}

\* Nothing has been reported yet.
Clean == mode = "build" /\ exitcode = 0

\* A rule with all its loops behind it.
Through(r) ==
    \/ status[r] \in Settled \union {"running"}
    \/ act[r].pc \in {"dyn", "decide", "run"}
    \/ act[r].pc = "return" /\ act[r].st \in Settled \union {"running"}

\* As long as nothing has been reported, what a rule needs is ready when it has
\* gone through it.
ThroughOK(r) ==
    /\ act[r].pc \in {"sync", "wait"} => Elements(act[r].todo) \subseteq Elements(Scan[r])
    /\ Clean =>
         /\ act[r].pc \in {"sync", "wait"} =>
              \A d \in Elements(Scan[r]) : status[d] \in Settled \/ d \in Elements(act[r].todo)
         /\ Through(r) => AllReady(r) /\ \A d \in Elements(Scan[r]) : status[d] \in Settled

\* Only rules below the goals have been touched.
TouchedOK(r) == status[r] # "unknown" => r \in Below

\* Goals that are done with are ready.
GoalsOK ==
    /\ Elements(act[Main].todo) \subseteq Elements(targets)
    /\ Clean => \A t \in Elements(targets) : Ready(t) \/ t \in Elements(act[Main].todo)

\* tmake leaves with 0 when there is nothing left to do.
LeavingOK ==
    FailuresReported /\ mode # "build" /\ code = 0 =>
        /\ running = {}
        /\ \A t \in Elements(targets) : Ready(t)
        /\ \A r \in Below : status[r] \in Settled
        /\ \A r \in Rules : status[r] # "failed"

\* Inductive together with IInv.
XInv == ForksOK /\ GoalsOK /\ LeavingOK /\ \A r \in Rules : ThroughOK(r) /\ TouchedOK(r)
=============================================================================
