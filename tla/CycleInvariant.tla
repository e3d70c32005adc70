---------------------------- MODULE CycleInvariant ----------------------------
(***************************************************************************)
(* What the engine knows about rules that depend on themselves: the call   *)
(* stack is one path through the dependencies, and no rule on a cycle gets *)
(* through its dependencies.                                               *)
(***************************************************************************)
EXTENDS ExitInvariant

\* The activations that can be followed from a caller to what it has called
\* lead to cur: a set of them that can be left only there has it.
StackOK ==
    \A X \in SUBSET {r \in Rules : Active(r)} :
        X # {} /\ (\A r \in X \ {cur} : \E p \in X : act[p].by = r) => cur \in X

\* r is not through with its dependencies, and its commands have never run.
Untried(r) == ~Through(r) /\ started[r] = 0

CyclesOK == \A r \in OnAnyCycle : r \in OnStaticCycle \/ exitcode = 0 => Untried(r)

\* Inductive together with IInv and XInv.
CInv == StackOK /\ CyclesOK /\ \A r \in Rules : CalledOK(r)
=============================================================================
