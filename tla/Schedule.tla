------------------------------ MODULE Schedule ------------------------------
(***************************************************************************)
(* What the dependency engine of tmake promises, without jobs, recursion   *)
(* or waiting: every rule is settled once, its commands are started at     *)
(* most once, after everything it needs is good, and a rule goes bad only  *)
(* with its own commands or with something it needs.                       *)
(***************************************************************************)
EXTENDS Naturals, FiniteSets

CONSTANTS
    Rules,
    Needs,      \* Needs[r]: the set of rules that r depends on
    Broken,     \* the rules that depend on a file nobody can make
    Width       \* how many rules may run their commands at the same time

VARIABLE phase

Phases == {"idle", "busy", "good", "bad"}

In(p) == {r \in Rules : phase[r] = p}

Init == phase = [r \in Rules |-> "idle"]

\* The commands of r start.
Start(r) ==
    /\ phase[r] = "idle" /\ r \notin Broken
    /\ Needs[r] \subseteq In("good")
    /\ Cardinality(In("busy")) < Width
    /\ phase' = [phase EXCEPT ![r] = "busy"]

\* There is nothing to do for r.
Skip(r) ==
    /\ phase[r] = "idle" /\ r \notin Broken
    /\ Needs[r] \subseteq In("good")
    /\ phase' = [phase EXCEPT ![r] = "good"]

Succeed(r) == phase[r] = "busy" /\ phase' = [phase EXCEPT ![r] = "good"]

\* The commands of r fail, and with r some of the rules that wait for it.
Fail(r, with) ==
    /\ phase[r] = "busy"
    /\ with \subseteq {n \in In("idle") : r \in Needs[n]}
    /\ phase' = [n \in Rules |-> IF n \in with \union {r} THEN "bad" ELSE phase[n]]

\* r needs something that is bad.
GiveUp(r) ==
    /\ phase[r] = "idle"
    /\ r \in Broken \/ Needs[r] \intersect In("bad") # {}
    /\ phase' = [phase EXCEPT ![r] = "bad"]

Next == \E r \in Rules :
            \/ Start(r) \/ Skip(r) \/ Succeed(r) \/ GiveUp(r)
            \/ \E with \in SUBSET {n \in Rules : r \in Needs[n]} : Fail(r, with)

Spec == Init /\ [][Next]_phase
=============================================================================
