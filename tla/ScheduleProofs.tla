---------------------------- MODULE ScheduleProofs ----------------------------
(***************************************************************************)
(* The dependency engine implements the schedule, for any rules among      *)
(* which none depends on itself.                                           *)
(***************************************************************************)
EXTENDS ScheduleInvariant, BuildEngineProofs

\* What the schedule sees of a step.
Seen == [r \in Rules |-> Phase(r)]

-----------------------------------------------------------------------------
(* Steps of the schedule *)

\* Phase c becomes p, the others stay.
Turns(c, p) == Phase(c)' = p /\ \A r \in Rules \ {c} : Phase(r)' = Phase(r)

Scheduled == Sched!Next \/ UNCHANGED Seen

LEMMA Unseen ==
  ASSUME \A r \in Rules : Phase(r)' = Phase(r)
  PROVE  Scheduled
  BY DEF Scheduled, Seen

LEMMA TurnsTo ==
  ASSUME NEW c \in Rules, NEW p, Turns(c, p)
  PROVE  Seen' = [Seen EXCEPT ![c] = p]
  BY DEF Turns, Seen

LEMMA SkipSeen ==
  ASSUME NEW c \in Rules, Phase(c) = "idle",
         \A d \in Elements(Deps[c]) : IF d \in Rules THEN Phase(d) = "good" ELSE d \in Present,
         Turns(c, "good")
  PROVE  Scheduled
  <1>1. Seen' = [Seen EXCEPT ![c] = "good"]
    BY TurnsTo
  <1>2. RuleDeps(c) = Elements(Deps[c])
    BY DEF RuleDeps, Elements
  <1>3. Sched!Skip(c)
    BY <1>1, <1>2, EngineAssumption DEF Seen, Sched!Skip, Sched!In, EngineAssumption
  <1> QED
    BY <1>3 DEF Scheduled, Sched!Next
LEMMA SucceedSeen ==
  ASSUME NEW c \in Rules, Phase(c) = "busy", Turns(c, "good")
  PROVE  Scheduled
  <1>1. Seen' = [Seen EXCEPT ![c] = "good"]
    BY TurnsTo
  <1>2. Sched!Succeed(c)
    BY <1>1 DEF Seen, Sched!Succeed
  <1> QED
    BY <1>2 DEF Scheduled, Sched!Next

LEMMA GiveUpSeen ==
  ASSUME NEW c \in Rules, Phase(c) = "idle", Turns(c, "bad"),
         NEW d \in Elements(Deps[c]), IF d \in Rules THEN Phase(d) = "bad" ELSE d \notin Present
  PROVE  Scheduled
  <1>1. Seen' = [Seen EXCEPT ![c] = "bad"]
    BY TurnsTo
  <1>2. d \in RuleDeps(c) /\ d \in Node
    <2>1. d \in RuleDeps(c)
      BY DEF RuleDeps, Elements
    <2>2. Deps[c] \in Seq(Node)
      BY EngineAssumption DEF EngineAssumption
    <2>3. Deps[c] \in [1 .. Len(Deps[c]) -> Node]
      BY <2>2, LenProperties
    <2> QED
      BY <2>1, <2>3 DEF Elements
  <1>3. Sched!GiveUp(c)
    BY <1>1, <1>2 DEF Seen, Sched!GiveUp, Sched!In, Node
  <1> QED
    BY <1>3 DEF Scheduled, Sched!Next

\* The commands of c fail, and with it rules that wait for it.
LEMMA FailSeen ==
  ASSUME NEW c \in Rules, Phase(c) = "busy", NEW with \in SUBSET Rules,
         \A n \in with : Phase(n) = "idle" /\ c \in Elements(Deps[n]),
         \A r \in Rules : Phase(r)' = IF r \in with \union {c} THEN "bad" ELSE Phase(r)
  PROVE  Scheduled
  <1>1. Seen' = [r \in Rules |-> IF r \in with \union {c} THEN "bad" ELSE Phase(r)]
    BY DEF Seen
  <1>2. \A n \in Rules : Elements(Deps[n]) = RuleDeps(n)
    BY DEF RuleDeps, Elements
  <1>3. Sched!Fail(c, with)
    BY <1>1, <1>2 DEF Seen, Sched!Fail, Sched!In
  <1>4. with \in SUBSET {m \in Rules : c \in [r \in Rules |-> RuleDeps(r) \intersect Rules][m]}
    BY <1>2
  <1>5. Sched!Next
    BY <1>3, <1>4 DEF Sched!Next
  <1> QED
    BY <1>5 DEF Scheduled

\* The phase of a rule does not depend on the loop it is in.
Looping == {"deps", "dyn", "sync", "wait", "decide"}

LEMMA PhaseStays ==
  ASSUME NEW r \in Rules,
         \/ act[r].pc \in Looping /\ act'[r].pc \in Looping
         \/ act'[r] = act[r] /\ act[r].pc = "return"
         \/ act'[r] = act[r] /\ act[r].pc = "run" /\ (cur' = r <=> cur = r)
         \/ act[r].pc = "goal" /\ act'[r].pc = "goal" /\ PhaseOf(status'[r]) = PhaseOf(status[r])
  PROVE  Phase(r)' = Phase(r)
  BY DEF Phase, Looping, RunsHere, Backgrounds, PhaseOf

\* The phase that a rule gets.
LEMMA PhaseNext ==
  ASSUME NEW r \in Rules
  PROVE  /\ act'[r].pc \in Looping => Phase(r)' = "idle"
         /\ act'[r].pc = "run" => Phase(r)' \in {"busy", "idle"}
         /\ act'[r].pc = "return" /\ act'[r].st \in Settled => Phase(r)' = "good"
         /\ act'[r].pc = "return" /\ act'[r].st = "failed" => Phase(r)' = "bad"
         /\ act'[r].pc = "return" /\ act'[r].st = "running" => Phase(r)' = "busy"
         /\ act'[r].pc = "return" /\ act'[r].st \in {"waiting", "unknown"} => Phase(r)' = "idle"
         /\ act'[r].pc = "goal" => Phase(r)' = PhaseOf(status'[r])
  BY DEF Phase, Looping, RunsHere, Backgrounds, PhaseOf, Settled

\* A rule that is not the innermost is on the stack in a loop, or not on it.
LEMMA Inner ==
  ASSUME IInv, NEW r \in Rules
  PROVE  /\ r # cur => act[r].pc \in {"goal", "deps", "sync"}
         /\ act[r].pc \in {"goal", "return", "run"} \union Looping
  <1>1. FrameOK(r) /\ act[r].pc \in Pcs
    BY DEF IInv, TypeOK, Activation
  <1> QED
    BY <1>1 DEF FrameOK, Active, Pcs, DepLoops, Looping

-----------------------------------------------------------------------------
(* The stack *)

\* What build is called for is not on the stack.
LEMMA CalleesIdle ==
  ASSUME Acyclic, IInv, SInv
  PROVE  /\ cur \in Rules => \A d \in Calls(cur) \intersect Rules : ~Active(d)
         /\ cur = Main => \A r \in Rules : ~Active(r)
  <1> DEFINE S == {r \in Rules : Active(r)}
  <1>1. ASSUME S # {} PROVE cur \in S /\ Calls(cur) \intersect S = {}
    <2>1. PICK r \in S : Calls(r) \intersect S = {}
      BY <1>1 DEF Acyclic
    <2>2. ASSUME r # cur PROVE FALSE
      <3>1. PICK p \in Rules : Active(p) /\ act[p].by = r
        BY <2>2 DEF SInv, CalledOK
      <3>2. /\ act[r].pc \in {"deps", "sync"} /\ act[r].todo # <<>>
            /\ Head(act[r].todo) = p
        BY <3>1 DEF IInv, FrameOK
      <3>3. p \in Elements(act[r].todo)
        <4>1. act[r].todo \in Seq(Node)
          BY DEF IInv, TypeOK, Activation
        <4> QED
          BY <3>2, <4>1, TailElements
      <3>4. p \in Calls(r)
        <4>1. CASE act[r].pc = "deps"
          BY <3>3, <4>1 DEF IInv, LoopOK, Calls
        <4>2. CASE act[r].pc = "sync"
          BY <3>3, <4>2 DEF SInv, ScanningOK, Calls
        <4> QED
          BY <3>2, <4>1, <4>2
      <3> QED
        BY <2>1, <3>1, <3>4
    <2> QED
      BY <2>1, <2>2
  <1>2. cur = Main => S = {}
    BY <1>1, Names
  <1>3. cur \in Rules => \A d \in Calls(cur) \intersect Rules : d \notin S
    BY <1>1
  <1> QED
    BY <1>2, <1>3

\* The callee is not, in whichever loop it is called from.
LEMMA CalleeIdle ==
  ASSUME Acyclic, IInv, SInv, Calling, Callee \in Rules
  PROVE  ~Active(Callee)
  <1>1. cur \in Rules \union {Main} /\ act[cur].todo \in Seq(Node) /\ act[cur].todo # <<>>
    BY DEF IInv, TypeOK, Activation, Calling
  <1>2. Callee \in Elements(act[cur].todo)
    BY <1>1, TailElements DEF Callee
  <1>3. CASE cur = Main
    BY <1>3, CalleesIdle
  <1>4. CASE cur \in Rules /\ act[cur].pc = "deps"
    BY <1>2, <1>4, CalleesIdle DEF IInv, LoopOK, Calls
  <1>5. CASE cur \in Rules /\ act[cur].pc = "sync"
    BY <1>2, <1>5, CalleesIdle DEF SInv, ScanningOK, Calls
  <1>6. CASE cur \in Rules /\ act[cur].pc = "dyn"
    <2>1. (status[Callee] \in Settled /\ Callee # cur) \/ ~Active(Callee)
      <3>1. status[Callee] \in Settled
        BY <1>2, <1>6 DEF IInv, LoopOK
      <3>2. StatusOK(cur) /\ StatusOK(Callee)
        BY <1>6 DEF IInv
      <3> QED
        BY <3>1, <3>2, <1>6 DEF StatusOK, Settled
    <2>2. Callee # cur => act[Callee].pc \in {"goal", "deps", "sync"}
      BY Inner
    <2>3. StatusOK(Callee) /\ (status[Callee] \in Settled => status[Callee] \notin {"checking", "failed"})
      BY DEF IInv, Settled
    <2> QED
      BY <2>1, <2>2, <2>3 DEF StatusOK, Active
  <1> QED
    BY <1>1, <1>3, <1>4, <1>5, <1>6 DEF Calling, DepLoops

\* A rule is not among its own dependencies.
LEMMA NotItself == ASSUME Acyclic, NEW r \in Rules PROVE r \notin Calls(r)
  BY {r} \in SUBSET Rules DEF Acyclic

\* What is ready is good for the schedule, what has failed for good is bad.
LEMMA ReadySeen ==
  ASSUME Acyclic, IInv, SInv, cur \in Rules, AllReady(cur)
  PROVE  \A d \in Elements(Deps[cur]) : IF d \in Rules THEN Phase(d) = "good" ELSE d \in Present
  <1>1. \A d \in Elements(Deps[cur]) \intersect Rules : ~Active(d)
    BY CalleesIdle DEF Calls
  <1>2. ASSUME NEW d \in Elements(Deps[cur]), d \in Rules PROVE Phase(d) = "good"
    <2>1. act[d].pc = "goal" /\ status[d] \in Settled
      BY <1>1, <1>2 DEF AllReady, Ready, Active
    <2> QED
      BY <2>1 DEF Phase, PhaseOf, Settled
  <1> QED
    BY <1>2 DEF AllReady, Ready

\* Fewer rules are busy than Width while commands have a slot, or run here.
LEMMA WidthFree ==
  ASSUME IInv, SInv, cur \in Rules, act[cur].pc \in {"decide", "run"}, ~RunsHere(cur),
         Cardinality(running) < MaxJobs \/ act[cur].pc = "decide"
  PROVE  Cardinality({r \in Rules : Phase(r) = "busy"}) < IF MaxJobs = 1 THEN 1 ELSE MaxJobs + 1
  <1> DEFINE B == {r \in Rules : Phase(r) = "busy"}
             J == {j.rule : j \in running}
  <1>1. IsFiniteSet(running) /\ Cardinality(running) \in Nat /\ Cardinality(running) <= MaxJobs
    BY FS_CardinalityType DEF IInv, PendingOK, SInv, SlotsOK, SlotBound
  <1>2. IsFiniteSet(J) /\ Cardinality(J) <= Cardinality(running)
    <2> DEFINE f == [j \in running |-> j.rule]
    <2>1. f \in Surjection(running, J)
      BY DEF Surjection
    <2> QED
      BY <1>1, <2>1, FS_Surjection
  <1>3. B \subseteq J
    <2>1. SUFFICES ASSUME NEW r \in B PROVE r \in J
      OBVIOUS
    <2>2. CASE r = cur
      BY <2>1, <2>2 DEF Phase
    <2>3. CASE r # cur
      <3>1. act[r].pc = "goal" /\ PhaseOf(status[r]) = "busy"
        BY <2>1, <2>3, Inner DEF Phase, RunsHere
      <3>2. status[r] = "running"
        BY <3>1 DEF PhaseOf
      <3> QED
        BY <3>2 DEF IInv, JobsAccounted
    <2> QED
      BY <2>2, <2>3
  <1>4. IsFiniteSet(B) /\ Cardinality(B) <= Cardinality(J)
    BY <1>2, <1>3, FS_Subset
  <1>5. Cardinality(B) \in Nat /\ Cardinality(J) \in Nat /\ MaxJobs \in Nat \ {0}
    BY <1>2, <1>4, FS_CardinalityType, EngineAssumption DEF EngineAssumption
  <1>6. MaxJobs = 1 => Cardinality(running) = 0
    BY FS_EmptySet DEF SInv, SlotsOK
  <1> QED
    BY <1>1, <1>2, <1>4, <1>5, <1>6

LEMMA StartSeen ==
  ASSUME Acyclic, IInv, SInv, NEW c \in Rules, c = cur, AllReady(c),
         act[c].pc \in {"decide", "run"}, ~RunsHere(c),
         Cardinality(running) < MaxJobs \/ act[c].pc = "decide", Turns(c, "busy")
  PROVE  Scheduled
  <1>1. Seen' = [Seen EXCEPT ![c] = "busy"]
    BY TurnsTo
  <1>2. RuleDeps(c) = Elements(Deps[c])
    BY DEF RuleDeps, Elements
  <1>3. \A d \in Elements(Deps[c]) : IF d \in Rules THEN Phase(d) = "good" ELSE d \in Present
    BY ReadySeen
  <1>4. Cardinality({r \in Rules : Phase(r) = "busy"}) < IF MaxJobs = 1 THEN 1 ELSE MaxJobs + 1
    BY WidthFree
  <1>5. Cardinality(Sched!In("busy")) < IF MaxJobs = 1 THEN 1 ELSE MaxJobs + 1
    <2>1. Sched!In("busy") = {r \in Rules : Phase(r) = "busy"}
      BY DEF Sched!In
    <2> QED
      BY <1>4, <2>1
  <1>6. RuleDeps(c) \intersect Rules \subseteq Sched!In("good")
    BY <1>2, <1>3 DEF Sched!In
  <1>7. RuleDeps(c) \intersect Files \subseteq Present
    BY <1>2, <1>3, EngineAssumption DEF EngineAssumption
  <1>8. Phase(c) = "idle"
    BY DEF Phase, RunsHere
  <1>9. Sched!Cardinality(Sched!In("busy")) = Cardinality(Sched!In("busy"))
    BY Zenon DEF Sched!Cardinality, Cardinality
  <1>10. Sched!Start(c)
    BY <1>1, <1>5, <1>6, <1>9, <1>7, <1>8 DEF Seen, Sched!Start
  <1> QED
    BY <1>10 DEF Scheduled, Sched!Next

-----------------------------------------------------------------------------
(* Steps that leave the activations of the rules alone *)

LEMMA SameStep ==
  ASSUME IInv, SInv, cur' = cur, \A a \in Rules : act'[a] = act[a],
         status' = status, running' = running,
         \A r \in Rules : started'[r] = 0 => started[r] = 0,
         mode' = "build" => mode = "build"
  PROVE  SInv' /\ Scheduled
  <1>1. \A r \in Rules : Phase(r)' = Phase(r)
    <2>1. ASSUME NEW r \in Rules PROVE Phase(r)' = Phase(r)
      BY Inner, PhaseStays
    <2> QED
      BY <2>1
  <1>2. \A d : Failed(d) => Failed(d)'
    BY DEF Failed, Active
  <1>3. \A r \in Rules : Hopeless(r) => Hopeless(r)'
    BY <1>2 DEF Hopeless
  <1>4. ASSUME NEW r \in Rules PROVE CalledOK(r)' /\ ScanningOK(r)' /\ CauseOK(r)'
    <2>1. CalledOK(r) /\ ScanningOK(r) /\ CauseOK(r)
      BY DEF SInv
    <2> QED
      BY <2>1, <1>3 DEF CalledOK, ScanningOK, CauseOK, Active
  <1>5. SlotsOK'
    BY DEF SInv, SlotsOK, SlotBound
  <1>6. \A j \in running : ForkedOK(j)'
    BY DEF SInv, ForkedOK, IInv, TypeOK, Jobs
  <1> QED
    BY <1>1, <1>4, <1>5, <1>6, Unseen DEF SInv

LEMMA QuietSteps ==
  ASSUME IInv, SInv,
         NextGoal \/ BuildRecursive \/ HashError \/ Exit \/ Signal \/ Children \/ UNCHANGED vars
  PROVE  SInv' /\ Scheduled
  <1>1. /\ cur' = cur /\ status' = status /\ running' = running /\ started' = started
        /\ mode' = "build" => mode = "build"
    BY DEF NextGoal, BuildRecursive, HashError, Exit, Signal, Children, ChildExit, vars, env,
           TmakeExit
  <1>2. \A a \in Rules : act'[a] = act[a]
    <2>1. CASE NextGoal
      BY <2>1, Names DEF NextGoal, IInv, TypeOK
    <2>2. CASE BuildRecursive \/ HashError \/ Exit \/ Signal \/ Children \/ UNCHANGED vars
      BY <2>2 DEF BuildRecursive, HashError, Exit, Signal, Children, ChildExit, vars
    <2> QED
      BY <2>1, <2>2
  <1> QED
    BY <1>1, <1>2, SameStep

-----------------------------------------------------------------------------
(* Steps of the innermost activation *)

\* The innermost rule c goes on, in the same call of build.
GoesOn(c) ==
    /\ c = cur /\ cur' = cur /\ mode = "build" /\ act[c].pc # "return"
    /\ act'[c].pc # "goal" /\ act'[c].by = act[c].by /\ act'[c].notify = act[c].notify
    /\ \A x \in Rules \ {c} : /\ act'[x] = act[x] /\ status'[x] = status[x]
                              /\ started'[x] = started[x]

LEMMA OthersStay ==
  ASSUME IInv, SInv, NEW c \in Rules, GoesOn(c)
  PROVE  /\ \A r \in Rules : CalledOK(r)' /\ (Hopeless(r) => Hopeless(r)')
         /\ \A r \in Rules \ {c} : ScanningOK(r)' /\ CauseOK(r)' /\ Phase(r)' = Phase(r)
         /\ \A j \in running : ForkedOK(j)'
         /\ Active(c)
  <1>1. Active(c)
    BY Names DEF GoesOn, IInv, PcsOK
  <1>2. \A d : Failed(d) => Failed(d)'
    BY <1>1 DEF Failed, GoesOn, Active
  <1>3. \A r \in Rules : Hopeless(r) => Hopeless(r)'
    BY <1>2 DEF Hopeless
  <1>4. \A r \in Rules : (Active(r)' <=> Active(r)) /\ act'[r].by = act[r].by
    BY <1>1 DEF GoesOn, Active
  <1>5. ASSUME NEW r \in Rules PROVE CalledOK(r)'
    <2>1. CalledOK(r)
      BY DEF SInv
    <2> QED
      BY <1>4, <2>1 DEF CalledOK, GoesOn
  <1>6. ASSUME NEW r \in Rules \ {c} PROVE ScanningOK(r)' /\ CauseOK(r)' /\ Phase(r)' = Phase(r)
    <2>1. ScanningOK(r) /\ CauseOK(r)
      BY DEF SInv
    <2>2. act'[r] = act[r] /\ status'[r] = status[r] /\ started'[r] = started[r]
      BY DEF GoesOn
    <2>3. act[r].pc \in {"goal", "deps", "sync"}
      BY Inner DEF GoesOn
    <2>4. Phase(r)' = Phase(r)
      BY <2>2, <2>3, PhaseStays DEF Looping
    <2> QED
      BY <1>3, <2>1, <2>2, <2>4 DEF ScanningOK, CauseOK
  <1>7. ASSUME NEW j \in running PROVE ForkedOK(j)'
    <2>1. j.rule \in Rules /\ status[j.rule] = "running" /\ ForkedOK(j)
      BY DEF IInv, TypeOK, Jobs, JobsAccounted, SInv
    <2>2. j.rule # c
      BY <1>1, <2>1 DEF IInv, StatusOK, GoesOn
    <2> QED
      BY <2>1, <2>2 DEF ForkedOK, GoesOn
  <1> QED
    BY <1>1, <1>3, <1>5, <1>6, <1>7

\* With the invariant for c itself such a step keeps it.
LEMMA InnerStep ==
  ASSUME IInv, SInv, NEW c \in Rules, GoesOn(c), running' = running,
         ScanningOK(c)', CauseOK(c)'
  PROVE  /\ SInv'
         /\ Turns(c, Phase(c)')
         /\ Phase(c)' = Phase(c) => Scheduled
  <1>1. SlotsOK'
    BY DEF SInv, SlotsOK, SlotBound
  <1> QED
    BY <1>1, OthersStay, Unseen DEF SInv, Turns

LEMMA ScanDoneSeen == ASSUME IInv, SInv, ScanDone PROVE SInv' /\ Scheduled
  <1>1. PICK c \in Rules : c = cur
    BY DEF ScanDone, IInv, TypeOK
  <1>2. /\ act \in [Rules \union {Main} -> Activation] /\ act[c] \in Activation
        /\ act[c].pc = "sync" /\ mode = "build"
        /\ act' = [act EXCEPT ![c].pc = "dyn", ![c].todo = act[c].dyn]
        /\ UNCHANGED <<status, cur, running, started>>
    BY <1>1 DEF ScanDone, IInv, TypeOK
  <1>3. /\ act'[c].pc = "dyn" /\ act'[c].by = act[c].by /\ act'[c].notify = act[c].notify
        /\ act'[c].wait = act[c].wait /\ act'[c].bad = act[c].bad
        /\ \A x \in Rules \ {c} : act'[x] = act[x]
    BY <1>2 DEF Activation
  <1>4. GoesOn(c)
    BY <1>1, <1>2, <1>3 DEF GoesOn
  <1>5. ScanningOK(c)' /\ CauseOK(c)'
    <2>1. ScanningOK(c) /\ CauseOK(c)
      BY DEF SInv
    <2>2. Hopeless(c) => Hopeless(c)'
      BY <1>4, OthersStay
    <2> QED
      BY <1>2, <1>3, <2>1, <2>2 DEF ScanningOK, CauseOK
  <1>6. Phase(c)' = Phase(c)
    BY <1>2, <1>3, PhaseStays DEF Looping
  <1> QED
    BY <1>2, <1>4, <1>5, <1>6, InnerStep

LEMMA DepsDoneSeen == ASSUME Acyclic, IInv, SInv, DepsDone PROVE SInv' /\ Scheduled
  <1>1. PICK c \in Rules : c = cur
    BY DEF DepsDone, IInv, TypeOK, PcsOK, DepLoops
  <1>2. /\ act \in [Rules \union {Main} -> Activation] /\ act[c] \in Activation
        /\ act[c].pc \in DepLoops /\ mode = "build"
        /\ UNCHANGED <<status, cur, running, started>>
    BY <1>1 DEF DepsDone, IInv, TypeOK
  <1>3. StatusOK(c) /\ ScanningOK(c) /\ CauseOK(c) /\ act[c].st \in Settled
    BY <1>2 DEF IInv, SInv, StatusOK, DepLoops
  <1>4. PICK st \in Settled \union {"waiting", "failed"} : st = DepsStatus(act[c])
    BY <1>3 DEF DepsStatus
  <1>5. /\ st \in Settled => ~act[c].wait /\ ~act[c].bad
        /\ st = "failed" => act[c].pc = "deps" /\ act[c].bad
    BY <1>2, <1>3, <1>4 DEF DepsStatus, ScanningOK, DepLoops, Settled
  <1>6. CASE st \notin Settled /\ act' = [act EXCEPT ![c].pc = "return", ![c].st = st]
    <2>1. /\ act'[c].pc = "return" /\ act'[c].st = st /\ act'[c].by = act[c].by
          /\ act'[c].notify = act[c].notify /\ \A x \in Rules \ {c} : act'[x] = act[x]
      BY <1>2, <1>6 DEF Activation
    <2>2. GoesOn(c)
      BY <1>1, <1>2, <2>1 DEF GoesOn, DepLoops
    <2>3. Hopeless(c) => Hopeless(c)'
      BY <2>2, OthersStay
    <2>4. ScanningOK(c)' /\ CauseOK(c)'
      BY <1>2, <1>3, <1>5, <2>1, <2>3 DEF ScanningOK, CauseOK
    <2>5. SInv' /\ Turns(c, Phase(c)') /\ (Phase(c)' = Phase(c) => Scheduled)
      BY <1>2, <2>2, <2>4, InnerStep
    <2>6. Phase(c) = "idle"
      BY <1>2 DEF Phase, RunsHere, DepLoops
    <2>7. CASE st = "waiting"
      BY <2>1, <2>5, <2>6, <2>7, PhaseNext
    <2>8. CASE st = "failed"
      <3>1. Phase(c)' = "bad"
        BY <2>1, <2>8, PhaseNext
      <3>2. PICK d \in Elements(Deps[c]) : Failed(d)
        BY <1>3, <1>5, <2>8 DEF CauseOK, Hopeless
      <3>3. d \in Rules => ~Active(d) /\ status[d] = "failed"
        BY <1>2, <3>2 DEF Failed
      <3>4. d \in Rules => Phase(d) = "bad"
        BY <3>3 DEF Phase, PhaseOf, RunsHere, Active, Settled
      <3>5. d \notin Rules => d \notin Present
        BY <3>2 DEF Failed
      <3> QED
        BY <2>5, <2>6, <3>1, <3>4, <3>5, GiveUpSeen
    <2> QED
      BY <1>6, <2>7, <2>8
  <1>7. CASE st \in Settled /\ act[c].pc = "deps"
             /\ act' = [act EXCEPT ![c].pc = "sync", ![c].todo = Scan[c]]
    <2>1. /\ act'[c].pc = "sync" /\ act'[c].todo = Scan[c] /\ act'[c].by = act[c].by
          /\ act'[c].notify = act[c].notify /\ act'[c].wait = act[c].wait
          /\ act'[c].bad = act[c].bad /\ \A x \in Rules \ {c} : act'[x] = act[x]
      BY <1>2, <1>7 DEF Activation
    <2>2. GoesOn(c)
      BY <1>1, <1>2, <2>1 DEF GoesOn, DepLoops
    <2>3. Hopeless(c) => Hopeless(c)'
      BY <2>2, OthersStay
    <2>4. ScanningOK(c)' /\ CauseOK(c)'
      BY <1>2, <1>3, <1>5, <1>7, <2>1, <2>3 DEF ScanningOK, CauseOK
    <2>5. Phase(c)' = Phase(c)
      BY <1>7, <2>1, PhaseStays DEF Looping
    <2> QED
      BY <1>2, <2>2, <2>4, <2>5, InnerStep
  <1>8. CASE st \in Settled /\ act[c].pc = "dyn" /\ act' = [act EXCEPT ![c].pc = "decide"]
    <2>1. /\ act'[c].pc = "decide" /\ act'[c].by = act[c].by
          /\ act'[c].notify = act[c].notify /\ \A x \in Rules \ {c} : act'[x] = act[x]
      BY <1>2, <1>8 DEF Activation
    <2>2. GoesOn(c)
      BY <1>1, <1>2, <2>1 DEF GoesOn, DepLoops
    <2>3. Hopeless(c) => Hopeless(c)'
      BY <2>2, OthersStay
    <2>4. ScanningOK(c)' /\ CauseOK(c)'
      BY <1>2, <1>3, <2>1, <2>3 DEF ScanningOK, CauseOK
    <2>5. Phase(c)' = Phase(c)
      BY <1>8, <2>1, PhaseStays DEF Looping
    <2> QED
      BY <1>2, <2>2, <2>4, <2>5, InnerStep
  <1> QED
    BY <1>1, <1>4, <1>6, <1>7, <1>8 DEF DepsDone

LEMMA DecideSeen ==
  ASSUME Acyclic, IInv, SInv, NEW verdict \in Settled, Decide(verdict)
  PROVE  SInv' /\ Scheduled
  <1>1. PICK c \in Rules : c = cur
    BY DEF Decide, IInv, TypeOK, PcsOK
  <1>2. /\ act \in [Rules \union {Main} -> Activation] /\ act[c] \in Activation
        /\ act[c].pc = "decide" /\ mode = "build"
        /\ UNCHANGED <<status, cur, running, started>>
    BY <1>1 DEF Decide, IInv, TypeOK
  <1>3. CASE UNCHANGED act
    BY <1>2, <1>3, SameStep
  <1>4. CASE act' = [act EXCEPT ![c].pc = IF verdict = "built" /\ c \in HasDo
                                          THEN "run" ELSE "return",
                                ![c].st = verdict]
    <2>1. /\ act'[c].pc \in {"run", "return"} /\ act'[c].st = verdict /\ act'[c].by = act[c].by
          /\ act'[c].notify = act[c].notify /\ \A x \in Rules \ {c} : act'[x] = act[x]
      BY <1>2, <1>4 DEF Activation
    <2>2. GoesOn(c)
      BY <1>1, <1>2, <2>1 DEF GoesOn
    <2>3. Hopeless(c) => Hopeless(c)'
      BY <2>2, OthersStay
    <2>4. ScanningOK(c)' /\ CauseOK(c)'
      <3>1. CauseOK(c) /\ verdict # "failed"
        BY DEF SInv, Settled
      <3> QED
        BY <1>2, <2>1, <2>3, <3>1 DEF ScanningOK, CauseOK
    <2>5. SInv' /\ Turns(c, Phase(c)') /\ (Phase(c)' = Phase(c) => Scheduled)
      BY <1>2, <2>2, <2>4, InnerStep
    <2>6. Phase(c) = "idle" /\ ~RunsHere(c) /\ AllReady(c)
      BY <1>2 DEF Phase, RunsHere, IInv, LoopOK
    <2>7. CASE act'[c].pc = "return"
      <3>1. Phase(c)' = "good"
        BY <2>1, <2>7, PhaseNext
      <3> QED
        BY <1>1, <2>5, <2>6, <3>1, SkipSeen, ReadySeen
    <2>8. CASE act'[c].pc = "run"
      <3>1. Phase(c)' \in {"busy", "idle"}
        BY <2>8, PhaseNext
      <3> QED
        BY <1>1, <1>2, <2>5, <2>6, <3>1, StartSeen
    <2> QED
      BY <2>1, <2>7, <2>8
  <1> QED
    BY <1>1, <1>3, <1>4 DEF Decide

LEMMA ForkSeen == ASSUME Acyclic, IInv, SInv, Fork PROVE SInv' /\ Scheduled
  <1>1. PICK c \in Rules : c = cur /\ act[c].pc = "run" /\ mode = "build"
    BY DEF Fork, Running, IInv, TypeOK, PcsOK
  <1>2. /\ act \in [Rules \union {Main} -> Activation] /\ act[c] \in Activation
        /\ status \in [Rules -> Status] /\ started \in [Rules -> Nat]
    BY <1>1 DEF IInv, TypeOK
  <1>3. PICK j : j = [rule |-> c, notify |-> act[c].notify]
    OBVIOUS
  <1>4. /\ running' = running \union {j} /\ status' = [status EXCEPT ![c] = "running"]
        /\ started' = [started EXCEPT ![c] = started[c] + 1]
        /\ act' = [act EXCEPT ![c].pc = "return", ![c].st = "running"]
        /\ cur' = cur /\ Backgrounds /\ SlotFree
    BY <1>1, <1>3 DEF Fork
  <1>5. /\ act'[c].pc = "return" /\ act'[c].st = "running" /\ act'[c].by = act[c].by
        /\ act'[c].notify = act[c].notify /\ started'[c] # 0
        /\ \A x \in Rules \ {c} : /\ act'[x] = act[x] /\ status'[x] = status[x]
                                  /\ started'[x] = started[x]
    BY <1>2, <1>4 DEF Activation
  <1>6. GoesOn(c)
    BY <1>1, <1>4, <1>5 DEF GoesOn
  <1>7. /\ \A r \in Rules : CalledOK(r)'
        /\ \A r \in Rules \ {c} : ScanningOK(r)' /\ CauseOK(r)' /\ Phase(r)' = Phase(r)
        /\ \A k \in running : ForkedOK(k)'
    BY <1>6, OthersStay
  <1>8. ScanningOK(c)' /\ CauseOK(c)'
    BY <1>5 DEF ScanningOK, CauseOK
  <1>9. ASSUME NEW k \in running' PROVE ForkedOK(k)'
    <2>1. CASE k = j
      <3>1. j.rule = c /\ j.notify = act[c].notify
        BY <1>3
      <3> QED
        BY <1>5, <2>1, <3>1 DEF ForkedOK
    <2>2. CASE k \in running
      BY <1>7, <2>2
    <2> QED
      BY <1>4, <2>1, <2>2
  <1>10. SlotsOK'
    <2>1. IsFiniteSet(running) /\ Cardinality(running) \in Nat /\ MaxJobs \in Nat
      BY FS_CardinalityType, EngineAssumption DEF IInv, PendingOK, EngineAssumption
    <2>2. Cardinality(running') \in {Cardinality(running), Cardinality(running) + 1}
      BY <1>4, <2>1, FS_AddElement
    <2> QED
      BY <1>4, <2>1, <2>2 DEF SlotsOK, SlotBound, SlotFree, Backgrounds
  <1>11. Phase(c)' = "busy"
    BY <1>5, PhaseNext
  <1>12. Turns(c, "busy") /\ ~RunsHere(c) /\ AllReady(c) /\ Cardinality(running) < MaxJobs
    BY <1>1, <1>4, <1>7, <1>11 DEF Turns, RunsHere, SlotFree, IInv, LoopOK
  <1>13. Scheduled
    BY <1>1, <1>12, StartSeen
  <1> QED
    BY <1>7, <1>8, <1>9, <1>10, <1>13 DEF SInv

LEMMA RunSyncSeen ==
  ASSUME IInv, SInv, NEW o \in Outcomes, NEW there \in BOOLEAN, NEW fin \in BOOLEAN,
         RunSync(o, there, fin)
  PROVE  SInv' /\ Scheduled
  <1>1. PICK c \in Rules : c = cur /\ act[c].pc = "run" /\ mode = "build"
    BY DEF RunSync, Running, IInv, TypeOK, PcsOK
  <1>2. /\ act \in [Rules \union {Main} -> Activation] /\ act[c] \in Activation
        /\ status \in [Rules -> Status] /\ started \in [Rules -> Nat]
        /\ started' = [started EXCEPT ![c] = started[c] + 1]
        /\ cur' = cur /\ running' = running /\ ~Backgrounds
    BY <1>1 DEF RunSync, IInv, TypeOK
  <1>3. started'[c] # 0 /\ \A x \in Rules \ {c} : started'[x] = started[x]
    BY <1>2
  <1>4. CASE UNCHANGED <<status, act>>
    BY <1>1, <1>2, <1>3, <1>4, SameStep
  <1>5. CASE /\ status' = [status EXCEPT ![c] = PostStatus(c, o = "ok", there, fin)]
             /\ act' = [act EXCEPT ![c].pc = "return",
                          ![c].st = IF o = "ok" THEN "built" ELSE "failed"]
    <2>1. /\ act'[c].pc = "return" /\ act'[c].st \in {"built", "failed"}
          /\ act'[c].by = act[c].by /\ act'[c].notify = act[c].notify
          /\ \A x \in Rules \ {c} : act'[x] = act[x] /\ status'[x] = status[x]
      BY <1>2, <1>5 DEF Activation
    <2>2. GoesOn(c)
      BY <1>1, <1>2, <1>3, <2>1 DEF GoesOn
    <2>3. ScanningOK(c)' /\ CauseOK(c)'
      BY <1>3, <2>1 DEF ScanningOK, CauseOK
    <2>4. SInv' /\ Turns(c, Phase(c)')
      BY <1>2, <2>2, <2>3, InnerStep
    <2>5. Phase(c) = "busy"
      BY <1>1, <1>2 DEF Phase, RunsHere
    <2>6. Phase(c)' \in {"good", "bad"}
      BY <2>1, PhaseNext DEF Settled
    <2>7. CASE Phase(c)' = "good"
      BY <2>4, <2>5, <2>7, SucceedSeen
    <2>8. CASE Phase(c)' = "bad"
      <3>1. \A r \in Rules : Phase(r)' = IF r \in {} \union {c} THEN "bad" ELSE Phase(r)
        BY <2>4, <2>8 DEF Turns
      <3> QED
        BY <2>4, <2>5, <3>1, FailSeen
    <2> QED
      BY <2>4, <2>6, <2>7, <2>8
  <1> QED
    BY <1>1, <1>4, <1>5 DEF RunSync

-----------------------------------------------------------------------------
(* Calls and answers *)

\* What AnswerEffect leaves open of a scan.
LEMMA ScanAnswered ==
  ASSUME NEW c \in Rules, NEW ret, NEW acts \in [Rules \union {Main} -> Activation],
         acts[c].pc = "sync", acts[c].todo # <<>>, Answer(c, ret, acts)
  PROVE  /\ Elements(act'[c].todo) \subseteq Elements(acts[c].todo)
         /\ act'[c].wait = acts[c].wait /\ act'[c].bad = acts[c].bad
  <1>1. AnswerScan(c, ret, acts)
    BY Names DEF Answer, DepLoops
  <1>2. acts[c] \in Activation /\ acts[c].todo \in Seq(Node)
    BY DEF Activation
  <1>3. /\ act'[c].todo \in {acts[c].todo, Tail(acts[c].todo)}
        /\ act'[c].wait = acts[c].wait /\ act'[c].bad = acts[c].bad
    BY <1>1, <1>2 DEF AnswerScan, Activation
  <1> QED
    BY <1>2, <1>3, TailElements

LEMMA BuildKnownSeen == ASSUME Acyclic, IInv, SInv, BuildKnown PROVE SInv' /\ Scheduled
  <1>1. PICK c \in Rules \union {Main} : c = cur
    BY DEF IInv, TypeOK
  <1>2. /\ mode = "build" /\ act[c].todo # <<>> /\ Calling
        /\ act[c].pc \in DepLoops \union {"sync"}
        /\ UNCHANGED <<status, cur, running, started>>
    BY <1>1 DEF BuildKnown, Calling
  <1>3. /\ act \in [Rules \union {Main} -> Activation] /\ act[c].todo \in Seq(Node)
        /\ exists \in [Rules -> BOOLEAN] /\ exitcode \in {0, 1} /\ code \in {0, 1, 2}
    BY <1>1 DEF IInv, TypeOK, Activation
  <1>4. PICK d : d = Callee
    OBVIOUS
  <1>5. d \in Node /\ d \in Elements(act[c].todo)
    BY <1>1, <1>2, <1>3, <1>4, TailElements DEF Callee
  <1>6. PICK ret \in Replies(d) : Answer(c, ret, act)
    BY <1>1, <1>4 DEF BuildKnown
  <1>7. ret \in Status /\ (d \in Rules => ret = status[d])
    BY <1>5, <1>6, RepliesMean
  <1>8. Answered(c, ret, act)
    <2>1. act[c].pc = "sync" /\ c # Main => act[c].todo \in Seq(Rules)
      BY <1>1 DEF IInv, PcsOK
    <2>2. mode \in {"build"}
      BY <1>2
    <2> QED
      BY <1>1, <1>2, <1>3, <1>6, <1>7, <2>1, <2>2, AnswerEffect
  <1>9. CASE c = Main
    BY <1>2, <1>8, <1>9, Names, SameStep DEF Answered
  <1>10. CASE c \in Rules
    <2>1. GoesOn(c)
      BY <1>1, <1>2, <1>8, <1>10, Names DEF Answered, GoesOn, DepLoops
    <2>2. Hopeless(c) => Hopeless(c)'
      BY <1>10, <2>1, OthersStay
    <2>3. ScanningOK(c) /\ CauseOK(c) /\ LoopOK(c)
      BY <1>10 DEF SInv, IInv
    <2>4. ScanningOK(c)'
      <3>1. CASE act[c].pc = "sync"
        <4>1. act'[c].pc \in {"sync", "wait"}
          BY <1>8, <1>10, <3>1, Names DEF Answered, DepLoops
        <4> QED
          BY <1>2, <1>3, <1>6, <1>10, <2>3, <3>1, <4>1, ScanAnswered DEF ScanningOK
      <3>2. CASE act[c].pc = "dyn"
        <4>1. act'[c].pc = "dyn" /\ d \in Rules /\ status[d] \in Settled
          BY <1>5, <1>8, <2>3, <3>2 DEF Answered, LoopOK, DepLoops
        <4>2. ~act'[c].wait /\ ~act'[c].bad
          BY <1>7, <1>8, <2>3, <3>2, <4>1 DEF Answered, ScanningOK, DepLoops, Settled, Pending
        <4> QED
          BY <4>1, <4>2 DEF ScanningOK
      <3>3. CASE act[c].pc = "deps"
        BY <1>8, <3>3 DEF Answered, ScanningOK, DepLoops
      <3> QED
        BY <1>2, <3>1, <3>2, <3>3 DEF DepLoops
    <2>5. CauseOK(c)'
      <3>1. ASSUME act'[c].pc = "deps", act'[c].bad PROVE Hopeless(c)'
        <4>1. act[c].pc = "deps" /\ (act[c].bad \/ ret = "failed")
          BY <1>8, <3>1 DEF Answered, DepLoops
        <4>2. CASE ret = "failed"
          <5>1. d \in Elements(Deps[c])
            BY <1>5, <2>3, <4>1 DEF LoopOK
          <5>2. CASE d \in Rules
            <6>1. ~Active(d) /\ status[d] = "failed"
              BY <1>2, <1>4, <1>7, <4>2, <5>2, CalleeIdle
            <6> QED
              BY <2>2, <5>1, <5>2, <6>1 DEF Hopeless, Failed
          <5>3. CASE d \notin Rules
            <6>1. d \notin Present
              BY <1>5, <1>6, <4>2, <5>3 DEF Replies, Node
            <6> QED
              BY <2>2, <5>1, <5>3, <6>1 DEF Hopeless, Failed
          <5> QED
            BY <5>2, <5>3
        <4> QED
          BY <2>2, <2>3, <4>1, <4>2 DEF CauseOK
      <3>2. act'[c].pc # "return"
        BY <1>2, <1>8 DEF Answered, DepLoops
      <3> QED
        BY <1>2, <2>2, <2>3, <3>1, <3>2 DEF CauseOK
    <2>6. Phase(c)' = Phase(c)
      <3>1. act[c].pc \in Looping /\ act'[c].pc \in Looping
        BY <1>2, <1>8, <1>10, Names DEF Answered, DepLoops, Looping
      <3> QED
        BY <1>10, <3>1, PhaseStays
    <2> QED
      BY <1>2, <1>10, <2>1, <2>4, <2>5, <2>6, InnerStep
  <1> QED
    BY <1>9, <1>10

LEMMA BuildEnterSeen == ASSUME Acyclic, IInv, SInv, BuildEnter PROVE SInv' /\ Scheduled
  <1>1. PICK c \in Rules \union {Main}, h \in Rules : c = cur /\ h = Callee
    BY DEF BuildEnter, IInv, TypeOK
  <1>2. /\ act \in [Rules \union {Main} -> Activation] /\ status \in [Rules -> Status]
        /\ act[c].pc \in DepLoops \union {"sync"} /\ Calling
        /\ status[h] \in {"unknown", "waiting"} /\ status' = [status EXCEPT ![h] = "checking"]
        /\ cur' = h /\ UNCHANGED <<running, mode, started>>
    BY <1>1 DEF BuildEnter, Calling, Enterable, IInv, TypeOK
  <1>3. ~Active(h) /\ c # h
    BY <1>1, <1>2, CalleeIdle DEF IInv, PcsOK, Active, DepLoops
  <1>4. /\ act'[h].pc = "deps" /\ act'[h].by = c /\ ~act'[h].bad
        /\ status'[h] = "checking"
        /\ \A x \in Rules \ {h} : act'[x] = act[x] /\ status'[x] = status[x]
    BY <1>1, <1>2 DEF BuildEnter
  <1>5. \A r \in Rules : Hopeless(r) => Hopeless(r)'
    <2>1. \A d : Failed(d) => Failed(d)'
      BY <1>2, <1>4 DEF Failed, Active
    <2> QED
      BY <2>1 DEF Hopeless
  <1>6. ASSUME NEW r \in Rules PROVE CalledOK(r)'
    <2>1. CASE r = h
      BY <1>2, <2>1 DEF CalledOK
    <2>2. CASE r = c
      BY <1>4, <2>2 DEF CalledOK, Active
    <2>3. CASE r # h /\ r # c
      <3>1. SUFFICES ASSUME Active(r) PROVE \E p \in Rules : Active(p)' /\ act'[p].by = r
        BY <1>4, <2>3 DEF CalledOK, Active
      <3>2. PICK p \in Rules : Active(p) /\ act[p].by = r
        BY <1>1, <2>3, <3>1 DEF SInv, CalledOK
      <3> QED
        BY <1>3, <1>4, <3>2 DEF Active
    <2> QED
      BY <2>1, <2>2, <2>3
  <1>7. ASSUME NEW r \in Rules PROVE ScanningOK(r)' /\ CauseOK(r)'
    <2>1. ScanningOK(r) /\ CauseOK(r)
      BY DEF SInv
    <2> QED
      BY <1>2, <1>4, <1>5, <2>1 DEF ScanningOK, CauseOK
  <1>8. \A j \in running' : ForkedOK(j)'
    BY <1>2, <1>4 DEF SInv, ForkedOK, IInv, TypeOK, Jobs
  <1>9. SlotsOK'
    BY <1>2 DEF SInv, SlotsOK, SlotBound
  <1>10. ASSUME NEW r \in Rules PROVE Phase(r)' = Phase(r)
    <2>1. CASE r = h
      <3>1. Phase(r) = "idle"
        BY <1>2, <1>3, <2>1 DEF Phase, RunsHere, PhaseOf, Active, Settled
      <3>2. Phase(r)' = "idle"
        BY <1>4, <2>1, PhaseNext DEF Looping
      <3> QED
        BY <3>1, <3>2
    <2>2. CASE r # h
      <3>1. act[r].pc \in {"goal"} \union Looping
        BY <1>1, <1>2, Inner DEF Looping, DepLoops
      <3> QED
        BY <1>4, <2>2, <3>1, PhaseStays
    <2> QED
      BY <2>1, <2>2
  <1>11. Scheduled
    BY <1>10, Unseen
  <1> QED
    BY <1>6, <1>7, <1>8, <1>9, <1>11 DEF SInv

LEMMA ReturnSeen == ASSUME Acyclic, IInv, SInv, Return PROVE SInv' /\ Scheduled
  <1>1. PICK c \in Rules : c = cur /\ act[c].pc = "return" /\ mode = "build"
    BY DEF Return, IInv, TypeOK, PcsOK
  <1>2. /\ act \in [Rules \union {Main} -> Activation] /\ act[c] \in Activation
        /\ status \in [Rules -> Status] /\ exists \in [Rules -> BOOLEAN]
        /\ exitcode \in {0, 1} /\ code \in {0, 1, 2}
    BY <1>1 DEF IInv, TypeOK
  <1>3. PICK b \in Rules \union {Main}, st \in Status : b = act[c].by /\ st = act[c].st
    BY <1>2 DEF Activation
  <1>4. /\ b # c /\ act[b].pc \in {"deps", "sync"}
        /\ act[b].todo # <<>> /\ Head(act[b].todo) = c
    BY <1>1, <1>3 DEF IInv, FrameOK, Active
  <1>5. /\ st \in Settled \union {"failed", "running", "waiting"}
        /\ status[c] = "running" <=> st = "running"
    BY <1>1, <1>3 DEF IInv, StatusOK, Active, Status, Pending
  <1>6. PICK acts : acts = [act EXCEPT ![c] = Idle]
    OBVIOUS
  <1>7. Idle \in Activation /\ Idle.pc = "goal"
    BY EmptySeq DEF Idle, Activation, Pcs, Status
  <1>8. /\ acts \in [Rules \union {Main} -> Activation] /\ acts[c] = Idle
        /\ \A a \in (Rules \union {Main}) \ {c} : acts[a] = act[a]
    BY <1>2, <1>6, <1>7
  <1>9. /\ status' = [status EXCEPT ![c] = st] /\ cur' = b /\ Answer(b, st, acts)
        /\ UNCHANGED <<running, started>>
    BY <1>1, <1>3, <1>6 DEF Return, FinalStatus
  <1>10. Answered(b, st, acts)
    <2>1. acts[b].todo # <<>> /\ mode \in {"build"}
      BY <1>1, <1>4, <1>8
    <2>2. acts[b].pc = "sync" /\ b # Main => acts[b].todo \in Seq(Rules)
      BY <1>4, <1>8 DEF IInv, PcsOK
    <2> QED
      BY <1>2, <1>8, <1>9, <2>1, <2>2, AnswerEffect
  <1>11. /\ act'[c].pc = "goal" /\ act'[b].by = act[b].by
         /\ \A x \in Rules \ {b, c} : act'[x] = act[x]
         /\ status'[c] = st /\ \A x \in Rules \ {c} : status'[x] = status[x]
    BY <1>2, <1>4, <1>7, <1>8, <1>9, <1>10 DEF Answered
  <1>12. b \in Rules =>
           \/ /\ act[b].pc = "deps" /\ act'[b].pc = "deps"
              /\ act'[b].bad <=> act[b].bad \/ st = "failed"
           \/ act[b].pc = "sync" /\ act'[b].pc \in {"sync", "wait"}
    BY <1>4, <1>8, <1>10, Names DEF Answered, DepLoops
  <1>13. \A r \in Rules : Hopeless(r) => Hopeless(r)'
    <2>1. \A d : Failed(d) => Failed(d)'
      BY <1>1, <1>4, <1>11 DEF Failed, Active
    <2> QED
      BY <2>1 DEF Hopeless
  <1>14. st = "failed" => Failed(c)'
    BY <1>11 DEF Failed, Active
  <1>15. ASSUME NEW r \in Rules PROVE CalledOK(r)'
    <2>1. SUFFICES ASSUME Active(r)', r # b PROVE \E p \in Rules : Active(p)' /\ act'[p].by = r
      BY <1>9 DEF CalledOK
    <2>2. r # c /\ Active(r)
      BY <1>11, <2>1 DEF Active
    <2>3. PICK p \in Rules : Active(p) /\ act[p].by = r
      BY <1>1, <2>2 DEF SInv, CalledOK
    <2>4. p # c
      BY <1>3, <2>1, <2>3
    <2> QED
      BY <1>11, <1>12, <2>3, <2>4 DEF Active
  <1>16. ASSUME NEW r \in Rules PROVE ScanningOK(r)'
    <2>1. ScanningOK(r)
      BY DEF SInv
    <2>2. CASE r = b /\ act[b].pc = "sync"
      <3>1. /\ Elements(act'[b].todo) \subseteq Elements(act[b].todo)
            /\ act'[b].wait = act[b].wait /\ act'[b].bad = act[b].bad
        BY <1>4, <1>8, <1>9, <2>2, ScanAnswered, ZenonT(30)
      <3> QED
        BY <1>12, <2>1, <2>2, <3>1 DEF ScanningOK
    <2>3. CASE ~(r = b /\ act[b].pc = "sync")
      BY <1>4, <1>11, <1>12, <2>1, <2>3 DEF ScanningOK
    <2> QED
      BY <2>2, <2>3
  <1>17. ASSUME NEW r \in Rules PROVE CauseOK(r)'
    <2>1. CauseOK(r) /\ LoopOK(r)
      BY DEF SInv, IInv
    <2>2. CASE r = c
      BY <1>1, <1>3, <1>5, <1>9, <1>11, <1>13, <2>1, <2>2 DEF CauseOK
    <2>3. CASE r = b
      <3>1. act[b].pc = "deps" => c \in Elements(Deps[b])
        <4>1. act[b].todo \in Seq(Node)
          BY <1>2 DEF Activation
        <4>2. c \in Elements(act[b].todo)
          BY <1>4, <4>1, TailElements
        <4> QED
          BY <2>1, <2>3, <4>2 DEF LoopOK
      <3>2. act[b].pc = "deps" /\ st = "failed" => Hopeless(b)'
        BY <1>14, <3>1 DEF Hopeless
      <3> QED
        BY <1>4, <1>9, <1>11, <1>12, <1>13, <2>1, <2>3, <3>2 DEF CauseOK
    <2>4. CASE r \notin {b, c}
      BY <1>9, <1>11, <1>13, <2>1, <2>4 DEF CauseOK
    <2> QED
      BY <2>2, <2>3, <2>4
  <1>18. \A j \in running' : ForkedOK(j)'
    BY <1>9, <1>11, <1>12 DEF SInv, ForkedOK, IInv, TypeOK, Jobs
  <1>19. SlotsOK'
    BY <1>9 DEF SInv, SlotsOK, SlotBound
  <1>20. ASSUME NEW r \in Rules PROVE Phase(r)' = Phase(r)
    <2>1. CASE r = c
      <3>1. Phase(c) = PhaseOf(st)
        BY <1>1, <1>3 DEF Phase, RunsHere
      <3>2. Phase(c)' = PhaseOf(st)
        BY <1>11, PhaseNext
      <3> QED
        BY <2>1, <3>1, <3>2
    <2>2. CASE r = b
      BY <1>4, <1>12, <2>2, PhaseStays DEF Looping
    <2>3. CASE r \notin {b, c}
      <3>1. act[r].pc \in {"goal"} \union Looping
        BY <1>1, <2>3, Inner DEF Looping
      <3> QED
        BY <1>11, <2>3, <3>1, PhaseStays
    <2> QED
      BY <2>1, <2>2, <2>3
  <1>21. Scheduled
    BY <1>20, Unseen
  <1> QED
    BY <1>15, <1>16, <1>17, <1>18, <1>19, <1>21 DEF SInv

-----------------------------------------------------------------------------
(* Jobs *)

\* What ReapEffect leaves open: a rule is marked failed with the job's.
LEMMA ReapFails ==
  ASSUME IInv, NEW j \in running, Reap(j),
         status'[j.notify] = "failed", status[j.notify] # "failed"
  PROVE  status'[j.rule] = "failed"
  <1>1. PICK r \in Rules, n \in Rules : r = j.rule /\ n = j.notify
    BY DEF IInv, TypeOK, Jobs
  <1>2. status \in [Rules -> Status] /\ r # n /\ status[n] # "failed"
    BY <1>1 DEF IInv, TypeOK, JobsAccounted, JobOK
  <1>3. PICK fin \in BOOLEAN :
          LET st == [status EXCEPT ![r] = PostStatus(r, child[r] = "ok", exists[r], fin)]
          IN  status' = IF child[r] # "ok" THEN [st EXCEPT ![n] = "failed"]
                        ELSE IF pending[n] = 1 /\ st[n] = "waiting"
                        THEN [st EXCEPT ![n] = "unknown"] ELSE st
    BY <1>1 DEF Reap
  <1>4. child[r] # "ok"
    BY <1>1, <1>2, <1>3
  <1>5. PostStatus(r, child[r] = "ok", exists[r], fin) = "failed"
    BY <1>4 DEF PostStatus, Produced
  <1> QED
    BY <1>1, <1>2, <1>3, <1>4, <1>5

\* A job is reaped: its rule is settled, and with it may fail the rule that
\* waits for it, unless that is still being built.
LEMMA ReapSeen ==
  ASSUME Acyclic, IInv, SInv, NEW j \in running, Reap(j),
         mode = "build" => act[cur].pc \in {"wait", "run"},
         \A a \in Rules :
           \/ act'[a] = act[a]
           \/ /\ act[a].pc = "wait" /\ act'[a].pc = "sync" /\ act'[a].todo = act[a].todo
              /\ act'[a].by = act[a].by /\ act'[a].wait = act[a].wait
              /\ act'[a].bad = act[a].bad,
         cur' = cur, started' = started
  PROVE  SInv' /\ Scheduled
  <1>1. PICK r \in Rules, n \in Rules : r = j.rule /\ n = j.notify
    BY DEF IInv, TypeOK, Jobs
  <1>2. /\ r # n /\ running' = running \ {j} /\ status'[r] \in {"built", "failed"}
        /\ \/ status'[n] \in {status[n], "failed"}
           \/ status[n] = "waiting" /\ status'[n] = "unknown"
        /\ \A x \in Rules \ {r, n} : status'[x] = status[x]
        /\ mode' \in {mode, "exiting"}
    BY <1>1, ReapEffect DEF Reaped
  <1>3. /\ status[r] = "running" /\ status[n] \in {"waiting", "checking", "failed"}
        /\ r \in Elements(Deps[n]) /\ StatusOK(r) /\ StatusOK(n) /\ FrameOK(r)
    BY <1>1 DEF IInv, JobsAccounted, JobOK
  <1>4. status'[n] = "failed" /\ status[n] # "failed" => status'[r] = "failed"
    BY <1>1, ReapFails
  <1>5. Active(r) => act[r].pc = "return" /\ mode # "build"
    <2>1. Active(r) => act[r].pc = "return"
      BY <1>3 DEF StatusOK
    <2>2. r # cur => act[r].pc # "return"
      BY Inner
    <2> QED
      BY <2>1, <2>2
  <1>6. \A a \in Rules : Active(a)' <=> Active(a)
    BY DEF Active
  <1>7. \A x \in Rules : Hopeless(x) => Hopeless(x)'
    <2>1. \A d : Failed(d) => Failed(d)'
      BY <1>2, <1>3, <1>6 DEF Failed
    <2> QED
      BY <2>1 DEF Hopeless
  <1>8. status'[n] = "failed" => status[n] = "failed" \/ Hopeless(n)'
    <2>1. status'[r] = "failed" => Failed(r)'
      BY <1>2, <1>5, <1>6 DEF Failed
    <2> QED
      BY <1>3, <1>4, <2>1 DEF Hopeless
  <1>9. ASSUME NEW x \in Rules PROVE CalledOK(x)' /\ ScanningOK(x)' /\ CauseOK(x)'
    <2>1. CalledOK(x) /\ ScanningOK(x) /\ CauseOK(x)
      BY DEF SInv
    <2>2. CalledOK(x)'
      <3>1. \A a \in Rules : act'[a].by = act[a].by
        OBVIOUS
      <3> QED
        BY <1>6, <2>1, <3>1 DEF CalledOK
    <2>3. ScanningOK(x)'
      BY <2>1 DEF ScanningOK
    <2>4. CauseOK(x)'
      <3>1. CASE x = r
        <4>1. started[r] # 0
          BY <1>3, <2>1, <3>1 DEF CauseOK
        <4> QED
          BY <1>7, <2>1, <3>1, <4>1 DEF CauseOK
      <3>2. CASE x = n
        BY <1>2, <1>3, <1>7, <1>8, <2>1, <3>2 DEF CauseOK
      <3>3. CASE x \notin {r, n}
        BY <1>2, <1>7, <2>1, <3>3 DEF CauseOK
      <3> QED
        BY <3>1, <3>2, <3>3
    <2> QED
      BY <2>2, <2>3, <2>4
  <1>10. \A k \in running' : ForkedOK(k)'
    BY <1>2 DEF SInv, ForkedOK, IInv, TypeOK, Jobs
  <1>11. SlotsOK'
    <2>1. IsFiniteSet(running) /\ Cardinality(running) \in Nat /\ MaxJobs \in Nat
      BY FS_CardinalityType, EngineAssumption DEF IInv, PendingOK, EngineAssumption
    <2>2. Cardinality(running') = Cardinality(running) - 1
      BY <1>2, <2>1, FS_RemoveElement
    <2> QED
      BY <1>2, <2>1, <2>2 DEF SInv, SlotsOK, SlotBound
  <1>12. ASSUME NEW x \in Rules, x \notin {r, n} \/ Active(x) PROVE Phase(x)' = Phase(x)
    <2>1. CASE act[x].pc = "goal"
      BY <1>2, <1>12, <2>1, PhaseStays DEF Active
    <2>2. CASE act[x].pc # "goal"
      <3>1. CASE act'[x] = act[x]
        BY <2>2, <3>1, Inner, PhaseStays
      <3>2. CASE act[x].pc = "wait" /\ act'[x].pc = "sync"
        BY <3>2, PhaseStays DEF Looping
      <3> QED
        BY <3>1, <3>2
    <2> QED
      BY <2>1, <2>2
  <1>13. ASSUME Active(r) PROVE Scheduled
    <2>1. act[n].pc = "deps" /\ Active(n)
      <3>1. n = act[r].notify
        BY <1>1, <1>5, <1>13 DEF SInv, ForkedOK
      <3> QED
        BY <1>3, <1>13, <3>1, Names DEF FrameOK, Active
    <2> QED
      <3>1. ASSUME NEW x \in Rules PROVE Phase(x)' = Phase(x)
        BY <1>12, <1>13, <2>1
      <3> QED
        BY <3>1, Unseen
  <1>14. ASSUME ~Active(r) PROVE Scheduled
    <2>1. act[r].pc = "goal" /\ act'[r].pc = "goal"
      BY <1>6, <1>14 DEF Active
    <2>2. Phase(r) = "busy"
      BY <1>3, <2>1 DEF Phase, RunsHere, PhaseOf, Settled
    <2>3. Phase(r)' = IF status'[r] = "built" THEN "good" ELSE "bad"
      BY <1>2, <2>1, PhaseNext DEF PhaseOf, Settled
    <2>4. CASE Phase(n)' = Phase(n)
      <3>1. \A x \in Rules \ {r} : Phase(x)' = Phase(x)
        BY <1>12, <2>4
      <3>2. CASE status'[r] = "built"
        BY <2>2, <2>3, <3>1, <3>2, SucceedSeen DEF Turns
      <3>3. CASE status'[r] # "built"
        <4>1. \A x \in Rules : Phase(x)' = IF x \in {} \union {r} THEN "bad" ELSE Phase(x)
          BY <2>3, <3>1, <3>3
        <4> QED
          BY <2>2, <4>1, FailSeen
      <3> QED
        BY <3>2, <3>3
    <2>5. CASE Phase(n)' # Phase(n)
      <3>1. ~Active(n)
        BY <1>12, <2>5
      <3>2. act[n].pc = "goal" /\ act'[n].pc = "goal" /\ status[n] # "checking"
        BY <1>3, <1>6, <3>1 DEF Active, StatusOK
      <3>3. Phase(n) = PhaseOf(status[n]) /\ Phase(n)' = PhaseOf(status'[n])
        BY <3>2, PhaseNext DEF Phase, RunsHere
      <3>4. status[n] = "waiting" /\ status'[n] = "failed"
        BY <1>2, <1>3, <2>5, <3>2, <3>3 DEF PhaseOf, Settled
      <3>5. Phase(n) = "idle" /\ Phase(n)' = "bad" /\ Phase(r)' = "bad"
        BY <1>4, <2>3, <3>3, <3>4 DEF PhaseOf, Settled
      <3>6. \A x \in Rules : Phase(x)' = IF x \in {n} \union {r} THEN "bad" ELSE Phase(x)
        BY <1>12, <3>5
      <3> QED
        BY <1>3, <2>2, <3>5, <3>6, FailSeen, ZenonT(30)
    <2> QED
      BY <2>4, <2>5
  <1>15. Scheduled
    BY <1>13, <1>14
  <1> QED
    BY <1>9, <1>10, <1>11, <1>15 DEF SInv

LEMMA WaitSeen ==
  ASSUME Acyclic, IInv, SInv, SlotWait \/ SyncWait \/ ExitReap
  PROVE  SInv' /\ Scheduled
  <1>1. CASE SlotWait \/ ExitReap
    <2>1. PICK j \in running : Reap(j)
      BY <1>1 DEF SlotWait, ExitReap
    <2>2. UNCHANGED <<act, cur, started>> /\ (mode = "build" => act[cur].pc = "run")
      BY <1>1 DEF SlotWait, ExitReap, Running
    <2> QED
      BY <2>1, <2>2, ReapSeen
  <1>2. CASE SyncWait
    <2>1. PICK c \in Rules \union {Main} : c = cur
      BY DEF IInv, TypeOK
    <2>2. /\ act \in [Rules \union {Main} -> Activation] /\ act[c] \in Activation
          /\ act[c].pc = "wait" /\ mode = "build" /\ act' = [act EXCEPT ![c].pc = "sync"]
          /\ UNCHANGED <<cur, started>>
      BY <1>2, <2>1 DEF IInv, TypeOK, SyncWait
    <2>3. /\ act'[c].pc = "sync" /\ act'[c].todo = act[c].todo /\ act'[c].by = act[c].by
          /\ act'[c].notify = act[c].notify
          /\ act'[c].wait = act[c].wait /\ act'[c].bad = act[c].bad
          /\ \A x \in (Rules \union {Main}) \ {c} : act'[x] = act[x]
      BY <2>2 DEF Activation
    <2>4. CASE \E j \in running : Reap(j)
      BY <2>1, <2>2, <2>3, <2>4, ReapSeen
    <2>5. CASE UNCHANGED <<status, running>>
      <3>1. CASE c = Main
        BY <2>1, <2>2, <2>3, <2>5, <3>1, Names, SameStep
      <3>2. CASE c \in Rules
        <4>1. GoesOn(c)
          BY <2>1, <2>2, <2>3, <2>5 DEF GoesOn
        <4>2. Hopeless(c) => Hopeless(c)'
          BY <3>2, <4>1, OthersStay
        <4>3. ScanningOK(c)' /\ CauseOK(c)'
          <5>1. ScanningOK(c) /\ CauseOK(c)
            BY <3>2 DEF SInv
          <5> QED
            BY <2>2, <2>3, <2>5, <4>2, <5>1 DEF ScanningOK, CauseOK
        <4>4. Phase(c)' = Phase(c)
          BY <2>2, <2>3, <3>2, PhaseStays DEF Looping
        <4> QED
          BY <2>5, <3>2, <4>1, <4>3, <4>4, InnerStep
      <3> QED
        BY <3>1, <3>2
    <2> QED
      BY <1>2, <2>4, <2>5 DEF SyncWait
  <1> QED
    BY <1>1, <1>2

-----------------------------------------------------------------------------
(* Theorems *)

LEMMA NextSeen == ASSUME Acyclic, IInv, SInv, [Next]_vars PROVE SInv' /\ Scheduled
  <1>1. CASE NextGoal \/ BuildRecursive \/ HashError \/ Exit \/ Signal \/ Exited
             \/ Children \/ UNCHANGED vars
    BY <1>1, QuietSteps DEF Exited
  <1>2. CASE BuildKnown
    BY <1>2, BuildKnownSeen
  <1>3. CASE BuildEnter
    BY <1>3, BuildEnterSeen
  <1>4. CASE DepsDone
    BY <1>4, DepsDoneSeen
  <1>5. CASE ScanDone
    BY <1>5, ScanDoneSeen
  <1>6. CASE \E v \in Settled : Decide(v)
    BY <1>6, DecideSeen
  <1>7. CASE SlotWait \/ SyncWait \/ ExitReap
    BY <1>7, WaitSeen
  <1>8. CASE Fork
    BY <1>8, ForkSeen
  <1>9. CASE \E o \in Outcomes, there, fin \in BOOLEAN : RunSync(o, there, fin)
    BY <1>9, RunSyncSeen
  <1>10. CASE Return
    BY <1>10, ReturnSeen
  <1> QED
    BY <1>1, <1>2, <1>3, <1>4, <1>5, <1>6, <1>7, <1>8, <1>9, <1>10 DEF Next, Tmake

LEMMA InitSeen == Init => SInv /\ Sched!Init
  <1> SUFFICES ASSUME Init PROVE SInv /\ Sched!Init
    OBVIOUS
  <1>1. /\ cur = Main /\ running = {}
        /\ \A r \in Rules : /\ act[r] = Idle /\ status[r] = "unknown" /\ started[r] = 0
    BY Names DEF Init
  <1>2. Idle.pc = "goal"
    BY DEF Idle
  <1>3. \A r \in Rules : CalledOK(r) /\ ScanningOK(r) /\ CauseOK(r)
    BY <1>1, <1>2 DEF CalledOK, ScanningOK, CauseOK, Active
  <1>4. SlotsOK
    BY <1>1, FS_EmptySet, EngineAssumption DEF SlotsOK, SlotBound, EngineAssumption
  <1>5. \A r \in Rules : Phase(r) = "idle"
    BY <1>1, <1>2 DEF Phase, RunsHere, PhaseOf, Settled
  <1>6. Sched!Init
    BY <1>5 DEF Sched!Init
  <1> QED
    BY <1>1, <1>3, <1>4, <1>6 DEF SInv

\* When no rule depends on itself, no call of build meets a rule that is being
\* built, and failures that are remembered have a cause.
THEOREM ScheduleInvariance == ASSUME Acyclic PROVE Spec => [](IInv /\ SInv)
  <1>1. Init => IInv /\ SInv
    BY InitInvariant, InitSeen
  <1>2. (IInv /\ SInv) /\ [Next]_vars => (IInv /\ SInv)'
    BY NextInvariant, StutterInvariant, NextSeen
  <1> QED
    BY <1>1, <1>2, PTL DEF Spec

\* Whatever build, target-post-build and the jobs do is a step of the schedule
\* or changes nothing there.
THEOREM EngineFollowsSchedule == ASSUME Acyclic PROVE Spec => ImplementsSchedule
  <1>1. Init => Sched!Init
    BY InitSeen
  <1>2. (IInv /\ SInv) /\ [Next]_vars => [Sched!Next]_([r \in Rules |-> Phase(r)])
    BY NextSeen DEF Scheduled, Seen
  <1> QED
    BY ScheduleInvariance, <1>1, <1>2, PTL DEF Spec, ImplementsSchedule, Sched!Spec

\* A rule fails with its own commands or with a dependency, never by itself.
THEOREM FailuresHaveCauses == ASSUME Acyclic PROVE Spec => []FailureHasCause
  <1>1. ASSUME SInv, NEW r \in Rules, status[r] = "failed", started[r] = 0
        PROVE  \E i \in DOMAIN Deps[r] :
                 LET d == Deps[r][i]
                 IN  IF d \in Rules THEN status[d] = "failed" ELSE d \notin Present
    <2>1. PICK d \in Elements(Deps[r]) : Failed(d)
      BY <1>1 DEF SInv, CauseOK, Hopeless
    <2>2. PICK i \in DOMAIN Deps[r] : d = Deps[r][i]
      BY DEF Elements
    <2> QED
      BY <2>1, <2>2 DEF Failed
  <1>2. SInv => FailureHasCause
    BY <1>1 DEF FailureHasCause
  <1> QED
    BY ScheduleInvariance, <1>2, PTL
=============================================================================
