----------------------------- MODULE CycleProofs -----------------------------
(***************************************************************************)
(* Theorems about rules that depend on themselves: "Recursive definition"  *)
(* is reported only for them, and they are not built.                      *)
(***************************************************************************)
EXTENDS CycleInvariant, BuildEngineProofs

(* Cycles *)

Edges == StaticEdges \union ScanEdges

\* What r depends on, directly or not.
Beyond(E, d) ==
    {r \in Rules : \A S \in SUBSET Rules : (\A e \in E : e[1] \in S \union {d} => e[2] \in S) => r \in S}

\* A cycle goes on: who depends on itself depends on one that does.
LEMMA CycleGoesOn ==
  ASSUME NEW E \in SUBSET (Rules \X Rules), NEW r \in OnCycle(E)
  PROVE  \E d \in OnCycle(E) : <<r, d>> \in E
  <1>1. r \in Rules
    BY DEF OnCycle
  <1>2. PICK T \in SUBSET Rules :
          T = {x \in Rules : \E e \in E : e[1] = r /\ (x = e[2] \/ x \in Beyond(E, e[2]))}
    OBVIOUS
  <1>3. ASSUME NEW e \in E, e[1] \in T \union {r} PROVE e[2] \in T
    <2>1. e[1] \in Rules /\ e[2] \in Rules
      OBVIOUS
    <2>2. CASE e[1] = r
      BY <1>2, <2>1, <2>2
    <2>3. CASE e[1] \in T
      <3>1. PICK f \in E : f[1] = r /\ (e[1] = f[2] \/ e[1] \in Beyond(E, f[2]))
        BY <1>2, <2>3
      <3>2. e[2] \in Beyond(E, f[2])
        <4>1. ASSUME NEW S \in SUBSET Rules, \A g \in E : g[1] \in S \union {f[2]} => g[2] \in S
              PROVE  e[2] \in S
          BY <3>1, <4>1 DEF Beyond
        <4> QED
          BY <2>1, <4>1 DEF Beyond
      <3> QED
        BY <1>2, <2>1, <3>1, <3>2
    <2> QED
      BY <1>3, <2>2, <2>3
  <1>4. r \in T
    BY <1>3 DEF OnCycle
  <1>5. PICK e \in E : e[1] = r /\ (r = e[2] \/ r \in Beyond(E, e[2]))
    BY <1>2, <1>4
  <1>6. e[2] \in Rules /\ e = <<r, e[2]>>
    BY <1>5
  <1>7. CASE r = e[2]
    BY <1>5, <1>6, <1>7
  <1>8. CASE r \in Beyond(E, e[2])
    <2>1. ASSUME NEW S \in SUBSET Rules, \A g \in E : g[1] \in S \union {e[2]} => g[2] \in S
          PROVE  e[2] \in S
      BY <1>5, <1>8, <2>1 DEF Beyond
    <2>2. e[2] \in OnCycle(E)
      BY <1>6, <2>1 DEF OnCycle
    <2> QED
      BY <1>6, <2>2
  <1> QED
    BY <1>5, <1>7, <1>8

\* The edges are what build walks along.
LEMMA EdgesMean ==
  ASSUME NEW r \in Rules, NEW d \in Rules
  PROVE  /\ <<r, d>> \in StaticEdges <=> d \in Elements(Deps[r])
         /\ <<r, d>> \in ScanEdges <=> d \in Elements(Scan[r])
  BY DEF StaticEdges, ScanEdges

LEMMA OnStaticIsAny == OnStaticCycle \subseteq Rules /\ OnAnyCycle \subseteq Rules
  BY DEF OnStaticCycle, OnAnyCycle, OnCycle

\* A rule on a cycle needs another one that is on it.
LEMMA CycleNeeds ==
  ASSUME NEW r \in Rules
  PROVE  /\ r \in OnStaticCycle => \E d \in OnStaticCycle : d \in Elements(Deps[r])
         /\ r \in OnAnyCycle => \E d \in OnAnyCycle : d \in Elements(Deps[r]) \union Elements(Scan[r])
  <1>1. StaticEdges \in SUBSET (Rules \X Rules) /\ Edges \in SUBSET (Rules \X Rules)
    BY DEF StaticEdges, ScanEdges, Edges
  <1>2. ASSUME r \in OnStaticCycle PROVE \E d \in OnStaticCycle : d \in Elements(Deps[r])
    <2>1. PICK d \in OnCycle(StaticEdges) : <<r, d>> \in StaticEdges
      BY <1>1, <1>2, CycleGoesOn DEF OnStaticCycle
    <2> QED
      BY <2>1, EdgesMean DEF OnStaticCycle, OnCycle
  <1>3. ASSUME r \in OnAnyCycle
        PROVE  \E d \in OnAnyCycle : d \in Elements(Deps[r]) \union Elements(Scan[r])
    <2>1. PICK d \in OnCycle(Edges) : <<r, d>> \in Edges
      BY <1>1, <1>3, CycleGoesOn DEF OnAnyCycle, Edges
    <2> QED
      BY <2>1, EdgesMean DEF OnAnyCycle, OnCycle, Edges
  <1> QED
    BY <1>2, <1>3

\* A static cycle is a cycle.
LEMMA StaticIsAny == OnStaticCycle \subseteq OnAnyCycle
  <1>1. ASSUME NEW r \in OnStaticCycle, NEW S \in SUBSET Rules,
               \A e \in StaticEdges \union ScanEdges : e[1] \in S \union {r} => e[2] \in S
        PROVE  r \in S
    BY <1>1 DEF OnStaticCycle, OnCycle
  <1> QED
    BY <1>1 DEF OnStaticCycle, OnAnyCycle, OnCycle

-----------------------------------------------------------------------------
(* The call stack *)

\* Steps that neither call build nor return from it.
LEMMA StackStays ==
  ASSUME IInv, Next, ~BuildEnter, ~Return
  PROVE  /\ cur' = cur
         /\ \A r \in Rules : (Active(r)' <=> Active(r)) /\ act'[r].by = act[r].by
  <1> USE Names
  <1>1. /\ act \in [Rules \union {Main} -> Activation] /\ status \in [Rules -> Status]
        /\ exists \in [Rules -> BOOLEAN] /\ exitcode \in {0, 1} /\ code \in {0, 1, 2}
        /\ cur \in Rules \union {Main}
    BY DEF IInv, TypeOK
  <1>2. CASE NextGoal \/ BuildRecursive \/ HashError \/ Exit \/ Signal \/ Exited \/ Children
    <2>1. cur' = cur /\ \A r \in Rules : act'[r] = act[r]
      BY <1>1, <1>2 DEF NextGoal, BuildRecursive, HashError, Exit, Signal, Exited, Children,
                         ChildExit, vars
    <2> QED
      BY <2>1 DEF Active
  <1>3. CASE SlotWait \/ SyncWait \/ ExitReap
    <2>1. cur' = cur
      BY <1>3 DEF SlotWait, SyncWait, ExitReap
    <2>2. act' = act \/ (act[cur].pc = "wait" /\ act' = [act EXCEPT ![cur].pc = "sync"])
      BY <1>3 DEF SlotWait, SyncWait, ExitReap
    <2>3. ASSUME NEW r \in Rules
          PROVE  (act'[r].pc = "goal" <=> act[r].pc = "goal") /\ act'[r].by = act[r].by
      <3>1. CASE r = cur /\ act' # act
        BY <1>1, <2>2, <3>1 DEF Activation
      <3>2. CASE r # cur \/ act' = act
        BY <1>1, <2>2, <3>2
      <3> QED
        BY <3>1, <3>2
    <2> QED
      BY <2>1, <2>3 DEF Active
  <1>4. CASE DepsDone \/ ScanDone
    <2>1. cur \in Rules /\ act[cur].pc \in DepLoops \union {"sync"} /\ cur' = cur
      BY <1>1, <1>4 DEF DepsDone, ScanDone, DepLoops, IInv, PcsOK
    <2>2. \A r \in Rules \ {cur} : act'[r] = act[r]
      BY <1>1, <1>4, <2>1 DEF DepsDone, ScanDone
    <2>3. act'[cur].pc # "goal" /\ act'[cur].by = act[cur].by
      BY <1>1, <1>4, <2>1 DEF DepsDone, ScanDone, Activation
    <2> QED
      BY <2>1, <2>2, <2>3 DEF Active, DepLoops
  <1>5. CASE (\E v \in Settled : Decide(v)) \/ Fork \/ (\E o \in Outcomes, there, fin \in BOOLEAN : RunSync(o, there, fin))
    <2>1. cur \in Rules /\ act[cur].pc \in {"decide", "run"} /\ cur' = cur
      BY <1>1, <1>5 DEF Decide, Fork, RunSync, Running, IInv, PcsOK
    <2>2. \A r \in Rules \ {cur} : act'[r] = act[r]
      BY <1>1, <1>5, <2>1 DEF Decide, Fork, RunSync
    <2>0. act[cur] \in Activation /\ act[cur].pc # "goal"
      BY <1>1, <2>1
    <2>3. act'[cur].pc # "goal" /\ act'[cur].by = act[cur].by
      <3>1. CASE \E v \in Settled : Decide(v)
        BY <1>1, <2>0, <2>1, <3>1 DEF Decide, Activation
      <3>2. CASE Fork
        BY <1>1, <2>0, <2>1, <3>2 DEF Fork, Activation
      <3>3. CASE \E o \in Outcomes, there, fin \in BOOLEAN : RunSync(o, there, fin)
        <4>1. PICK o \in Outcomes, there \in BOOLEAN, fin \in BOOLEAN : RunSync(o, there, fin)
          BY <3>3
        <4>2. \/ act' = act
              \/ act' = [act EXCEPT ![cur].pc = "return",
                                    ![cur].st = IF o = "ok" THEN "built" ELSE "failed"]
          BY <4>1 DEF RunSync
        <4> QED
          BY <1>1, <2>0, <2>1, <4>2 DEF Activation
      <3> QED
        BY <1>5, <3>1, <3>2, <3>3
    <2> QED
      BY <2>1, <2>2, <2>3 DEF Active
  <1>6. CASE BuildKnown
    <2>1. PICK c \in Rules \union {Main} : c = cur
      BY <1>1
    <2>2. /\ mode = "build" /\ act[c].pc \in DepLoops \union {"sync"} /\ act[c].todo # <<>>
          /\ cur' = cur /\ act[c].todo \in Seq(Node)
      BY <1>1, <1>6, <2>1 DEF BuildKnown, Calling, Activation
    <2>3. PICK d \in Node : d = Head(act[c].todo)
      BY <2>2, TailElements
    <2>4. PICK ret \in Replies(d) : Answer(c, ret, act)
      BY <1>6, <2>1, <2>3 DEF BuildKnown, Callee
    <2>5. ret \in Status
      BY <2>3, <2>4, RepliesMean
    <2>6. Answered(c, ret, act)
      <3>1. act[c].pc = "sync" /\ c # Main => act[c].todo \in Seq(Rules)
        BY DEF IInv, PcsOK
      <3>2. mode \in {"build"}
        BY <2>2
      <3> QED
        BY <1>1, <2>2, <2>4, <2>5, <3>1, <3>2, AnswerEffect
    <2>7. ASSUME NEW r \in Rules
          PROVE  (act'[r].pc = "goal" <=> act[r].pc = "goal") /\ act'[r].by = act[r].by
      <3>1. CASE r = c
        BY <2>2, <2>6, <3>1 DEF Answered, DepLoops
      <3>2. CASE r # c
        BY <2>6, <3>2 DEF Answered
      <3> QED
        BY <3>1, <3>2
    <2> QED
      BY <2>2, <2>7 DEF Active
  <1> QED
    BY <1>2, <1>3, <1>4, <1>5, <1>6 DEF Next, Tmake

LEMMA StackKept ==
  ASSUME IInv, StackOK, \A r \in Rules : CalledOK(r), cur' = cur,
         \A r \in Rules : (Active(r)' <=> Active(r)) /\ act'[r].by = act[r].by
  PROVE  StackOK' /\ \A r \in Rules : CalledOK(r)'
  <1>1. StackOK'
    BY DEF StackOK
  <1>2. \A r \in Rules : CalledOK(r)'
    BY DEF CalledOK
  <1> QED
    BY <1>1, <1>2

\* The rule that build enters is called by the innermost one.
LEMMA EnterStack ==
  ASSUME IInv, StackOK, \A r \in Rules : CalledOK(r), BuildEnter
  PROVE  StackOK' /\ \A r \in Rules : CalledOK(r)'
  <1>1. PICK h \in Rules :
          /\ h = Callee /\ status[h] \in {"unknown", "waiting"}
          /\ act'[h].pc = "deps" /\ act'[h].by = cur /\ cur' = h
          /\ \A x \in Rules \ {h} : act'[x] = act[x]
    BY DEF BuildEnter, Enterable, IInv, TypeOK
  <1>2. ~Active(h)
    BY <1>1 DEF IInv, StatusOK, Active
  <1>3. ASSUME NEW X \in SUBSET {r \in Rules : Active(r)'}, X # {},
               \A r \in X \ {h} : \E p \in X : act'[p].by = r
        PROVE  h \in X
    <2>1. SUFFICES ASSUME h \notin X PROVE FALSE
      OBVIOUS
    <2>2. X \in SUBSET {r \in Rules : Active(r)} /\ \A r \in X : \E p \in X : act[p].by = r
      BY <1>1, <1>3, <2>1 DEF Active
    <2>3. cur \in X
      BY <1>3, <2>2 DEF StackOK
    <2>4. PICK p \in X : act[p].by = cur /\ Active(p)
      BY <2>2, <2>3
    <2> QED
      BY <2>2, <2>4 DEF IInv, FrameOK
  <1>4. StackOK'
    BY <1>1, <1>3 DEF StackOK
  <1>5. ASSUME NEW r \in Rules, Active(r)', r # h PROVE \E p \in Rules : Active(p)' /\ act'[p].by = r
    <2>1. Active(r)
      BY <1>1, <1>5 DEF Active
    <2>2. CASE r = cur
      BY <1>1, <2>2 DEF Active
    <2>3. CASE r # cur
      <3>1. PICK p \in Rules : Active(p) /\ act[p].by = r
        BY <2>1, <2>3 DEF CalledOK
      <3> QED
        BY <1>1, <1>2, <3>1 DEF Active
    <2> QED
      BY <2>2, <2>3
  <1> QED
    BY <1>1, <1>4, <1>5 DEF CalledOK

\* It is the innermost one that build returns from.
LEMMA ReturnStack ==
  ASSUME IInv, StackOK, \A r \in Rules : CalledOK(r), Return
  PROVE  StackOK' /\ \A r \in Rules : CalledOK(r)'
  <1> USE Names
  <1>1. PICK c \in Rules, b \in Rules \union {Main} :
          /\ c = cur /\ act[c].pc = "return" /\ b = act[c].by /\ cur' = b
          /\ act[c] \in Activation /\ mode = "build"
    BY DEF Return, IInv, TypeOK, PcsOK, Activation
  <1>2. /\ b # c /\ act[b].pc \in {"deps", "sync"} /\ act[b].todo # <<>>
    BY <1>1 DEF IInv, FrameOK, Active
  <1>3. /\ act \in [Rules \union {Main} -> Activation] /\ status \in [Rules -> Status]
        /\ exists \in [Rules -> BOOLEAN] /\ exitcode \in {0, 1} /\ code \in {0, 1, 2}
    BY DEF IInv, TypeOK
  <1>4. PICK st \in Status : st = act[c].st
    BY <1>1 DEF Activation
  <1>5. PICK acts : acts = [act EXCEPT ![c] = Idle]
    OBVIOUS
  <1>6. /\ acts \in [Rules \union {Main} -> Activation] /\ acts[c] = Idle
        /\ \A a \in (Rules \union {Main}) \ {c} : acts[a] = act[a]
    <2>1. Idle \in Activation
      BY EmptySeq DEF Idle, Activation, Pcs, Status
    <2> QED
      BY <1>3, <1>5, <2>1
  <1>7. Answered(b, st, acts)
    <2>1. acts[b].pc = "sync" /\ b # Main => acts[b].todo \in Seq(Rules)
      BY <1>2, <1>6 DEF IInv, PcsOK
    <2>2. mode \in {"build"} /\ acts[b].todo # <<>> /\ Answer(b, st, acts)
      BY <1>1, <1>2, <1>4, <1>6, <1>5 DEF Return
    <2> QED
      BY <1>3, <1>6, <2>1, <2>2, AnswerEffect
  <1>8. /\ ~Active(c)'
        /\ \A x \in Rules \ {c} : act'[x].by = act[x].by /\ (Active(x)' <=> Active(x))
    <2>1. act'[c].pc = "goal"
      BY <1>2, <1>6, <1>7 DEF Answered, Idle
    <2>2. ASSUME NEW x \in Rules \ {c}
          PROVE  act'[x].by = act[x].by /\ (act'[x].pc = "goal" <=> act[x].pc = "goal")
      <3>1. CASE x = b
        BY <1>2, <1>6, <1>7, <3>1 DEF Answered, DepLoops
      <3>2. CASE x # b
        BY <1>6, <1>7, <3>2 DEF Answered
      <3> QED
        BY <3>1, <3>2
    <2> QED
      BY <2>1, <2>2 DEF Active
  <1>9. ASSUME NEW X \in SUBSET {r \in Rules : Active(r)'}, X # {},
               \A r \in X \ {b} : \E p \in X : act'[p].by = r
        PROVE  b \in X
    <2>1. SUFFICES ASSUME b \notin X PROVE FALSE
      OBVIOUS
    <2>2. c \notin X /\ X \in SUBSET {r \in Rules : Active(r)}
      BY <1>8
    <2>3. \A r \in X : \E p \in X : act[p].by = r
      BY <1>8, <1>9, <2>1, <2>2
    <2>4. c \in X
      BY <1>1, <1>9, <2>2, <2>3 DEF StackOK
    <2> QED
      BY <2>2, <2>4
  <1>10. StackOK'
    BY <1>1, <1>9 DEF StackOK
  <1>11. ASSUME NEW r \in Rules, Active(r)', r # b PROVE \E p \in Rules : Active(p)' /\ act'[p].by = r
    <2>1. r # c /\ Active(r)
      BY <1>8, <1>11
    <2>2. PICK p \in Rules : Active(p) /\ act[p].by = r
      BY <1>1, <2>1 DEF CalledOK
    <2>3. p # c
      BY <1>1, <1>11, <2>2
    <2> QED
      BY <1>8, <2>2, <2>3
  <1> QED
    BY <1>1, <1>10, <1>11 DEF CalledOK

-----------------------------------------------------------------------------
(* Rules on a cycle *)

\* Getting through begins with the end of a scan.
LEMMA ThroughStarts ==
  ASSUME IInv, Next, NEW r \in Rules, Through(r)', ~Through(r)
  PROVE  ScanDone /\ r = cur
  <1> USE Names
  <1>1. PICK c \in Rules \union {Main} : c = cur
    BY DEF IInv, TypeOK
  <1>2. /\ act \in [Rules \union {Main} -> Activation] /\ status \in [Rules -> Status]
        /\ exists \in [Rules -> BOOLEAN] /\ exitcode \in {0, 1} /\ code \in {0, 1, 2}
    BY DEF IInv, TypeOK
  <1>3. ~(act'[r].pc = act[r].pc /\ act'[r].st = act[r].st /\ status'[r] = status[r])
    BY DEF Through
  <1>4. ~(NextGoal \/ BuildRecursive \/ HashError \/ Exit \/ Signal \/ Exited \/ Children)
    BY <1>2, <1>3 DEF NextGoal, BuildRecursive, HashError, Exit, Signal, Exited, Children,
                      ChildExit, vars
  <1>5. ~BuildEnter
    <2>1. SUFFICES ASSUME BuildEnter PROVE FALSE
      OBVIOUS
    <2>2. PICK h \in Rules : /\ act'[h].pc = "deps" /\ status'[h] = "checking"
                             /\ \A x \in Rules \ {h} : act'[x] = act[x] /\ status'[x] = status[x]
      BY <2>1 DEF BuildEnter, IInv, TypeOK
    <2> QED
      BY <1>3, <2>2 DEF Through, Settled
  <1>6. ~(\E j \in running : Reap(j) /\ (act' = act \/ act' = [act EXCEPT ![cur].pc = "sync"]))
    <2>1. SUFFICES ASSUME NEW j \in running, Reap(j), act' = act \/ act' = [act EXCEPT ![cur].pc = "sync"]
                   PROVE  FALSE
      OBVIOUS
    <2>2. Reaped(j) /\ status[j.rule] = "running"
      BY <2>1, ReapEffect DEF IInv, JobsAccounted, Reaped
    <2>3. status'[r] \in Settled \union {"running"} => status[r] \in Settled \union {"running"}
      BY <2>2 DEF Reaped, Settled
    <2>4. act'[r] = act[r] \/ act'[r].pc = "sync"
      BY <1>2, <2>1 DEF Activation
    <2> QED
      BY <2>3, <2>4 DEF Through
  <1>7. ~(SlotWait \/ SyncWait \/ ExitReap)
    <2>1. SUFFICES ASSUME SyncWait, UNCHANGED status PROVE FALSE
      BY <1>6 DEF SlotWait, SyncWait, ExitReap
    <2>2. act'[r] = act[r] \/ act'[r].pc = "sync"
      BY <1>2, <2>1 DEF SyncWait, Activation
    <2> QED
      BY <1>3, <2>1, <2>2 DEF Through
  <1>8. ~(Fork \/ \E o \in Outcomes, there, fin \in BOOLEAN : RunSync(o, there, fin))
    <2>1. SUFFICES ASSUME Fork \/ \E o \in Outcomes, there, fin \in BOOLEAN : RunSync(o, there, fin)
                   PROVE  FALSE
      OBVIOUS
    <2>2. /\ act[cur].pc = "run" /\ cur \in Rules
          /\ \A x \in Rules \ {cur} : act'[x] = act[x] /\ status'[x] = status[x]
      BY <1>2, <2>1 DEF Fork, RunSync, Running, IInv, TypeOK, PcsOK
    <2> QED
      BY <1>3, <2>2 DEF Through
  <1>9. ~\E v \in Settled : Decide(v)
    <2>1. SUFFICES ASSUME NEW v \in Settled, Decide(v) PROVE FALSE
      OBVIOUS
    <2>2. /\ act[cur].pc = "decide"
          /\ \A x \in (Rules \union {Main}) \ {cur} : act'[x] = act[x]
          /\ status' = status
      BY <1>2, <2>1 DEF Decide
    <2> QED
      BY <1>3, <2>2 DEF Through
  <1>10. ~DepsDone
    <2>1. SUFFICES ASSUME DepsDone PROVE FALSE
      OBVIOUS
    <2>2. status' = status /\ \A x \in (Rules \union {Main}) \ {cur} : act'[x] = act[x]
      BY <1>2, <2>1 DEF DepsDone
    <2>3. r = cur /\ act[r] \in Activation /\ mode = "build"
      BY <1>2, <1>3, <2>1, <2>2 DEF DepsDone
    <2>4. act[r].pc = "deps" /\ act[r].st \in Settled
      BY <2>1, <2>3 DEF DepsDone, DepLoops, Through, IInv, StatusOK
    <2>5. \/ act'[r].pc = "sync"
          \/ act'[r].pc = "return" /\ act'[r].st = DepsStatus(act[r]) /\ DepsStatus(act[r]) \notin Settled
      <3>1. PICK st : st = DepsStatus(act[r])
        OBVIOUS
      <3>2. \/ st \notin Settled /\ act' = [act EXCEPT ![r].pc = "return", ![r].st = st]
            \/ act' = [act EXCEPT ![r].pc = "sync", ![r].todo = Scan[r]]
        BY <2>1, <2>3, <2>4, <3>1 DEF DepsDone
      <3> QED
        BY <1>2, <2>3, <3>1, <3>2 DEF Activation
    <2>6. DepsStatus(act[r]) \in {"waiting", "failed"} \union Settled
      BY <2>4 DEF DepsStatus
    <2> QED
      BY <2>2, <2>5, <2>6 DEF Through
  <1>11. ~BuildKnown
    <2>1. SUFFICES ASSUME BuildKnown PROVE FALSE
      OBVIOUS
    <2>2. /\ mode = "build" /\ act[c].pc \in DepLoops \union {"sync"} /\ act[c].todo # <<>>
          /\ status' = status /\ act[c].todo \in Seq(Node)
      BY <1>1, <1>2, <2>1 DEF BuildKnown, Calling, Activation
    <2>3. PICK d \in Node : d = Head(act[c].todo)
      BY <2>2, TailElements
    <2>4. PICK ret \in Replies(d) : Answer(c, ret, act)
      BY <1>1, <2>1, <2>3 DEF BuildKnown, Callee
    <2>5. ret \in Status
      BY <2>3, <2>4, RepliesMean
    <2>6. Answered(c, ret, act)
      <3>1. act[c].pc = "sync" /\ c # Main => act[c].todo \in Seq(Rules)
        BY DEF IInv, PcsOK
      <3>2. mode \in {"build"}
        BY <2>2
      <3> QED
        BY <1>2, <2>2, <2>4, <2>5, <3>1, <3>2, AnswerEffect
    <2>7. r = c
      BY <1>3, <2>2, <2>6 DEF Answered
    <2>8. act'[r].pc \in {"sync", "wait"}
      BY <1>3, <2>2, <2>6, <2>7 DEF Answered
    <2> QED
      BY <2>2, <2>8 DEF Through
  <1>12. ~Return
    <2>1. SUFFICES ASSUME Return PROVE FALSE
      OBVIOUS
    <2>2. c \in Rules /\ act[c].pc = "return" /\ mode = "build"
      BY <1>1, <2>1 DEF Return, IInv, PcsOK
    <2>3. PICK b \in Rules \union {Main}, st \in Status : b = act[c].by /\ st = act[c].st
      BY <1>2 DEF Activation
    <2>4. /\ b # c /\ act[b].pc \in {"deps", "sync"} /\ act[b].todo # <<>>
      BY <1>1, <2>2, <2>3 DEF IInv, FrameOK, Active
    <2>5. PICK acts : acts = [act EXCEPT ![c] = Idle]
      OBVIOUS
    <2>6. /\ acts \in [Rules \union {Main} -> Activation] /\ acts[c] = Idle
          /\ \A a \in (Rules \union {Main}) \ {c} : acts[a] = act[a]
      <3>1. Idle \in Activation
        BY EmptySeq DEF Idle, Activation, Pcs, Status
      <3> QED
        BY <1>2, <2>5, <3>1
    <2>7. /\ status'[c] = st /\ \A x \in Rules \ {c} : status'[x] = status[x]
          /\ Answer(b, st, acts)
      BY <1>1, <1>2, <2>1, <2>2, <2>3, <2>5 DEF Return, FinalStatus
    <2>8. Answered(b, st, acts)
      <3>1. acts[b].pc = "sync" /\ b # Main => acts[b].todo \in Seq(Rules)
        BY <2>4, <2>6 DEF IInv, PcsOK
      <3>2. mode \in {"build"} /\ acts[b].todo # <<>>
        BY <2>2, <2>4, <2>6
      <3> QED
        BY <1>2, <2>6, <2>7, <3>1, <3>2, AnswerEffect
    <2>9. CASE r = c
      <3>1. act'[c].pc = "goal"
        BY <2>4, <2>6, <2>8 DEF Answered, Idle
      <3> QED
        BY <2>2, <2>3, <2>7, <2>9, <3>1 DEF Through
    <2>10. CASE r = b
      <3>1. act'[r].pc \in {"deps", "sync", "wait"}
        BY <2>4, <2>6, <2>8, <2>10 DEF Answered, DepLoops
      <3> QED
        BY <2>4, <2>7, <2>10, <3>1 DEF Through
    <2>11. CASE r # c /\ r # b
      BY <1>3, <2>6, <2>7, <2>8, <2>11 DEF Answered
    <2> QED
      BY <2>9, <2>10, <2>11
  <1>13. ScanDone
    BY <1>4, <1>5, <1>7, <1>8, <1>9, <1>10, <1>11, <1>12 DEF Next, Tmake
  <1>14. r = cur
    BY <1>2, <1>3, <1>13 DEF ScanDone
  <1> QED
    BY <1>13, <1>14

\* Commands are only started by a rule that is through with its dependencies.
LEMMA StartedStays ==
  ASSUME IInv, [Next]_vars, NEW r \in Rules, ~Through(r)
  PROVE  started'[r] = started[r]
  <1>1. started \in [Rules -> Nat] /\ (act[r].pc = "run" => Through(r))
    BY DEF IInv, TypeOK, Through
  <1>2. CASE Fork \/ \E o \in Outcomes, there, fin \in BOOLEAN : RunSync(o, there, fin)
    <2>1. act[cur].pc = "run" /\ started' = [started EXCEPT ![cur] = started[cur] + 1]
      BY <1>2 DEF Fork, RunSync, Running
    <2> QED
      BY <1>1, <2>1
  <1>3. CASE SlotWait \/ SyncWait \/ ExitReap
    BY <1>3 DEF SlotWait, SyncWait, ExitReap
  <1>4. CASE \/ NextGoal \/ BuildKnown \/ BuildRecursive \/ BuildEnter \/ DepsDone \/ ScanDone
             \/ HashError \/ Return \/ Exit \/ Signal \/ Exited \/ Children
             \/ (\E v \in Settled : Decide(v)) \/ UNCHANGED vars
    BY <1>4 DEF NextGoal, BuildKnown, BuildRecursive, BuildEnter, DepsDone, ScanDone, HashError,
                Return, Exit, Signal, Exited, Children, ChildExit, Decide, vars
  <1> QED
    BY <1>2, <1>3, <1>4 DEF Next, Tmake

\* What has been reported stays reported, also while tmake leaves.
LEMMA CodeStays == ASSUME IInv, [Next]_vars, exitcode' = 0 PROVE exitcode = 0
  <1>1. exitcode \in {0, 1}
    BY DEF IInv, TypeOK
  <1>2. CASE BuildKnown \/ Return
    <2>1. PICK c, ret, acts : Answer(c, ret, acts)
      BY <1>2 DEF BuildKnown, Return
    <2>2. exitcode' \in {1, exitcode}
      BY <2>1 DEF Answer, AnswerDeps, AnswerMain, AnswerScan
    <2> QED
      BY <2>2
  <1>3. CASE \E j \in running : Reap(j)
    BY <1>1, <1>3 DEF Reap, PostExitcode
  <1>4. CASE \E o \in Outcomes, there, fin \in BOOLEAN : RunSync(o, there, fin)
    BY <1>1, <1>4 DEF RunSync, PostExitcode
  <1>5. CASE SyncWait \/ SlotWait \/ ExitReap
    BY <1>3, <1>5 DEF SyncWait, SlotWait, ExitReap
  <1>6. CASE \/ NextGoal \/ BuildEnter \/ DepsDone \/ ScanDone \/ Fork \/ Exit \/ Signal
             \/ Exited \/ Children \/ UNCHANGED vars
    <2>1. exitcode' = exitcode
      BY <1>6 DEF NextGoal, BuildEnter, DepsDone, ScanDone, Fork, Exit, Signal, Exited, Children,
                  ChildExit, vars
    <2> QED
      BY <2>1
  <1>7. CASE BuildRecursive \/ HashError \/ \E v \in Settled : Decide(v)
    <2>1. exitcode' \in {1, exitcode}
      BY <1>7 DEF BuildRecursive, HashError, Decide
    <2> QED
      BY <2>1
  <1> QED
    BY <1>2, <1>4, <1>5, <1>6, <1>7 DEF Next, Tmake

\* A rule on a cycle gets through only after another one that is on it.
LEMMA CycleWaits ==
  ASSUME IInv, XInv, CInv, [Next]_vars, NEW r \in OnAnyCycle,
         r \in OnStaticCycle \/ exitcode' = 0
  PROVE  Untried(r)'
  <1>1. r \in Rules /\ Untried(r) /\ (r \notin OnStaticCycle => exitcode = 0)
    BY OnStaticIsAny, CodeStays DEF CInv, CyclesOK
  <1>2. started'[r] = 0
    BY <1>1, StartedStays DEF Untried
  <1>3. ASSUME Through(r)' PROVE FALSE
    <2>1. CASE UNCHANGED vars
      BY <1>1, <1>3, <2>1 DEF Untried, Through, vars
    <2>2. CASE Next
      <3>1. /\ r = cur /\ mode = "build" /\ act[r].pc = "sync" /\ act[r].todo = <<>>
        BY <1>1, <1>3, <2>2, ThroughStarts DEF Untried, ScanDone
      <3>2. AllReady(r)
        BY <1>1, <3>1 DEF IInv, LoopOK
      <3>3. CASE r \in OnStaticCycle
        <4>1. PICK d \in OnStaticCycle : d \in Elements(Deps[r])
          BY <1>1, <3>3, CycleNeeds
        <4>2. d \in Rules /\ status[d] \in Settled
          BY <3>2, <4>1, OnStaticIsAny DEF AllReady, Ready
        <4> QED
          BY <4>1, <4>2, StaticIsAny DEF CInv, CyclesOK, Untried, Through
      <3>4. CASE r \notin OnStaticCycle
        <4>1. PICK d \in OnAnyCycle : d \in Elements(Deps[r]) \union Elements(Scan[r])
          BY <1>1, CycleNeeds
        <4>2. d \in Rules
          BY <4>1, OnStaticIsAny
        <4>3. d \in Elements(Scan[r]) => status[d] \in Settled
          BY <1>1, <3>1, <3>4 DEF XInv, ThroughOK, Clean, Elements
        <4>4. status[d] \in Settled
          BY <3>2, <4>1, <4>2, <4>3 DEF AllReady, Ready
        <4> QED
          BY <1>1, <3>4, <4>1, <4>4 DEF CInv, CyclesOK, Untried, Through
      <3> QED
        BY <3>3, <3>4
    <2> QED
      BY <2>1, <2>2
  <1> QED
    BY <1>2, <1>3 DEF Untried

LEMMA CycleStep == ASSUME IInv, XInv, CInv, [Next]_vars PROVE CInv'
  <1>1. CyclesOK'
    BY CycleWaits DEF CyclesOK
  <1>2. StackOK' /\ \A r \in Rules : CalledOK(r)'
    <2>1. CASE BuildEnter
      BY <2>1, EnterStack DEF CInv
    <2>2. CASE Return
      BY <2>2, ReturnStack DEF CInv
    <2>3. CASE Next /\ ~BuildEnter /\ ~Return
      BY <2>3, StackStays, StackKept DEF CInv
    <2>4. CASE UNCHANGED vars
      <3>1. cur' = cur /\ act' = act
        BY <2>4 DEF vars
      <3> QED
        BY <3>1, StackKept DEF CInv, Active
    <2> QED
      BY <2>1, <2>2, <2>3, <2>4
  <1> QED
    BY <1>1, <1>2 DEF CInv

LEMMA InitCycle == Init => CInv
  <1> SUFFICES ASSUME Init PROVE CInv
    OBVIOUS
  <1>1. \A r \in Rules : act[r].pc = "goal" /\ status[r] = "unknown" /\ started[r] = 0
    BY Names DEF Init, Idle
  <1>2. StackOK /\ \A r \in Rules : CalledOK(r)
    BY <1>1 DEF StackOK, CalledOK, Active
  <1>3. CyclesOK
    BY <1>1, OnStaticIsAny DEF CyclesOK, Untried, Through, Settled
  <1> QED
    BY <1>2, <1>3 DEF CInv

-----------------------------------------------------------------------------
(* Theorems *)

\* The call stack is one path through the dependencies, and no rule on a cycle
\* gets through its dependencies unless something has been reported.
THEOREM CycleInvariance == Spec => [](IInv /\ XInv /\ CInv)
  <1>1. Init => IInv /\ XInv /\ CInv
    BY InitInvariant, InitExit, InitCycle
  <1>2. IInv /\ XInv /\ CInv /\ [Next]_vars => IInv' /\ XInv' /\ CInv'
    BY NextInvariant, StutterInvariant, ExitStep, CycleStep
  <1> QED
    BY <1>1, <1>2, PTL DEF Spec

\* build walks along edges: what an activation has called is what it depends on.
LEMMA CallsAreEdges ==
  ASSUME IInv, XInv, NEW r \in Rules, NEW h \in Rules,
         act[r].pc \in DepLoops \union {"sync"}, act[r].todo # <<>>, Head(act[r].todo) = h,
         act[r].pc = "dyn" => status[h] \notin Settled
  PROVE  <<r, h>> \in StaticEdges \union ScanEdges
  <1>1. act[r].todo \in Seq(Node) /\ h \in Elements(act[r].todo)
    <2>1. act[r].todo \in Seq(Node)
      BY DEF IInv, TypeOK, Activation
    <2> QED
      BY <2>1, TailElements
  <1>2. LoopOK(r) /\ ThroughOK(r)
    BY DEF IInv, XInv
  <1>3. act[r].pc # "dyn"
    BY <1>1, <1>2 DEF LoopOK
  <1>4. h \in Elements(Deps[r]) \union Elements(Scan[r])
    BY <1>1, <1>2, <1>3 DEF LoopOK, ThroughOK, DepLoops
  <1> QED
    BY <1>4, EdgesMean

\* "Recursive definition" is reported only for a rule that depends on itself:
\* never for one that is marked "checking" by something else that is going on.
THEOREM RecursionReal == Spec => []RecursionIsReal
  <1>1. ASSUME IInv, XInv, CInv PROVE RecursionIsReal
    <2> SUFFICES ASSUME Calling, Callee \in Rules, status[Callee] = "checking"
                 PROVE  Callee \in OnAnyCycle
      BY DEF RecursionIsReal
    <2>1. PICK h \in Rules : h = Callee /\ Active(h)
      BY <1>1 DEF IInv, StatusOK
    <2>2. ASSUME NEW S \in SUBSET Rules,
                 \A e \in StaticEdges \union ScanEdges : e[1] \in S \union {h} => e[2] \in S
          PROVE  h \in S
      <3>1. PICK X : X = {r \in Rules : Active(r) /\ r \in S \union {h}}
        OBVIOUS
      <3>2. ASSUME NEW r \in X \ {cur} PROVE \E p \in X : act[p].by = r
        <4>1. PICK p \in Rules : Active(p) /\ act[p].by = r
          BY <1>1, <3>1, <3>2 DEF CInv, CalledOK
        <4>2. act[r].pc \in {"deps", "sync"} /\ act[r].todo # <<>> /\ Head(act[r].todo) = p
          BY <1>1, <4>1 DEF IInv, FrameOK
        <4>3. <<r, p>> \in StaticEdges \union ScanEdges
          BY <1>1, <3>1, <4>2, CallsAreEdges DEF DepLoops
        <4>4. p \in S
          BY <2>2, <3>1, <4>3
        <4> QED
          BY <3>1, <4>1, <4>4
      <3>3. cur \in X
        <4>1. X \in SUBSET {r \in Rules : Active(r)} /\ h \in X
          BY <2>1, <3>1
        <4> QED
          BY <1>1, <3>2, <4>1 DEF CInv, StackOK
      <3>4. <<cur, h>> \in StaticEdges \union ScanEdges
        BY <1>1, <2>1, <3>1, <3>3, CallsAreEdges DEF Calling, Callee, Settled
      <3> QED
        BY <2>2, <3>1, <3>3, <3>4
    <2> QED
      BY <2>1, <2>2 DEF OnAnyCycle, OnCycle
  <1> QED
    BY <1>1, CycleInvariance, PTL

\* A rule that depends on itself is not built, whatever the jobs do; one that
\* does so through a scan may be, but only after something has failed.
THEOREM CyclesNotBuilt == Spec => []CycleNeverBuilt
  <1>1. CInv => CycleNeverBuilt
    BY DEF CInv, CyclesOK, Untried, Through, CycleNeverBuilt
  <1> QED
    BY <1>1, CycleInvariance, PTL
=============================================================================
