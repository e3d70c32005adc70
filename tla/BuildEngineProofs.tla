-------------------------- MODULE BuildEngineProofs --------------------------
(* Theorems about the dependency engine, for any rules, goals and jobs. *)
EXTENDS ExitInvariant, TLAPS, FiniteSetTheorems, SequenceTheorems

\* The names of activations and of rules do not clash.
LEMMA Names == Main \notin Rules /\ None \notin Rules /\ None # Main
  BY EngineAssumption DEF EngineAssumption, Node

\* The elements of a sequence are its head and those of its tail.
LEMMA TailElements ==
  ASSUME NEW S, NEW s \in Seq(S), s # <<>>
  PROVE  /\ Head(s) \in S /\ Head(s) \in Elements(s)
         /\ Tail(s) \in Seq(S)
         /\ Elements(s) = {Head(s)} \union Elements(Tail(s))
  <1>1. /\ Head(s) \in S /\ Tail(s) \in Seq(S) /\ Len(Tail(s)) = Len(s) - 1
        /\ \A i \in 1 .. Len(Tail(s)) : Tail(s)[i] = s[i + 1]
    BY HeadTailProperties
  <1>2. Len(s) \in Nat \ {0} /\ DOMAIN s = 1 .. Len(s) /\ DOMAIN Tail(s) = 1 .. Len(Tail(s))
    <2>1. Len(s) \in Nat /\ DOMAIN s = 1 .. Len(s) /\ DOMAIN Tail(s) = 1 .. Len(Tail(s))
      BY <1>1, LenProperties
    <2>2. Len(s) # 0
      BY EmptySeq
    <2> QED
      BY <2>1, <2>2
  <1>3. Head(s) = s[1]
    OBVIOUS
  <1>4. ASSUME NEW x \in Elements(s) PROVE x \in {Head(s)} \union Elements(Tail(s))
    <2>1. PICK i \in 1 .. Len(s) : x = s[i]
      BY <1>2 DEF Elements
    <2>2. CASE i = 1
      BY <2>1, <2>2, <1>3
    <2>3. CASE i # 1
      <3>1. i - 1 \in 1 .. Len(Tail(s)) /\ Tail(s)[i - 1] = s[i]
        BY <2>1, <2>3, <1>1, <1>2
      <3> QED
        BY <3>1, <2>1, <1>2 DEF Elements
    <2> QED
      BY <2>2, <2>3
  <1>5. Head(s) \in Elements(s)
    BY <1>2, <1>3 DEF Elements
  <1>6. Elements(Tail(s)) \subseteq Elements(s)
    BY <1>1, <1>2 DEF Elements
  <1> QED
    BY <1>1, <1>4, <1>5, <1>6

\* Appending adds one element.
LEMMA AppendElements ==
  ASSUME NEW S, NEW s \in Seq(S), NEW e \in S
  PROVE  Append(s, e) \in Seq(S) /\ Elements(Append(s, e)) \subseteq Elements(s) \union {e}
  <1>1. /\ Append(s, e) \in Seq(S) /\ Len(s) \in Nat
        /\ DOMAIN s = 1 .. Len(s) /\ DOMAIN Append(s, e) = 1 .. Len(s) + 1
    BY LenProperties
  <1>2. \A i \in 1 .. Len(s) + 1 : Append(s, e)[i] = IF i = Len(s) + 1 THEN e ELSE s[i]
    OBVIOUS
  <1> QED
    BY <1>1, <1>2 DEF Elements

-----------------------------------------------------------------------------
(* What an answer does to the activation that gets it *)

\* What Answer does: it changes the activation c only, and only its loop.
Answered(c, ret, acts) ==
    /\ act' \in [Rules \union {Main} -> Activation]
    /\ \A a \in (Rules \union {Main}) \ {c} : act'[a] = acts[a]
    /\ act'[c].by = acts[c].by /\ act'[c].notify = acts[c].notify
    /\ act'[c].st = acts[c].st
    /\ exitcode' \in {0, 1} /\ mode' \in {"build", "exiting"} /\ code' \in {0, 1, 2}
    /\ \/ /\ acts[c].pc \in DepLoops
          /\ act'[c].pc = acts[c].pc
          /\ act'[c].todo = Tail(acts[c].todo)
          /\ act'[c].dyn = acts[c].dyn
          /\ act'[c].wait <=> acts[c].wait \/ ret \in Pending
          /\ act'[c].bad <=> acts[c].bad \/ ret = "failed"
       \/ /\ acts[c].pc = "sync" /\ c = Main
          /\ act'[c].pc \in {"goal", "wait"}
       \/ /\ acts[c].pc = "sync" /\ c # Main
          /\ act'[c].pc \in {"sync", "wait"}
          /\ act'[c].todo \in Seq(Rules)
          /\ act'[c].dyn \in {acts[c].dyn, Append(acts[c].dyn, Head(acts[c].todo))}
          /\ act'[c].dyn # acts[c].dyn => ret \in Settled

\* Answer does that.
LEMMA AnswerEffect ==
  ASSUME NEW c \in Rules \union {Main}, NEW ret \in Status,
         NEW acts \in [Rules \union {Main} -> Activation],
         exists \in [Rules -> BOOLEAN], exitcode \in {0, 1}, mode \in {"build"},
         code \in {0, 1, 2}, acts[c].todo # <<>>,
         acts[c].pc = "sync" /\ c # Main => acts[c].todo \in Seq(Rules),
         Answer(c, ret, acts)
  PROVE  Answered(c, ret, acts)
  <1>1. /\ acts[c] \in Activation
        /\ Head(acts[c].todo) \in Node /\ Tail(acts[c].todo) \in Seq(Node)
    BY TailElements DEF Activation
  <1>2. CASE acts[c].pc \in DepLoops /\ AnswerDeps(c, ret, acts)
    <2> DEFINE w == [acts[c] EXCEPT !.todo = Tail(@), !.wait = @ \/ Outstanding(ret),
                                    !.bad = @ \/ ret = "failed"]
    <2>1. act' = [acts EXCEPT ![c] = w]
      BY <1>2 DEF AnswerDeps
    <2>0. exitcode' \in {0, 1} /\ mode' \in {"build", "exiting"} /\ code' \in {0, 1, 2}
      BY <1>2 DEF AnswerDeps, TmakeExit, ExitIf, Continue
    <2>2. (acts[c].wait \/ Outstanding(ret)) \in BOOLEAN /\ (acts[c].bad \/ ret = "failed") \in BOOLEAN
      OBVIOUS
    <2>3. w \in Activation
      BY <1>1, <2>2 DEF Activation
    <2>4. /\ w.by = acts[c].by /\ w.notify = acts[c].notify /\ w.st = acts[c].st
          /\ w.pc = acts[c].pc /\ w.todo = Tail(acts[c].todo) /\ w.dyn = acts[c].dyn
      BY <1>1 DEF Activation
    <2>5. /\ w.wait <=> acts[c].wait \/ ret \in Pending
          /\ w.bad <=> acts[c].bad \/ ret = "failed"
      BY <1>1 DEF Activation, Outstanding
    <2> HIDE DEF w
    <2> QED
      BY <1>2, <2>0, <2>1, <2>3, <2>4, <2>5 DEF Answered
  <1>3. CASE acts[c].pc = "sync" /\ c = Main /\ AnswerMain(ret, acts)
    <2> DEFINE w == [acts[c] EXCEPT !.pc   = IF ret \in Pending THEN "wait" ELSE "goal",
                                    !.todo = IF ret \in Pending THEN @
                                             ELSE IF ret = "failed" THEN <<>> ELSE Tail(@)]
    <2>1. act' = [acts EXCEPT ![c] = w]
      BY <1>3 DEF AnswerMain
    <2>0. exitcode' \in {0, 1} /\ mode' \in {"build", "exiting"} /\ code' \in {0, 1, 2}
      BY <1>3 DEF AnswerMain, TmakeExit, ExitIf, Continue
    <2>4. (IF ret \in Pending THEN acts[c].todo
           ELSE IF ret = "failed" THEN <<>> ELSE Tail(acts[c].todo)) \in Seq(Node)
      BY <1>1, EmptySeq DEF Activation
    <2>2. w \in Activation
      BY <1>1, <2>4 DEF Activation, Pcs
    <2>3. /\ w.by = acts[c].by /\ w.notify = acts[c].notify /\ w.st = acts[c].st
          /\ w.pc \in {"goal", "wait"}
      BY <1>1 DEF Activation
    <2> HIDE DEF w
    <2> QED
      BY <1>3, <2>0, <2>1, <2>2, <2>3 DEF Answered
  <1>4. CASE acts[c].pc = "sync" /\ c # Main /\ AnswerScan(c, ret, acts)
    <2> DEFINE h == Head(acts[c].todo)
               w == [acts[c] EXCEPT !.pc   = IF ret \in Pending THEN "wait" ELSE @,
                                    !.todo = IF ret \in Pending THEN @ ELSE Tail(@),
                                    !.dyn  = IF ret \in Settled /\ exists[h]
                                             THEN Append(@, h) ELSE @]
    <2>1. act' = [acts EXCEPT ![c] = w]
      BY <1>4 DEF AnswerScan
    <2>0. exitcode' \in {0, 1} /\ mode' \in {"build", "exiting"} /\ code' \in {0, 1, 2}
      BY <1>4 DEF AnswerScan, TmakeExit, ExitIf, Continue
    <2>2. acts[c].todo \in Seq(Rules) /\ h \in Rules /\ Tail(acts[c].todo) \in Seq(Rules)
      BY <1>4, TailElements
    <2>3. Append(acts[c].dyn, h) \in Seq(Rules)
      BY <1>1, <2>2 DEF Activation
    <2>4. w \in Activation
      BY <1>1, <1>4, <2>2, <2>3 DEF Activation, Pcs
    <2>5. /\ w.by = acts[c].by /\ w.notify = acts[c].notify /\ w.st = acts[c].st
          /\ w.pc \in {"sync", "wait"} /\ w.todo \in Seq(Rules)
          /\ w.dyn \in {acts[c].dyn, Append(acts[c].dyn, h)}
          /\ w.dyn # acts[c].dyn => ret \in Settled
      BY <1>1, <1>4, <2>2 DEF Activation
    <2> HIDE DEF w
    <2> QED
      BY <1>4, <2>0, <2>1, <2>4, <2>5 DEF Answered
  <1> QED
    BY <1>2, <1>3, <1>4 DEF Answer
-----------------------------------------------------------------------------
(* The other ways in which steps change an activation *)

\* Activation c goes to p, with the list s and the status v.
Moved(c, p, s, v) ==
    /\ act' \in [Rules \union {Main} -> Activation]
    /\ \A a \in (Rules \union {Main}) \ {c} : act'[a] = act[a]
    /\ act'[c].pc = p /\ act'[c].todo = s /\ act'[c].st = v
    /\ act'[c].by = act[c].by /\ act'[c].notify = act[c].notify
    /\ act'[c].dyn = act[c].dyn
    /\ act'[c].wait = act[c].wait /\ act'[c].bad = act[c].bad

\* The updates of the actions do that.
LEMMA Move ==
  ASSUME NEW c \in Rules \union {Main}, act \in [Rules \union {Main} -> Activation],
         NEW p \in Pcs, NEW s \in Seq(Node), NEW v \in Status,
         \/ act' = [act EXCEPT ![c].pc = p] /\ s = act[c].todo /\ v = act[c].st
         \/ act' = [act EXCEPT ![c].pc = p, ![c].todo = s] /\ v = act[c].st
         \/ act' = [act EXCEPT ![c].pc = p, ![c].st = v] /\ s = act[c].todo
  PROVE  Moved(c, p, s, v)
  <1>1. act[c] \in Activation
    OBVIOUS
  <1>2. CASE act' = [act EXCEPT ![c].pc = p] /\ s = act[c].todo /\ v = act[c].st
    <2> DEFINE w == [act[c] EXCEPT !.pc = p]
    <2>1. act' = [act EXCEPT ![c] = w]
      BY <1>2
    <2>2. /\ w \in Activation /\ w.pc = p /\ w.todo = s /\ w.st = v
          /\ w.by = act[c].by /\ w.notify = act[c].notify
          /\ w.dyn = act[c].dyn /\ w.wait = act[c].wait /\ w.bad = act[c].bad
      BY <1>1, <1>2 DEF Activation
    <2> HIDE DEF w
    <2> QED
      BY <2>1, <2>2 DEF Moved
  <1>3. CASE act' = [act EXCEPT ![c].pc = p, ![c].todo = s] /\ v = act[c].st
    <2> DEFINE w == [act[c] EXCEPT !.pc = p, !.todo = s]
    <2>1. act' = [act EXCEPT ![c] = w]
      BY <1>3
    <2>2. /\ w \in Activation /\ w.pc = p /\ w.todo = s /\ w.st = v
          /\ w.by = act[c].by /\ w.notify = act[c].notify
          /\ w.dyn = act[c].dyn /\ w.wait = act[c].wait /\ w.bad = act[c].bad
      BY <1>1, <1>3 DEF Activation
    <2> HIDE DEF w
    <2> QED
      BY <2>1, <2>2 DEF Moved
  <1>4. CASE act' = [act EXCEPT ![c].pc = p, ![c].st = v] /\ s = act[c].todo
    <2> DEFINE w == [act[c] EXCEPT !.pc = p, !.st = v]
    <2>1. act' = [act EXCEPT ![c] = w]
      BY <1>4
    <2>2. /\ w \in Activation /\ w.pc = p /\ w.todo = s /\ w.st = v
          /\ w.by = act[c].by /\ w.notify = act[c].notify
          /\ w.dyn = act[c].dyn /\ w.wait = act[c].wait /\ w.bad = act[c].bad
      BY <1>1, <1>4 DEF Activation
    <2> HIDE DEF w
    <2> QED
      BY <2>1, <2>2 DEF Moved
  <1> QED
    BY <1>2, <1>3, <1>4

-----------------------------------------------------------------------------
(* The invariant *)

\* Steps that only end the build, or change nothing that IInv looks at.
LEMMA UnmovedStep ==
  ASSUME IInv, TypeOK', UNCHANGED <<status, act, cur, running, pending, child, started>>,
         mode' = "build" => mode = "build"
  PROVE  IInv'
  <1>1. PcsOK' /\ JobsAccounted' /\ PendingOK'
    BY DEF IInv, PcsOK, JobsAccounted, PendingOK, JobsFor, Active
  <1>2. ASSUME NEW r \in Rules PROVE FrameOK(r)' /\ StatusOK(r)' /\ LoopOK(r)' /\ StartedOK(r)'
    BY DEF IInv, FrameOK, StatusOK, LoopOK, StartedOK, Active, AllReady, Ready
  <1>3. ASSUME NEW j \in running PROVE JobOK(j)'
    BY DEF IInv, JobOK, Active
  <1> QED
    BY <1>1, <1>2, <1>3 DEF IInv

LEMMA InitInvariant == Init => IInv
  <1> SUFFICES ASSUME Init PROVE IInv
    OBVIOUS
  <1> USE Names
  <1>1. TypeOK
    <2>1. targets \in CmdLines /\ targets \in Seq(Node)
      BY EngineAssumption DEF EngineAssumption, Init
    <2>2. Idle \in Activation
      BY EmptySeq DEF Idle, Activation, Pcs, Status
    <2>3. [Idle EXCEPT !.todo = targets] \in Activation
      BY <2>1, <2>2 DEF Activation
    <2>4. act \in [Rules \union {Main} -> Activation]
      BY <2>2, <2>3 DEF Init
    <2>5. isroot \in BOOLEAN
      BY EngineAssumption DEF EngineAssumption, Init
    <2>6. /\ status \in [Rules -> Status] /\ pending \in [Rules -> Int]
          /\ child \in [Rules -> AllOutcomes \union {"none", "live"}]
          /\ started \in [Rules -> Nat]
      BY DEF Init, Status
    <2>7. /\ exists \in [Rules -> BOOLEAN] /\ exitcode \in {0, 1} /\ signal \in BOOLEAN
          /\ cur \in Rules \union {Main} /\ running \in SUBSET Jobs
          /\ mode \in {"build", "exiting", "exited"} /\ code \in {0, 1, 2}
      BY DEF Init
    <2> QED
      BY <2>1, <2>4, <2>5, <2>6, <2>7 DEF TypeOK
  <1>2. \A r \in Rules \union {Main} : act[r].pc = "goal"
    BY DEF Init, Idle
  <1>3. running = {}
    BY DEF Init
  <1>4. PcsOK /\ JobsAccounted
    BY <1>2, <1>3 DEF Init, PcsOK, JobsAccounted
  <1>5. ASSUME NEW r \in Rules PROVE FrameOK(r) /\ StatusOK(r) /\ LoopOK(r) /\ StartedOK(r)
    BY <1>2 DEF Init, FrameOK, StatusOK, LoopOK, StartedOK, Active
  <1>6. PendingOK
    <2>1. \A n \in Rules : JobsFor(n) = {}
      BY <1>3 DEF JobsFor
    <2>2. \A n \in Rules : pending[n] = 0
      BY DEF Init
    <2>3. IsFiniteSet({}) /\ Cardinality({}) = 0
      BY FS_EmptySet
    <2> QED
      BY <2>1, <2>2, <2>3, <1>3 DEF PendingOK
  <1> QED
    BY <1>1, <1>3, <1>4, <1>5, <1>6 DEF IInv

\* Steps that change the innermost activation only: it is enough to look at it.
LEMMA CurStep ==
  ASSUME IInv, TypeOK', NEW c \in Rules \union {Main}, c = cur, mode = "build",
         UNCHANGED <<status, cur, running, pending, child, started>>,
         \A a \in (Rules \union {Main}) \ {c} : act'[a] = act[a],
         act'[c].by = act[c].by, act'[c].notify = act[c].notify,
         c = Main => act'[c].pc \in {"goal", "sync", "wait"},
         c \in Rules => /\ act'[c].pc # "goal"
                        /\ act'[c].pc \in {"sync", "wait"} => act'[c].todo \in Seq(Rules)
                        /\ StatusOK(c)' /\ LoopOK(c)' /\ StartedOK(c)'
                        /\ \A j \in running : j.notify = c => JobOK(j)'
  PROVE  IInv'
  <1> USE Names
  <1>1. PcsOK'
    BY DEF IInv, PcsOK, Active
  <1>2. JobsAccounted' /\ PendingOK'
    BY DEF IInv, JobsAccounted, PendingOK, JobsFor
  <1>3. ASSUME NEW r \in Rules PROVE FrameOK(r)'
    <2>1. act[r].by \in Rules \union {Main}
      BY DEF IInv, TypeOK, Activation
    <2>2. r = c => Active(r)
      BY DEF IInv, PcsOK
    <2>3. Active(r) => act[r].by # c
      BY DEF IInv, FrameOK
    <2>4. act'[r].by = act[r].by /\ act'[r].notify = act[r].notify
      OBVIOUS
    <2>5. FrameOK(r)
      BY DEF IInv
    <2> QED
      BY <2>1, <2>2, <2>3, <2>4, <2>5 DEF FrameOK, Active
  <1>4. ASSUME NEW r \in Rules PROVE StatusOK(r)' /\ LoopOK(r)' /\ StartedOK(r)'
    <2>1. CASE r = c
      BY <2>1
    <2>2. CASE r # c
      <3>1. act'[r] = act[r] /\ StatusOK(r) /\ LoopOK(r) /\ StartedOK(r)
        BY <2>2 DEF IInv
      <3> QED
        BY <3>1 DEF StatusOK, LoopOK, StartedOK, Active, AllReady, Ready
    <2> QED
      BY <2>1, <2>2
  <1>5. ASSUME NEW j \in running PROVE JobOK(j)'
    <2>1. CASE j.notify = c
      <3>1. j.notify \in Rules
        BY DEF IInv, TypeOK, Jobs
      <3> QED
        BY <2>1, <3>1
    <2>2. CASE j.notify # c
      <3>1. j.notify \in Rules /\ JobOK(j)
        BY DEF IInv, TypeOK, Jobs
      <3>2. act'[j.notify] = act[j.notify]
        BY <2>2, <3>1
      <3> QED
        BY <3>1, <3>2 DEF JobOK, Active
    <2> QED
      BY <2>1, <2>2
  <1> QED
    BY <1>1, <1>2, <1>3, <1>4, <1>5 DEF IInv

-----------------------------------------------------------------------------
(* The actions preserve the invariant *)

LEMMA NextGoalStep == ASSUME IInv, NextGoal PROVE IInv'
  <1> USE Names
  <1>0. Main \in Rules \union {Main} /\ cur = Main /\ mode = "build"
    BY DEF NextGoal
  <1>1. CASE act' = [act EXCEPT ![Main].pc = "sync"] /\ Continue
    <2>0. act \in [Rules \union {Main} -> Activation] /\ act[Main] \in Activation
      BY DEF IInv, TypeOK
    <2>1. [act[Main] EXCEPT !.pc = "sync"] \in Activation
      BY <2>0 DEF Activation, Pcs
    <2>4. act' \in [Rules \union {Main} -> Activation]
      BY <1>1, <2>0, <2>1
    <2>2. TypeOK'
      BY <1>1, <2>4 DEF IInv, TypeOK, NextGoal, Continue, env
    <2>3. /\ \A a \in (Rules \union {Main}) \ {Main} : act'[a] = act[a]
          /\ act'[Main].by = act[Main].by /\ act'[Main].notify = act[Main].notify
          /\ act'[Main].pc = "sync"
      BY <1>1, <2>0 DEF Activation
    <2> QED
      BY <1>0, <2>2, <2>3, CurStep DEF NextGoal
  <1>2. CASE TmakeExit(exitcode) /\ UNCHANGED act
    <2>1. TypeOK'
      BY <1>2 DEF IInv, TypeOK, NextGoal, TmakeExit, env
    <2> QED
      BY <1>2, <2>1, UnmovedStep DEF NextGoal, TmakeExit
  <1> QED
    BY <1>1, <1>2 DEF NextGoal

LEMMA FatalStep == ASSUME IInv, BuildRecursive \/ HashError PROVE IInv'
  <1>1. TypeOK'
    BY DEF IInv, TypeOK, BuildRecursive, HashError, TmakeExit, env
  <1> QED
    BY <1>1, UnmovedStep DEF BuildRecursive, HashError, TmakeExit, env

LEMMA OutsideStep == ASSUME IInv, Exit \/ Signal \/ Exited PROVE IInv'
  <1>1. TypeOK'
    BY DEF IInv, TypeOK, Exit, Signal, Exited, vars, env
  <1> QED
    BY <1>1, UnmovedStep DEF Exit, Signal, Exited, vars, env

\* What Replies says of a dependency.
LEMMA RepliesMean ==
  ASSUME IInv, NEW d \in Node, NEW ret \in Replies(d)
  PROVE  /\ ret \in Status \ {"unknown", "checking", "waiting"}
         /\ ret \in Settled => Ready(d)
         /\ d \in Rules => ret = status[d]
  BY EngineAssumption DEF EngineAssumption, Replies, Ready, Status, Settled, Pending, Node

LEMMA BuildKnownStep == ASSUME IInv, BuildKnown PROVE IInv'
  <1> USE Names
  <1>0. PICK c \in Rules \union {Main} : c = cur
    BY DEF IInv, TypeOK
  <1> DEFINE d == Head(act[c].todo)
  <1>1. /\ c \in Rules \union {Main} /\ act \in [Rules \union {Main} -> Activation]
        /\ act[c] \in Activation /\ act[c].todo \in Seq(Node)
        /\ exists \in [Rules -> BOOLEAN] /\ exitcode \in {0, 1} /\ code \in {0, 1, 2}
    BY DEF IInv, TypeOK, Activation
  <1>2. /\ mode = "build" /\ act[c].todo # <<>>
        /\ act[c].pc \in DepLoops \union {"sync"}
        /\ UNCHANGED <<status, cur, running, pending, child, exists, env, started>>
    BY <1>0 DEF BuildKnown, Calling
  <1>3. /\ d \in Node /\ d \in Elements(act[c].todo) /\ Tail(act[c].todo) \in Seq(Node)
        /\ Elements(act[c].todo) = {d} \union Elements(Tail(act[c].todo))
    BY <1>1, <1>2, TailElements
  <1>4. PICK ret \in Replies(d) : Answer(c, ret, act)
    BY <1>0 DEF BuildKnown, Callee
  <1>5. /\ ret \in Status \ {"unknown", "checking", "waiting"}
        /\ ret \in Settled => Ready(d)
        /\ d \in Rules => ret = status[d]
    BY <1>3, <1>4, RepliesMean
  <1>6. act[c].pc = "sync" /\ c # Main => act[c].todo \in Seq(Rules)
    BY <1>0, <1>1 DEF IInv, PcsOK
  <1>7. Answered(c, ret, act)
    <2>1. ret \in Status /\ mode \in {"build"}
      BY <1>5, <1>2
    <2> HIDE DEF d
    <2> QED
      BY <1>1, <1>2, <1>4, <1>6, <2>1, AnswerEffect
  <1>8. TypeOK'
    BY <1>2, <1>7 DEF Answered, IInv, TypeOK, env
  <1>9. \A x \in Node : Ready(x) => Ready(x)'
    BY <1>2 DEF Ready
  <1>10. ASSUME c \in Rules
         PROVE  /\ act'[c].pc # "goal"
                /\ act'[c].pc \in {"sync", "wait"} => act'[c].todo \in Seq(Rules)
                /\ StatusOK(c)' /\ LoopOK(c)' /\ StartedOK(c)'
                /\ \A j \in running : j.notify = c => JobOK(j)'
    <2>1. /\ FrameOK(c) /\ StatusOK(c) /\ LoopOK(c) /\ StartedOK(c)
          /\ \A j \in running : JobOK(j)
      BY <1>10 DEF IInv
    <2>2. c # Main /\ Active(c) /\ act[c].pc # "return" /\ Elements(Deps[c]) \subseteq Node
      <3>1. Deps[c] \in Seq(Node)
        BY <1>10, EngineAssumption DEF EngineAssumption
      <3> QED
        BY <1>0, <1>10, <1>2, <3>1, LenProperties DEF Active, DepLoops, Elements
    <2>3. /\ act'[c].pc \in {"deps", "dyn", "sync", "wait"}
          /\ act[c].pc = "dyn" <=> act'[c].pc = "dyn"
          /\ act[c].pc = "deps" <=> act'[c].pc = "deps"
      BY <1>7, <2>2 DEF Answered, DepLoops
    <2>4. act'[c].pc \in {"sync", "wait"} => act'[c].todo \in Seq(Rules)
      BY <1>7, <2>2, <2>3 DEF Answered, DepLoops
    <2>5. StatusOK(c)'
      BY <1>2, <1>7, <2>1, <2>2, <2>3 DEF Answered, StatusOK, Active, DepLoops
    <2>6. StartedOK(c)'
      BY <1>2, <2>1, <2>2 DEF StartedOK
    <2>7. LoopOK(c)'
      <3>1. CASE act'[c].pc = "deps"
        <4>1. /\ act[c].pc = "deps" /\ act'[c].todo = Tail(act[c].todo)
              /\ act'[c].dyn = act[c].dyn
              /\ act'[c].wait <=> act[c].wait \/ ret \in Pending
              /\ act'[c].bad <=> act[c].bad \/ ret = "failed"
          BY <1>7, <2>3, <3>1 DEF Answered
        <4>2. Elements(act'[c].todo) \subseteq Elements(Deps[c])
          BY <1>3, <2>1, <4>1 DEF LoopOK
        <4>3. ASSUME NEW x \in Elements(Deps[c])
              PROVE  Ready(x)' \/ act'[c].wait \/ act'[c].bad \/ x \in Elements(act'[c].todo)
          <5>1. Ready(x) \/ act[c].wait \/ act[c].bad \/ x \in Elements(act[c].todo)
            BY <2>1, <4>1 DEF LoopOK
          <5>2. x = d => Ready(x) \/ ret \in Pending \/ ret = "failed"
            BY <1>5 DEF Status
          <5> QED
            BY <5>1, <5>2, <1>3, <1>9, <2>2, <4>1
        <4>4. \A x \in Elements(act'[c].dyn) : status'[x] \in Settled
          BY <1>2, <2>1, <4>1 DEF LoopOK
        <4>5. status'[c] # "running"
          BY <1>2, <2>1, <2>2 DEF StatusOK
        <4> QED
          BY <3>1, <4>2, <4>3, <4>4, <4>5 DEF LoopOK
      <3>2. CASE act'[c].pc = "dyn"
        <4>1. /\ act[c].pc = "dyn" /\ act'[c].todo = Tail(act[c].todo)
          BY <1>7, <2>3, <3>2 DEF Answered
        <4>2. Elements(act'[c].todo) \subseteq Elements(act[c].todo)
          BY <1>3, <4>1
        <4>3. AllReady(c)'
          BY <1>9, <2>1, <2>2, <4>1 DEF LoopOK, AllReady
        <4> QED
          BY <1>2, <2>1, <3>2, <4>1, <4>2, <4>3 DEF LoopOK
      <3>3. CASE act'[c].pc \in {"sync", "wait"}
        <4>1. act[c].pc = "sync" /\ c # Main
          BY <1>7, <2>2, <2>3, <3>3 DEF Answered, DepLoops
        <4>2. AllReady(c)'
          BY <1>9, <2>1, <2>2, <4>1 DEF LoopOK, AllReady
        <4>3. d \in Rules
          BY <1>6, <1>2, <4>1, TailElements
        <4>4. Elements(act'[c].dyn) \subseteq Elements(act[c].dyn) \union {d}
          <5>1. act[c].dyn \in Seq(Rules)
            BY <1>1 DEF Activation
          <5>2. Elements(Append(act[c].dyn, d)) \subseteq Elements(act[c].dyn) \union {d}
            BY <5>1, <4>3, AppendElements
          <5> QED
            BY <5>2, <1>7, <3>3, <4>1 DEF Answered, DepLoops
        <4>5. act'[c].dyn # act[c].dyn => status[d] \in Settled
          BY <1>5, <1>7, <4>1, <4>3 DEF Answered, DepLoops
        <4>6. \A x \in Elements(act'[c].dyn) : status'[x] \in Settled
          BY <1>2, <2>1, <4>1, <4>4, <4>5 DEF LoopOK
        <4> QED
          BY <3>3, <4>2, <4>6 DEF LoopOK
      <3> QED
        BY <2>3, <3>1, <3>2, <3>3
    <2>8. ASSUME NEW j \in running, j.notify = c PROVE JobOK(j)'
      <3>1. JobOK(j) /\ status[j.rule] = "running" /\ j.rule \in Rules
        BY <2>1 DEF IInv, JobsAccounted, TypeOK, Jobs
      <3>2. act[c].pc = "deps" /\ act'[c].pc = "deps"
        BY <3>1, <2>2, <2>3, <2>8 DEF JobOK
      <3>3. /\ act'[c].todo = Tail(act[c].todo)
            /\ act'[c].wait <=> act[c].wait \/ ret \in Pending
        BY <1>7, <3>2 DEF Answered
      <3>4. j.rule = d => ret \in Pending
        BY <1>5, <3>1 DEF Pending
      <3>5. act'[c].wait \/ j.rule \in Elements(act'[c].todo)
        BY <1>3, <2>8, <3>1, <3>2, <3>3, <3>4 DEF JobOK
      <3> QED
        BY <1>2, <2>8, <3>1, <3>2, <3>5 DEF JobOK
    <2> QED
      BY <2>3, <2>4, <2>5, <2>6, <2>7, <2>8
  <1>11. c = Main => act'[c].pc \in {"goal", "sync", "wait"}
    BY <1>7 DEF Answered, IInv, PcsOK, DepLoops
  <1> QED
    BY <1>0, <1>1, <1>2, <1>7, <1>8, <1>10, <1>11, CurStep DEF Answered

\* When activation c may go on to p, with the list s and the status v.
MayMove(c, p, s, v) ==
    /\ p = "return" => v \in Settled \union {"waiting", "failed"}
    /\ p \in {"sync", "wait", "dyn"} => v \in Settled
    /\ p \in {"sync", "wait"} => s \in Seq(Rules) /\ act[c].pc \in {"deps", "sync", "wait"}
    /\ p \in {"sync", "wait", "dyn", "decide", "run"} => AllReady(c)
    /\ p = "dyn" => \A x \in Elements(s) : x \in Rules /\ status[x] \in Settled
    /\ \A j \in running : j.notify = c => p = "return" /\ v = "waiting"

\* Steps of a rule that is being built that go on to its next part.
LEMMA MovedStep ==
  ASSUME IInv, NEW c \in Rules, c = cur, mode = "build", act[c].pc # "return",
         NEW p \in Pcs \ {"goal", "deps"}, NEW s \in Seq(Node), NEW v \in Status,
         Moved(c, p, s, v),
         UNCHANGED <<status, cur, running, pending, child, exists, exitcode, env, started>>,
         mode' \in {"build", "exiting"}, code' \in {0, 1, 2},
         MayMove(c, p, s, v)
  PROVE  IInv'
  <1> USE Names
  <1>1. TypeOK'
    BY DEF Moved, IInv, TypeOK, env
  <1>2. Active(c) /\ StatusOK(c) /\ LoopOK(c) /\ StartedOK(c)
    BY DEF IInv, PcsOK
  <1>3. StatusOK(c)'
    BY <1>2 DEF StatusOK, Active, Moved, MayMove, Pcs, DepLoops, Settled
  <1>4. StartedOK(c)'
    BY <1>2 DEF StartedOK, Moved
  <1>5. AllReady(c) => AllReady(c)'
    BY DEF AllReady, Ready
  <1>6. LoopOK(c)'
    BY <1>2, <1>5 DEF LoopOK, Moved, MayMove, StatusOK
  <1>7. ASSUME NEW j \in running, j.notify = c PROVE JobOK(j)'
    <2>1. JobOK(j)
      BY DEF IInv
    <2> QED
      BY <1>7, <2>1 DEF JobOK, Moved, MayMove
  <1> QED
    BY <1>1, <1>3, <1>4, <1>6, <1>7, CurStep DEF Moved, MayMove

LEMMA ScanDoneStep == ASSUME IInv, ScanDone PROVE IInv'
  <1>1. PICK c \in Rules : c = cur
    BY DEF ScanDone, IInv, TypeOK
  <1>2. /\ act \in [Rules \union {Main} -> Activation] /\ act[c] \in Activation
        /\ act[c].dyn \in Seq(Rules) /\ act[c].st \in Status /\ act[c].pc = "sync"
        /\ code \in {0, 1, 2}
    BY <1>1 DEF ScanDone, IInv, TypeOK, Activation
  <1>3. act[c].dyn \in Seq(Node) /\ Elements(act[c].dyn) \subseteq Rules
    <2>1. DOMAIN act[c].dyn = 1 .. Len(act[c].dyn) /\ act[c].dyn \in [1 .. Len(act[c].dyn) -> Rules]
      BY <1>2, LenProperties
    <2>2. Elements(act[c].dyn) \subseteq Rules
      BY <2>1 DEF Elements
    <2>3. act[c].dyn \in [1 .. Len(act[c].dyn) -> Node] /\ Len(act[c].dyn) \in Nat
      BY <2>1, <1>2, LenProperties DEF Node
    <2> QED
      BY <2>2, <2>3
  <1>4. Moved(c, "dyn", act[c].dyn, act[c].st)
    <2>1. act' = [act EXCEPT ![c].pc = "dyn", ![c].todo = act[c].dyn]
      BY <1>1 DEF ScanDone
    <2> QED
      BY <1>2, <1>3, <2>1, Move DEF Pcs, DepLoops
  <1>5. StatusOK(c) /\ LoopOK(c)
    BY DEF IInv
  <1>6. act[c].st \in Settled /\ AllReady(c) /\ \A x \in Elements(act[c].dyn) : status[x] \in Settled
    BY <1>2, <1>5 DEF StatusOK, LoopOK
  <1>7. ASSUME NEW j \in running PROVE j.notify # c
    BY <1>2 DEF IInv, JobOK, Active
  <1>8. /\ mode = "build" /\ mode' \in {"build", "exiting"} /\ code' \in {0, 1, 2}
        /\ UNCHANGED <<status, cur, running, pending, child, exists, exitcode, env, started>>
    BY <1>2 DEF ScanDone
  <1>9. "dyn" \in Pcs \ {"goal", "deps"}
    BY DEF Pcs, DepLoops
  <1>10. MayMove(c, "dyn", act[c].dyn, act[c].st)
    BY <1>3, <1>6, <1>7 DEF MayMove
  <1> QED
    BY <1>1, <1>2, <1>3, <1>4, <1>8, <1>9, <1>10, MovedStep

LEMMA DecideStep == ASSUME IInv, NEW verdict \in Settled, Decide(verdict) PROVE IInv'
  <1>1. PICK c \in Rules : c = cur
    BY DEF Decide, IInv, TypeOK, PcsOK
  <1>2. /\ act \in [Rules \union {Main} -> Activation] /\ act[c] \in Activation
        /\ act[c].pc = "decide" /\ act[c].todo \in Seq(Node) /\ mode = "build"
        /\ code \in {0, 1, 2}
    BY <1>1 DEF Decide, IInv, TypeOK, Activation
  <1>3. CASE exitcode' = 1 /\ TmakeExit(1) /\ UNCHANGED act
    <2>1. TypeOK'
      BY <1>3 DEF Decide, TmakeExit, IInv, TypeOK, env
    <2> QED
      BY <1>3, <2>1, UnmovedStep DEF Decide, TmakeExit
  <1>4. CASE /\ act' = [act EXCEPT
                          ![cur].pc = IF verdict = "built" /\ cur \in HasDo
                                      THEN "run" ELSE "return",
                          ![cur].st = verdict]
             /\ Continue /\ UNCHANGED exitcode
    <2>1. PICK p \in {"run", "return"} : act' = [act EXCEPT ![c].pc = p, ![c].st = verdict]
      BY <1>1, <1>4
    <2>2. verdict \in Status /\ p \in Pcs \ {"goal", "deps"}
      BY DEF Status, Pcs, DepLoops
    <2>3. Moved(c, p, act[c].todo, verdict)
      BY <1>2, <2>1, <2>2, Move
    <2>4. AllReady(c)
      BY <1>2 DEF IInv, LoopOK
    <2>5. ASSUME NEW j \in running PROVE j.notify # c
      BY <1>2 DEF IInv, JobOK, Active
    <2>6. /\ mode' \in {"build", "exiting"} /\ code' \in {0, 1, 2}
          /\ UNCHANGED <<status, cur, running, pending, child, exists, exitcode, env, started>>
      BY <1>2, <1>4 DEF Decide, Continue
    <2>7. MayMove(c, p, act[c].todo, verdict)
      BY <2>4, <2>5 DEF MayMove
    <2> QED
      BY <1>1, <1>2, <2>2, <2>3, <2>6, <2>7, MovedStep
  <1> QED
    BY <1>3, <1>4 DEF Decide

LEMMA DepsDoneStep == ASSUME IInv, DepsDone PROVE IInv'
  <1> USE Names
  <1>1. PICK c \in Rules : c = cur
    BY DEF DepsDone, IInv, TypeOK, PcsOK, DepLoops
  <1>2. /\ act \in [Rules \union {Main} -> Activation] /\ act[c] \in Activation
        /\ act[c].pc \in DepLoops /\ act[c].todo = <<>> /\ act[c].todo \in Seq(Node)
        /\ mode = "build" /\ code \in {0, 1, 2} /\ exitcode \in {0, 1}
        /\ UNCHANGED <<status, cur, running, pending, child, exists, exitcode, env, started>>
    BY <1>1 DEF DepsDone, IInv, TypeOK, Activation
  <1>3. StatusOK(c) /\ LoopOK(c) /\ act[c].st \in Settled
    BY <1>2 DEF IInv, StatusOK, DepLoops
  <1>4. Elements(act[c].todo) = {}
    BY <1>2 DEF Elements
  <1>5. PICK st \in Settled \union {"waiting", "failed"} : st = DepsStatus(act[c])
    BY <1>3 DEF DepsStatus
  <1>6. /\ st \in Settled => st = act[c].st /\ ~act[c].wait /\ ~act[c].bad
        /\ act[c].wait => st = "waiting"
    BY <1>5, <1>3 DEF DepsStatus, Settled
  <1>7. ASSUME NEW j \in running, j.notify = c PROVE st = "waiting"
    <2>1. JobOK(j) /\ Active(c)
      BY <1>2 DEF IInv, Active, DepLoops
    <2>2. act[c].pc = "deps"
      BY <1>2, <1>7, <2>1 DEF JobOK, DepLoops
    <2> QED
      BY <1>4, <1>6, <1>7, <2>1, <2>2 DEF JobOK
  <1>8. st \in Settled => AllReady(c)
    BY <1>2, <1>3, <1>4, <1>6 DEF LoopOK, AllReady, DepLoops
  <1>9. mode' \in {"build", "exiting"} /\ code' \in {0, 1, 2}
    BY <1>2 DEF DepsDone, ExitIf, TmakeExit, Continue
  <1>10. st \in Status /\ act[c].st \in Status /\ act[c].pc # "return"
    BY <1>2 DEF Status, Activation, Pending, DepLoops
  <1>11. CASE st \notin Settled /\ act' = [act EXCEPT ![c].pc = "return", ![c].st = st]
    <2>1. "return" \in Pcs \ {"goal", "deps"}
      BY DEF Pcs, DepLoops
    <2>2. Moved(c, "return", act[c].todo, st)
      BY <1>2, <1>10, <1>11, <2>1, Move
    <2>3. MayMove(c, "return", act[c].todo, st)
      BY <1>5, <1>7 DEF MayMove
    <2> QED
      BY <1>1, <1>2, <1>9, <1>10, <2>1, <2>2, <2>3, MovedStep
  <1>12. CASE st \in Settled /\ act[c].pc = "deps"
              /\ act' = [act EXCEPT ![c].pc = "sync", ![c].todo = Scan[c]]
    <2>1. "sync" \in Pcs \ {"goal", "deps"}
      BY DEF Pcs, DepLoops
    <2>2. Scan[c] \in Seq(Rules)
      BY EngineAssumption DEF EngineAssumption
    <2>3. Scan[c] \in Seq(Node)
      <3>1. Scan[c] \in [1 .. Len(Scan[c]) -> Rules] /\ Len(Scan[c]) \in Nat
        BY <2>2, LenProperties
      <3>2. Scan[c] \in [1 .. Len(Scan[c]) -> Node]
        BY <3>1 DEF Node
      <3> QED
        BY <3>1, <3>2
    <2>4. Moved(c, "sync", Scan[c], act[c].st)
      BY <1>2, <1>10, <1>12, <2>1, <2>3, Move
    <2>5. \A j \in running : j.notify # c
      BY <1>7, <1>12 DEF Settled
    <2>6. MayMove(c, "sync", Scan[c], act[c].st)
      BY <1>3, <1>8, <1>12, <2>2, <2>5 DEF MayMove
    <2> QED
      BY <1>1, <1>2, <1>9, <1>10, <2>1, <2>3, <2>4, <2>6, MovedStep
  <1>13. CASE st \in Settled /\ act[c].pc = "dyn" /\ act' = [act EXCEPT ![c].pc = "decide"]
    <2>1. "decide" \in Pcs \ {"goal", "deps"}
      BY DEF Pcs, DepLoops
    <2>2. Moved(c, "decide", act[c].todo, act[c].st)
      BY <1>2, <1>10, <1>13, <2>1, Move
    <2>3. MayMove(c, "decide", act[c].todo, act[c].st)
      BY <1>7, <1>8, <1>13 DEF MayMove, Settled
    <2> QED
      BY <1>1, <1>2, <1>9, <1>10, <2>1, <2>2, <2>3, MovedStep
  <1> QED
    BY <1>1, <1>5, <1>11, <1>12, <1>13 DEF DepsDone

LEMMA BuildEnterStep == ASSUME IInv, BuildEnter PROVE IInv'
  <1> USE Names
  <1>1. PICK c \in Rules \union {Main} : c = cur
    BY DEF IInv, TypeOK
  <1>2. PICK h : h = Head(act[c].todo)
    OBVIOUS
  <1>3. /\ act \in [Rules \union {Main} -> Activation] /\ act[c] \in Activation
        /\ status \in [Rules -> Status] /\ exists \in [Rules -> BOOLEAN]
        /\ act[c].pc \in DepLoops \union {"sync"} /\ act[c].todo # <<>>
        /\ act[c].todo \in Seq(Node) /\ mode = "build"
        /\ h \in Rules /\ status[h] \in {"unknown", "waiting"}
        /\ status' = [status EXCEPT ![h] = "checking"] /\ cur' = h
        /\ UNCHANGED <<running, pending, child, exists, exitcode, env, mode, code, started>>
    BY <1>1, <1>2 DEF IInv, TypeOK, Activation, BuildEnter, Calling, Callee, Enterable
  <1>4. Deps[h] \in Seq(Node)
    BY <1>3, EngineAssumption DEF EngineAssumption
  <1>5. PICK n \in Rules \union {None} : n = IF act[c].pc = "sync" THEN None ELSE c
    BY <1>3 DEF IInv, PcsOK, DepLoops
  <1> DEFINE f == [pc |-> "deps", todo |-> Deps[h], dyn |-> <<>>,
                   st |-> FirstStatus(h), wait |-> FALSE, bad |-> FALSE,
                   by |-> c, notify |-> n]
  <1>6. act' = [act EXCEPT ![h] = f]
    BY <1>1, <1>2, <1>5 DEF BuildEnter, Callee
  <1>7. FirstStatus(h) \in Settled
    BY DEF FirstStatus, Settled
  <1>8. f \in Activation
    BY <1>4, <1>5, <1>7, EmptySeq DEF Activation, Pcs, DepLoops, Status
  <1>9. /\ f.pc = "deps" /\ f.todo = Deps[h] /\ f.st \in Settled /\ f.by = c /\ f.notify = n
        /\ f.dyn = <<>>
    BY <1>7
  <1>10. /\ act' \in [Rules \union {Main} -> Activation] /\ act'[h] = f
         /\ \A a \in (Rules \union {Main}) \ {h} : act'[a] = act[a]
    BY <1>3, <1>6, <1>8
  <1> HIDE DEF f
  <1>11. /\ status' \in [Rules -> Status] /\ status'[h] = "checking"
         /\ \A r \in Rules \ {h} : status'[r] = status[r]
    BY <1>3 DEF Status
  <1>12. TypeOK'
    BY <1>3, <1>10, <1>11 DEF IInv, TypeOK, env
  <1>13. ~Active(h) /\ c # h
    <2>1. ~Active(h)
      BY <1>3 DEF IInv, StatusOK
    <2>2. cur # Main => Active(cur)
      BY DEF IInv, PcsOK
    <2> QED
      BY <1>1, <1>3, <2>1, <2>2
  <1>14. act[c].pc \in {"deps", "sync"}
    <2>1. ASSUME act[c].pc = "dyn" PROVE FALSE
      <3>1. c \in Rules
        BY <2>1 DEF IInv, PcsOK
      <3>2. h \in Elements(act[c].todo)
        BY <1>2, <1>3, TailElements
      <3>3. status[h] \in Settled
        BY <2>1, <3>1, <3>2 DEF IInv, LoopOK
      <3> QED
        BY <3>3, <1>3 DEF Settled
    <2> QED
      BY <2>1, <1>3 DEF DepLoops
  <1>15. \A d : Ready(d) => Ready(d)'
    BY <1>3, <1>11 DEF Ready, Settled
  <1>16. PcsOK'
    BY <1>3, <1>9, <1>10, <1>13 DEF IInv, PcsOK, Active
  <1>17. ASSUME NEW r \in Rules PROVE FrameOK(r)'
    <2>1. CASE r = h
      BY <2>1, <1>2, <1>3, <1>5, <1>9, <1>10, <1>13, <1>14 DEF FrameOK, Active
    <2>2. CASE r # h
      <3>1. act'[r] = act[r] /\ FrameOK(r) /\ act[r].by \in Rules \union {Main}
        BY <2>2, <1>3, <1>10 DEF IInv, Activation
      <3>2. CASE Active(r)
        <4>1. act[r].by # h
          BY <3>1, <3>2, <1>13 DEF FrameOK, Active
        <4>2. act'[act[r].by] = act[act[r].by]
          BY <3>1, <4>1, <1>10
        <4>3. r # cur => act[r].pc \in {"deps", "sync"}
          BY <3>1, <3>2 DEF FrameOK
        <4>4. act[r].pc \in {"deps", "sync"}
          BY <4>3, <1>1, <1>14
        <4> QED
          BY <3>1, <3>2, <4>1, <4>2, <4>4, <1>3 DEF FrameOK, Active
      <3> QED
        BY <3>1, <3>2 DEF FrameOK, Active
    <2> QED
      BY <2>1, <2>2
  <1>18. ASSUME NEW r \in Rules PROVE StatusOK(r)' /\ StartedOK(r)'
    <2>1. CASE r = h
      BY <2>1, <1>3, <1>9, <1>10, <1>11 DEF IInv, StatusOK, StartedOK, Active
    <2>2. CASE r # h
      BY <2>2, <1>3, <1>10, <1>11 DEF IInv, StatusOK, StartedOK, Active
    <2> QED
      BY <2>1, <2>2
  <1>19. JobsAccounted' /\ PendingOK'
    BY <1>3, <1>11 DEF IInv, JobsAccounted, PendingOK, JobsFor
  <1>20. \A r \in Rules : AllReady(r) => AllReady(r)'
    BY <1>15 DEF AllReady
  <1>21. ASSUME NEW r \in Rules PROVE LoopOK(r)'
    <2>1. CASE r = h
      <3>1. Elements(<<>>) = {}
        BY DEF Elements
      <3> QED
        BY <2>1, <3>1, <1>9, <1>10, <1>11 DEF LoopOK
    <2>2. CASE r # h
      <3>1. LoopOK(r) /\ act'[r] = act[r] /\ status'[r] = status[r]
        BY <2>2, <1>10, <1>11 DEF IInv
      <3>2. \A x \in Rules : status[x] \in Settled => status'[x] \in Settled
        BY <1>3, <1>11 DEF Settled
      <3>3. act[r].dyn \in Seq(Rules) /\ act[r].todo \in Seq(Node)
        BY <1>3 DEF Activation
      <3>4. Elements(act[r].dyn) \subseteq Rules
        BY <3>3, LenProperties DEF Elements
      <3> QED
        BY <3>1, <3>2, <3>4, <1>15, <1>20 DEF LoopOK
    <2> QED
      BY <2>1, <2>2
  <1>22. ASSUME NEW j \in running PROVE JobOK(j)'
    <2>1. JobOK(j) /\ j.notify \in Rules
      BY DEF IInv, TypeOK, Jobs
    <2>2. CASE j.notify = h
      BY <2>1, <2>2, <1>9, <1>10, <1>11 DEF JobOK, Active
    <2>3. CASE j.notify # h
      BY <2>1, <2>3, <1>3, <1>10, <1>11 DEF JobOK, Active
    <2> QED
      BY <2>2, <2>3
  <1> QED
    BY <1>3, <1>12, <1>16, <1>17, <1>18, <1>19, <1>21, <1>22 DEF IInv

-----------------------------------------------------------------------------
(* Jobs *)

\* What reaping job j does, as far as the invariant can tell.
Reaped(j) ==
    LET r == j.rule
        n == j.notify
    IN  /\ j \in running /\ running' = running \ {j}
        /\ r \in Rules /\ n \in Rules /\ r # n
        /\ status' \in [Rules -> Status]
        /\ status'[r] \in {"built", "failed"}
        /\ \/ status'[n] \in {status[n], "failed"}
           \/ status[n] = "waiting" /\ pending[n] = 1 /\ status'[n] = "unknown"
        /\ \A x \in Rules \ {r, n} : status'[x] = status[x]
        /\ pending' \in [Rules -> Int]
        /\ pending'[n] >= pending[n] - 1
        /\ \A x \in Rules \ {n} : pending'[x] = pending[x]
        /\ child' \in [Rules -> AllOutcomes \union {"none", "live"}]
        /\ child'[r] = "none"
        /\ \A x \in Rules \ {r} : child'[x] = child[x]
        /\ exists' \in [Rules -> BOOLEAN] /\ exitcode' \in {0, 1}
        /\ mode' \in {mode, "exiting"} /\ code' \in {0, 1, 2}

\* Reap does that.
LEMMA ReapEffect == ASSUME IInv, NEW j \in running, Reap(j) PROVE Reaped(j)
  <1>1. PICK r \in Rules, n \in Rules : r = j.rule /\ n = j.notify
    BY DEF IInv, TypeOK, Jobs
  <1>2. /\ status \in [Rules -> Status] /\ pending \in [Rules -> Int]
        /\ child \in [Rules -> AllOutcomes \union {"none", "live"}]
        /\ exists \in [Rules -> BOOLEAN] /\ exitcode \in {0, 1} /\ code \in {0, 1, 2}
    BY DEF IInv, TypeOK
  <1>3. status[r] = "running" /\ status[n] \in {"waiting", "checking", "failed"}
    BY <1>1 DEF IInv, JobsAccounted, JobOK
  <1>4. r # n
    BY <1>3
  <1>5. PICK ok \in BOOLEAN, fin \in BOOLEAN :
          LET st == [status EXCEPT ![r] = PostStatus(r, ok, exists[r], fin)]
          IN  /\ exitcode' = PostExitcode(r, ok, exists[r], fin, child[r] = "fail")
              /\ status' = IF ~ok THEN [st EXCEPT ![n] = "failed"]
                           ELSE IF pending[n] = 1 /\ st[n] = "waiting"
                           THEN [st EXCEPT ![n] = "unknown"] ELSE st
              /\ exists' = [exists EXCEPT ![r] = exists[r] /\ Produced(r, ok, exists[r])]
              /\ pending' = IF ok THEN [pending EXCEPT ![n] = pending[n] - 1] ELSE pending
              /\ ExitIf(~ok /\ QuickStop, exitcode')
    <2>1. PICK fin \in BOOLEAN :
            LET st == [status EXCEPT ![r] = PostStatus(r, child[r] = "ok", exists[r], fin)]
            IN  /\ exitcode' = PostExitcode(r, child[r] = "ok", exists[r], fin, child[r] = "fail")
                /\ status' = IF child[r] # "ok" THEN [st EXCEPT ![n] = "failed"]
                             ELSE IF pending[n] = 1 /\ st[n] = "waiting"
                             THEN [st EXCEPT ![n] = "unknown"] ELSE st
      BY <1>1 DEF Reap
    <2> QED
      BY <1>1, <2>1 DEF Reap
  <1>6. running' = running \ {j} /\ child' = [child EXCEPT ![r] = "none"]
    BY <1>1 DEF Reap
  <1>7. PICK v \in {"built", "failed"} : v = PostStatus(r, ok, exists[r], fin)
    BY DEF PostStatus
  <1>8. /\ status' \in [Rules -> Status] /\ status'[r] = v
        /\ \/ status'[n] \in {status[n], "failed"}
           \/ status[n] = "waiting" /\ pending[n] = 1 /\ status'[n] = "unknown"
        /\ \A x \in Rules \ {r, n} : status'[x] = status[x]
    <2>1. v \in Status /\ "unknown" \in Status /\ "failed" \in Status
      BY DEF Status, Settled
    <2>2. PICK w \in {status[n], "failed", "unknown"} :
            /\ status' = [[status EXCEPT ![r] = v] EXCEPT ![n] = w]
            /\ w = "unknown" => status[n] = "waiting" /\ pending[n] = 1
      <3>1. CASE ~ok
        BY <1>3, <1>5, <1>7, <3>1
      <3>2. CASE ok /\ pending[n] = 1 /\ status[n] = "waiting"
        BY <1>2, <1>4, <1>5, <1>7, <3>2
      <3>3. CASE ok /\ ~(pending[n] = 1 /\ status[n] = "waiting")
        <4>1. status' = [status EXCEPT ![r] = v]
          BY <1>2, <1>4, <1>5, <1>7, <3>3
        <4>2. [status EXCEPT ![r] = v] = [[status EXCEPT ![r] = v] EXCEPT ![n] = status[n]]
          BY <1>2, <1>4
        <4> QED
          BY <1>3, <4>1, <4>2
      <3> QED
        BY <3>1, <3>2, <3>3
    <2> QED
      BY <1>2, <1>4, <2>1, <2>2
  <1>9. /\ pending' \in [Rules -> Int] /\ pending'[n] >= pending[n] - 1
        /\ \A x \in Rules \ {n} : pending'[x] = pending[x]
    BY <1>2, <1>5
  <1>10. /\ child' \in [Rules -> AllOutcomes \union {"none", "live"}] /\ child'[r] = "none"
         /\ \A x \in Rules \ {r} : child'[x] = child[x]
    BY <1>2, <1>6
  <1>11. exists' \in [Rules -> BOOLEAN]
    <2>1. (exists[r] /\ Produced(r, ok, exists[r])) \in BOOLEAN
      OBVIOUS
    <2> QED
      BY <1>2, <1>5, <2>1
  <1>12. exitcode' \in {0, 1}
    BY <1>2, <1>5 DEF PostExitcode
  <1>13. mode' \in {mode, "exiting"} /\ code' \in {0, 1, 2}
    BY <1>2, <1>5, <1>12 DEF ExitIf, TmakeExit, Continue
  <1> QED
    BY <1>1, <1>4, <1>6, <1>7, <1>8, <1>9, <1>10, <1>11, <1>12, <1>13 DEF Reaped

\* The activations meanwhile: one that waits may go on.
Woken ==
    /\ act' \in [Rules \union {Main} -> Activation]
    /\ \A a \in Rules \union {Main} :
         \/ act'[a] = act[a]
         \/ /\ act[a].pc = "wait" /\ act'[a].pc = "sync"
            /\ act'[a].todo = act[a].todo /\ act'[a].st = act[a].st
            /\ act'[a].by = act[a].by /\ act'[a].notify = act[a].notify
            /\ act'[a].dyn = act[a].dyn

LEMMA ReapStep ==
  ASSUME IInv, NEW j \in running, Reaped(j), Woken,
         mode = "build" => act[cur].pc \in {"wait", "run"},
         UNCHANGED <<cur, env, started>>
  PROVE  IInv'
  <1> USE Names
  <1> DEFINE r == j.rule
             n == j.notify
  <1>1. /\ r \in Rules /\ n \in Rules /\ r # n
        /\ running' = running \ {j} /\ status' \in [Rules -> Status]
        /\ status'[r] \in {"built", "failed"}
        /\ \/ status'[n] \in {status[n], "failed"}
           \/ status[n] = "waiting" /\ pending[n] = 1 /\ status'[n] = "unknown"
        /\ \A x \in Rules \ {r, n} : status'[x] = status[x]
        /\ mode' \in {mode, "exiting"}
    BY DEF Reaped
  <1>2. status[r] = "running" /\ status[n] \in {"waiting", "checking", "failed"}
    BY DEF IInv, JobsAccounted, JobOK, Reaped
  <1>3. TypeOK'
    BY DEF IInv, TypeOK, Reaped, Woken, env
  <1>4. /\ act \in [Rules \union {Main} -> Activation] /\ cur' = cur /\ started' = started
        /\ \A a \in Rules \union {Main} :
             /\ act'[a].todo = act[a].todo /\ act'[a].st = act[a].st
             /\ act'[a].by = act[a].by /\ act'[a].notify = act[a].notify
             /\ act'[a].dyn = act[a].dyn
             /\ act'[a].pc = act[a].pc \/ (act[a].pc = "wait" /\ act'[a].pc = "sync")
             /\ act[a].pc # "wait" => act'[a] = act[a]
    BY DEF IInv, TypeOK, Woken
  <1> HIDE DEF r, n
  <1>5. PcsOK'
    <2>1. PcsOK /\ cur \in Rules \union {Main}
      BY DEF IInv, TypeOK
    <2>2. act'[Main].pc \in {"goal", "sync", "wait"}
      BY <2>1, <1>4 DEF PcsOK
    <2>3. cur # Main => act'[cur].pc # "goal"
      BY <2>1, <1>4 DEF PcsOK, Active
    <2>4. ASSUME NEW x \in Rules, act'[x].pc \in {"sync", "wait"}
          PROVE  act'[x].todo \in Seq(Rules)
      BY <2>1, <2>4, <1>4 DEF PcsOK
    <2> QED
      BY <2>2, <2>3, <2>4, <1>4 DEF PcsOK, Active
  <1>6. ASSUME NEW x \in Rules PROVE FrameOK(x)'
    <2>1. FrameOK(x) /\ act[x].by \in Rules \union {Main}
      BY <1>4 DEF IInv, Activation
    <2>2. Active(x)' => Active(x)
      BY <1>4 DEF Active
    <2>3. Active(x) => act'[act[x].by] = act[act[x].by]
      BY <2>1, <1>4 DEF FrameOK
    <2>4. act[x].pc \in {"deps", "sync"} => act'[x].pc \in {"deps", "sync"}
      BY <1>4
    <2> QED
      BY <2>1, <2>2, <2>3, <2>4, <1>4 DEF FrameOK
  <1>7. \A x \in Rules : status[x] \in Settled => status'[x] = status[x]
    BY <1>1, <1>2 DEF Settled
  <1>8. \A d : Ready(d) => Ready(d)'
    BY <1>7 DEF Ready
  <1>9. \A x \in Rules : AllReady(x) => AllReady(x)'
    BY <1>8 DEF AllReady
  <1>10. ASSUME mode = "build", NEW x \in Rules, act[x].pc = "return" PROVE FALSE
    <2>1. x # cur
      BY <1>10
    <2> QED
      BY <1>10, <2>1 DEF IInv, FrameOK, Active
  <1>11. mode' = "build" => mode = "build"
    BY <1>1
  <1>12. ASSUME NEW x \in Rules PROVE StatusOK(x)'
    <2>1. StatusOK(x) /\ act'[x].st = act[x].st /\ (Active(x)' <=> Active(x))
      BY <1>4 DEF IInv, Active
    <2>2. act'[x].pc = "return" <=> act[x].pc = "return"
      BY <1>4
    <2>3. status[x] = "running" /\ Active(x) => act[x].pc = "return"
      BY <2>1 DEF StatusOK
    <2>4. \/ status'[x] = status[x]
          \/ x = r /\ status[x] = "running" /\ status'[x] \in {"built", "failed"}
          \/ status'[x] = "failed" /\ status[x] # "running"
          \/ status[x] = "waiting" /\ status'[x] = "unknown"
      BY <1>1, <1>2
    <2>5. act'[x].pc = "return" => mode' # "build"
      BY <2>2, <1>10, <1>11
    <2>6. act'[x].pc \in {"deps", "sync", "wait", "dyn"} => act'[x].st \in Settled
      BY <2>1, <1>4 DEF StatusOK
    <2> QED
      BY <2>1, <2>2, <2>3, <2>4, <2>5, <2>6 DEF StatusOK
  <1>13. ASSUME NEW x \in Rules PROVE LoopOK(x)'
    <2>1. LoopOK(x) /\ (status'[x] = "running" => status[x] = "running")
      BY <1>1, <1>2 DEF IInv
    <2>2. Elements(act[x].dyn) \subseteq Rules
      <3>1. act[x].dyn \in Seq(Rules)
        BY <1>4 DEF Activation
      <3> QED
        BY <3>1, LenProperties DEF Elements
    <2>3. act[x].pc # "wait" => act'[x] = act[x]
      BY <1>4
    <2>4. act[x].pc = "wait" => act'[x].pc \in {"sync", "wait"} /\ act'[x].dyn = act[x].dyn
      BY <1>4
    <2>5. act[x].pc = "wait" => LoopOK(x)'
      BY <2>1, <2>2, <2>4, <1>7, <1>9 DEF LoopOK
    <2>6. act[x].pc # "wait" => LoopOK(x)'
      BY <2>1, <2>2, <2>3, <1>7, <1>8, <1>9 DEF LoopOK
    <2> QED
      BY <2>5, <2>6
  <1>14. ASSUME NEW x \in Rules PROVE StartedOK(x)'
    <2>1. StartedOK(x) /\ (Active(x)' <=> Active(x)) /\ act'[x].st = act[x].st
      BY <1>4 DEF IInv, Active
    <2>2. act[x].pc = "return" => act'[x].pc = "return"
      BY <1>4
    <2>3. status[x] \in {"running", "built", "failed"} => status'[x] \in {"running", "built", "failed"}
      BY <1>1, <1>2
    <2> QED
      BY <2>1, <2>2, <2>3, <1>4, <1>11 DEF StartedOK
  <1>15. JobsAccounted'
    <2>1. ASSUME NEW k \in running' PROVE k.rule # r
      BY <2>1, <1>1 DEF IInv, JobsAccounted, r
    <2>2. status'[r] # "running" /\ child'[r] = "none"
      BY <1>1 DEF Reaped, r
    <2>3. ASSUME NEW x \in Rules, x # r
          PROVE  /\ status'[x] = "running" <=> status[x] = "running"
                 /\ child'[x] = child[x]
                 /\ (\E k \in running' : k.rule = x) <=> (\E k \in running : k.rule = x)
      BY <2>3, <1>1, <1>2 DEF Reaped, r
    <2> QED
      BY <2>1, <2>2, <2>3, <1>1 DEF IInv, JobsAccounted
  <1>16. /\ IsFiniteSet(running') /\ JobsFor(n)' = JobsFor(n) \ {j} /\ j \in JobsFor(n)
         /\ IsFiniteSet(JobsFor(n)) /\ Cardinality(JobsFor(n)) \in Nat
         /\ Cardinality(JobsFor(n)') = Cardinality(JobsFor(n)) - 1
    <2>1. IsFiniteSet(running) /\ JobsFor(n) \subseteq running /\ j \in JobsFor(n)
      BY DEF IInv, PendingOK, JobsFor, n
    <2>2. IsFiniteSet(running') /\ IsFiniteSet(JobsFor(n))
      BY <2>1, <1>1, FS_Subset, FS_RemoveElement
    <2>3. JobsFor(n)' = JobsFor(n) \ {j}
      BY <1>1 DEF JobsFor
    <2> QED
      BY <2>1, <2>2, <2>3, FS_RemoveElement, FS_CardinalityType
  <1>17. PendingOK'
    <2>1. ASSUME NEW x \in Rules PROVE Cardinality(JobsFor(x)') <= pending'[x]
      <3>1. /\ pending[x] \in Int /\ pending'[x] \in Int
            /\ Cardinality(JobsFor(x)) <= pending[x]
        BY DEF IInv, TypeOK, PendingOK, Reaped
      <3>2. CASE x = n
        BY <3>1, <3>2, <1>16 DEF Reaped, n
      <3>3. CASE x # n
        <4>1. JobsFor(x)' = JobsFor(x)
          BY <3>3, <1>1 DEF JobsFor, n
        <4> QED
          BY <3>1, <3>3, <4>1 DEF Reaped, n
      <3> QED
        BY <3>2, <3>3
    <2> QED
      BY <2>1, <1>16 DEF PendingOK
  <1>18. ASSUME NEW k \in running' PROVE JobOK(k)'
    <2> DEFINE m == k.notify
    <2>1. k \in running /\ k # j /\ JobOK(k) /\ m \in Rules
      BY <1>1 DEF IInv, TypeOK, Jobs
    <2>2. m # r
      BY <2>1, <1>2 DEF JobOK
    <2>3. status'[m] \in {"waiting", "checking", "failed"}
      <3>1. CASE m = n
        <4>1. status'[n] # "unknown"
          <5>1. SUFFICES ASSUME pending[n] = 1 PROVE FALSE
            BY <1>1, <1>2
          <5>2. k \in JobsFor(n) \ {j}
            BY <2>1, <3>1 DEF JobsFor
          <5>3. Cardinality(JobsFor(n)) <= 1
            BY <5>1, <1>1 DEF IInv, PendingOK
          <5>4. Cardinality(JobsFor(n) \ {j}) = 0 /\ IsFiniteSet(JobsFor(n) \ {j})
            BY <5>3, <1>16, FS_RemoveElement, FS_CardinalityType
          <5> QED
            BY <5>2, <5>4, FS_EmptySet
        <4> QED
          BY <3>1, <4>1, <1>1, <1>2
      <3>2. CASE m # n
        BY <3>2, <2>1, <2>2, <1>1 DEF JobOK
      <3> QED
        BY <3>1, <3>2
    <2>4. act[m].pc # "wait"
      BY <2>1 DEF JobOK, Active
    <2>5. act'[m] = act[m]
      BY <2>1, <2>4, <1>4
    <2> QED
      BY <2>1, <2>3, <2>5, <1>11 DEF JobOK, Active
  <1> QED
    BY <1>3, <1>5, <1>6, <1>12, <1>13, <1>14, <1>15, <1>17, <1>18 DEF IInv

LEMMA SlotWaitStep == ASSUME IInv, SlotWait \/ ExitReap PROVE IInv'
  <1>1. PICK j \in running : Reap(j)
    BY DEF SlotWait, ExitReap
  <1>2. Reaped(j)
    BY <1>1, ReapEffect
  <1>3. UNCHANGED <<act, cur, env, started>> /\ (mode = "build" => act[cur].pc = "run")
    BY DEF SlotWait, ExitReap, Running
  <1>4. Woken
    BY <1>3 DEF Woken, IInv, TypeOK
  <1> QED
    BY <1>2, <1>3, <1>4, ReapStep

LEMMA SyncWaitStep == ASSUME IInv, SyncWait PROVE IInv'
  <1> USE Names
  <1>1. PICK c \in Rules \union {Main} : c = cur
    BY DEF IInv, TypeOK
  <1>2. /\ act \in [Rules \union {Main} -> Activation] /\ act[c] \in Activation
        /\ act[c].pc = "wait" /\ mode = "build" /\ act' = [act EXCEPT ![c].pc = "sync"]
        /\ UNCHANGED <<cur, env, started>>
    BY <1>1 DEF IInv, TypeOK, SyncWait
  <1>3. PICK s \in Seq(Node), v \in Status : s = act[c].todo /\ v = act[c].st
    BY <1>2 DEF Activation
  <1>4. "sync" \in Pcs
    BY DEF Pcs
  <1>5. Moved(c, "sync", s, v)
    BY <1>2, <1>3, <1>4, Move
  <1>6. CASE \E j \in running : Reap(j)
    <2>1. PICK j \in running : Reap(j)
      BY <1>6
    <2>2. Reaped(j)
      BY <2>1, ReapEffect
    <2>3. Woken
      BY <1>2, <1>3, <1>5 DEF Woken, Moved
    <2> QED
      BY <1>1, <1>2, <2>2, <2>3, ReapStep
  <1>7. CASE running = {} /\ Continue
              /\ UNCHANGED <<status, running, pending, child, exists, exitcode>>
    <2>1. /\ mode' \in {"build", "exiting"} /\ code' \in {0, 1, 2}
          /\ UNCHANGED <<status, cur, running, pending, child, exists, exitcode, env, started>>
      BY <1>2, <1>7 DEF Continue, IInv, TypeOK
    <2>2. CASE c \in Rules
      <3>1. StatusOK(c) /\ LoopOK(c) /\ PcsOK
        BY <2>2 DEF IInv
      <3>2. v \in Settled /\ AllReady(c) /\ s \in Seq(Rules)
        BY <2>2, <3>1, <1>2, <1>3 DEF StatusOK, LoopOK, PcsOK
      <3>3. \A j \in running : j.notify # c
        BY <1>7
      <3>4. "sync" \in Pcs \ {"goal", "deps"} /\ "sync" \notin {"return", "dyn"}
        BY <1>4
      <3>5. MayMove(c, "sync", s, v)
        BY <1>2, <3>2, <3>3, <3>4 DEF MayMove
      <3> QED
        BY <1>1, <1>2, <1>5, <2>1, <2>2, <3>4, <3>5, MovedStep
    <2>3. CASE c = Main
      <3>1. TypeOK'
        BY <1>5, <2>1 DEF IInv, TypeOK, Moved, env
      <3> QED
        BY <1>1, <1>2, <1>5, <2>1, <2>3, <3>1, CurStep DEF Moved
    <2> QED
      BY <2>2, <2>3
  <1> QED
    BY <1>6, <1>7 DEF SyncWait

\* A child that ends changes its own state and the files only.
LEMMA ChildExitStep ==
  ASSUME IInv, NEW r \in Rules, NEW o \in Outcomes, NEW there \in BOOLEAN,
         ChildExit(r, o, there)
  PROVE  IInv'
  <1>1. /\ child[r] = "live" /\ child' = [child EXCEPT ![r] = o]
        /\ exists' = [exists EXCEPT ![r] = there]
        /\ UNCHANGED <<status, act, cur, running, pending, exitcode, env, mode, code, started>>
    BY DEF ChildExit
  <1>2. o \in AllOutcomes /\ o # "none"
    BY EngineAssumption DEF EngineAssumption, AllOutcomes
  <1>3. TypeOK'
    BY <1>1, <1>2 DEF IInv, TypeOK, env
  <1>4. PcsOK' /\ PendingOK'
    BY <1>1 DEF IInv, PcsOK, PendingOK, JobsFor, Active
  <1>5. \A x \in Rules : child'[x] # "none" <=> child[x] # "none"
    BY <1>1, <1>2 DEF IInv, TypeOK
  <1>6. JobsAccounted'
    BY <1>1, <1>5 DEF IInv, JobsAccounted
  <1>7. ASSUME NEW x \in Rules PROVE FrameOK(x)' /\ StatusOK(x)' /\ LoopOK(x)' /\ StartedOK(x)'
    BY <1>1 DEF IInv, FrameOK, StatusOK, LoopOK, StartedOK, Active, AllReady, Ready
  <1>8. ASSUME NEW j \in running PROVE JobOK(j)'
    BY <1>1 DEF IInv, JobOK, Active
  <1> QED
    BY <1>1, <1>3, <1>4, <1>6, <1>7, <1>8 DEF IInv

-----------------------------------------------------------------------------
(* Commands and answers *)

\* A rule whose commands are about to run: its dependencies are ready, no job
\* reports to it, it has none itself, and it has not been started.
LEMMA AboutToRun ==
  ASSUME IInv, NEW c \in Rules, c = cur, mode = "build", act[c].pc = "run"
  PROVE  /\ status[c] \in {"checking", "failed"} /\ AllReady(c) /\ started[c] = 0
         /\ \A j \in running : j.notify # c /\ j.rule # c
  <1>1. status[c] \in {"checking", "failed"} /\ AllReady(c) /\ started[c] = 0
    BY DEF IInv, StatusOK, LoopOK, StartedOK, Active
  <1>2. ASSUME NEW j \in running PROVE j.notify # c /\ j.rule # c
    BY <1>1 DEF IInv, JobOK, JobsAccounted, Active
  <1> QED
    BY <1>1, <1>2

\* Steps that start the commands of the innermost rule and finish with it: what
\* else they change has to be looked at for the jobs only.
LEMMA StartedStep ==
  ASSUME IInv, TypeOK', NEW c \in Rules, c = cur, mode = "build", act[c].pc = "run",
         NEW v \in Status, NEW st \in Status,
         Moved(c, "return", act[c].todo, v),
         status' = [status EXCEPT ![c] = st],
         started' = [started EXCEPT ![c] = started[c] + 1],
         cur' = cur,
         st \in {"running", "built", "failed"}, v \in {"running", "built", "failed"},
         st = "running" <=> v = "running", st = "built" => v = "built",
         JobsAccounted', PendingOK', \A j \in running' : JobOK(j)'
  PROVE  IInv'
  <1> USE Names
  <1>1. /\ status[c] \in {"checking", "failed"} /\ AllReady(c) /\ started[c] = 0
    BY AboutToRun
  <1>2. /\ status \in [Rules -> Status] /\ started \in [Rules -> Nat]
        /\ act \in [Rules \union {Main} -> Activation]
    BY DEF IInv, TypeOK
  <1>3. /\ status'[c] = st /\ started'[c] = 1
        /\ \A x \in Rules \ {c} : status'[x] = status[x] /\ started'[x] = started[x]
    BY <1>1, <1>2
  <1>4. PcsOK'
    <2>1. act'[Main] = act[Main] /\ act'[c].pc = "return"
      BY DEF Moved
    <2>2. ASSUME NEW x \in Rules, act'[x].pc \in {"sync", "wait"}
          PROVE  act'[x].todo \in Seq(Rules)
      BY <2>1, <2>2 DEF IInv, PcsOK, Moved
    <2> QED
      BY <2>1, <2>2 DEF IInv, PcsOK, Active
  <1>5. ASSUME NEW x \in Rules PROVE FrameOK(x)'
    <2>1. FrameOK(x) /\ act[x].by \in Rules \union {Main}
      BY <1>2 DEF IInv, Activation
    <2>2. Active(x)' => Active(x)
      BY DEF Active, Moved
    <2>3. Active(x) => act'[act[x].by] = act[act[x].by]
      BY <2>1 DEF FrameOK, Moved
    <2>4. act'[x].by = act[x].by /\ act'[x].notify = act[x].notify
      BY DEF Moved
    <2>5. x # cur => act'[x].pc = act[x].pc
      BY DEF Moved
    <2> QED
      BY <2>1, <2>2, <2>3, <2>4, <2>5 DEF FrameOK
  <1>6. \A x \in Rules : status[x] \in Settled => status'[x] = status[x]
    BY <1>1, <1>3 DEF Settled
  <1>7. \A d : Ready(d) => Ready(d)'
    BY <1>6 DEF Ready
  <1>8. \A x \in Rules : AllReady(x) => AllReady(x)'
    BY <1>7 DEF AllReady
  <1>9. ASSUME NEW x \in Rules PROVE StatusOK(x)' /\ StartedOK(x)' /\ LoopOK(x)'
    <2>1. CASE x = c
      BY <2>1, <1>1, <1>3, <1>8 DEF StatusOK, StartedOK, LoopOK, Active, Moved
    <2>2. CASE x # c
      <3>1. /\ act'[x] = act[x] /\ status'[x] = status[x] /\ started'[x] = started[x]
            /\ StatusOK(x) /\ StartedOK(x) /\ LoopOK(x)
        BY <2>2, <1>3 DEF IInv, Moved
      <3>2. Elements(act[x].dyn) \subseteq Rules
        <4>1. act[x].dyn \in Seq(Rules)
          BY <1>2 DEF Activation
        <4> QED
          BY <4>1, LenProperties DEF Elements
      <3> QED
        BY <3>1, <3>2, <1>6, <1>7, <1>8 DEF StatusOK, StartedOK, LoopOK, Active
    <2> QED
      BY <2>1, <2>2
  <1> QED
    BY <1>4, <1>5, <1>9 DEF IInv

LEMMA ForkStep == ASSUME IInv, Fork PROVE IInv'
  <1> USE Names
  <1>1. PICK c \in Rules : c = cur /\ act[c].pc = "run" /\ mode = "build"
    BY DEF Fork, Running, IInv, TypeOK, PcsOK
  <1>2. /\ status[c] \in {"checking", "failed"} /\ AllReady(c) /\ started[c] = 0
        /\ \A j \in running : j.notify # c /\ j.rule # c
    BY <1>1, AboutToRun
  <1>3. /\ act \in [Rules \union {Main} -> Activation] /\ act[c] \in Activation
        /\ act[c].todo \in Seq(Node) /\ status \in [Rules -> Status]
        /\ pending \in [Rules -> Int] /\ started \in [Rules -> Nat]
        /\ child \in [Rules -> AllOutcomes \union {"none", "live"}]
    BY <1>1 DEF IInv, TypeOK, Activation
  <1>4. PICK n \in Rules : n = act[c].notify
    BY <1>1, <1>3 DEF Fork, Backgrounds, Activation
  <1>5. /\ n # c /\ act[n].pc = "deps" /\ act[n].todo # <<>> /\ Head(act[n].todo) = c
    <2>1. FrameOK(c) /\ Active(c)
      BY <1>1 DEF IInv, Active
    <2>2. act[c].by = n /\ act[c].by # cur
      BY <2>1, <1>4 DEF FrameOK
    <2> QED
      BY <1>1, <1>4, <2>1, <2>2 DEF FrameOK
  <1>6. c \in Elements(act[n].todo) /\ c \in Elements(Deps[n])
    <2>1. act[n].todo \in Seq(Node)
      BY <1>3 DEF Activation
    <2>2. c \in Elements(act[n].todo)
      BY <1>5, <2>1, TailElements
    <2> QED
      BY <2>2, <1>5 DEF IInv, LoopOK
  <1>7. status[n] \in {"checking", "failed"} /\ Active(n)
    BY <1>5 DEF IInv, StatusOK, Active
  <1>8. PICK j : j = [rule |-> c, notify |-> n]
    OBVIOUS
  <1>9. /\ j \in Jobs /\ j.rule = c /\ j.notify = n /\ j \notin running
    BY <1>2, <1>8 DEF Jobs
  <1>10. /\ running' = running \union {j}
         /\ pending' = [pending EXCEPT ![n] = pending[n] + 1]
         /\ status' = [status EXCEPT ![c] = "running"]
         /\ child' = [child EXCEPT ![c] = "live"]
         /\ started' = [started EXCEPT ![c] = started[c] + 1]
         /\ act' = [act EXCEPT ![c].pc = "return", ![c].st = "running"]
         /\ UNCHANGED <<cur, exists, exitcode, env>>
    BY <1>1, <1>4, <1>8 DEF Fork
  <1>11. mode' \in {"build", "exiting"} /\ code' \in {0, 1, 2}
    BY <1>1 DEF Fork, ExitIf, TmakeExit, Continue, IInv, TypeOK
  <1>12. "running" \in Status /\ "return" \in Pcs
    BY DEF Status, Pending, Pcs
  <1>13. Moved(c, "return", act[c].todo, "running")
    BY <1>3, <1>10, <1>12, Move
  <1>14. TypeOK'
    <2>1. /\ running' \in SUBSET Jobs /\ pending' \in [Rules -> Int]
          /\ status' \in [Rules -> Status] /\ started' \in [Rules -> Nat]
          /\ child' \in [Rules -> AllOutcomes \union {"none", "live"}]
      BY <1>3, <1>9, <1>10, <1>12 DEF IInv, TypeOK
    <2> QED
      BY <2>1, <1>10, <1>11, <1>13 DEF IInv, TypeOK, Moved, env
  <1>15. JobsAccounted'
    <2>1. ASSUME NEW x \in Rules
          PROVE  /\ (status'[x] = "running" <=> \E k \in running' : k.rule = x)
                 /\ (child'[x] # "none" <=> \E k \in running' : k.rule = x)
      <3>1. CASE x = c
        BY <3>1, <1>3, <1>9, <1>10
      <3>2. CASE x # c
        <4>1. (\E k \in running' : k.rule = x) <=> (\E k \in running : k.rule = x)
          BY <3>2, <1>9, <1>10
        <4> QED
          BY <3>2, <4>1, <1>3, <1>10 DEF IInv, JobsAccounted
      <3> QED
        BY <3>1, <3>2
    <2>2. ASSUME NEW k \in running', NEW l \in running', k.rule = l.rule PROVE k = l
      BY <2>2, <1>2, <1>9, <1>10 DEF IInv, JobsAccounted
    <2> QED
      BY <2>1, <2>2 DEF JobsAccounted
  <1>16. PendingOK'
    <2>1. IsFiniteSet(running) /\ IsFiniteSet(running')
      BY <1>10, FS_AddElement DEF IInv, PendingOK
    <2>2. ASSUME NEW x \in Rules PROVE Cardinality(JobsFor(x)') <= pending'[x]
      <3>1. Cardinality(JobsFor(x)) <= pending[x] /\ pending[x] \in Int
        BY <1>3 DEF IInv, PendingOK
      <3>2. CASE x = n
        <4>1. /\ JobsFor(x)' = JobsFor(x) \union {j} /\ j \notin JobsFor(x)
              /\ JobsFor(x) \subseteq running
          BY <3>2, <1>9, <1>10 DEF JobsFor
        <4>2. IsFiniteSet(JobsFor(x)) /\ Cardinality(JobsFor(x)) \in Nat
          BY <2>1, <4>1, FS_Subset, FS_CardinalityType
        <4>3. Cardinality(JobsFor(x)') = Cardinality(JobsFor(x)) + 1
          BY <4>1, <4>2, FS_AddElement
        <4>4. pending'[x] = pending[x] + 1
          BY <3>2, <1>3, <1>10
        <4> QED
          BY <3>1, <4>2, <4>3, <4>4
      <3>3. CASE x # n
        <4>1. JobsFor(x)' = JobsFor(x)
          BY <3>3, <1>9, <1>10 DEF JobsFor
        <4> QED
          BY <3>1, <3>3, <4>1, <1>3, <1>10
      <3> QED
        BY <3>2, <3>3
    <2> QED
      BY <2>1, <2>2 DEF PendingOK
  <1>17. ASSUME NEW k \in running' PROVE JobOK(k)'
    <2>1. CASE k = j
      <3>1. act'[n] = act[n] /\ status'[n] = status[n]
        BY <1>3, <1>5, <1>10, <1>13 DEF Moved
      <3> QED
        BY <2>1, <3>1, <1>5, <1>6, <1>7, <1>9 DEF JobOK, Active
    <2>2. CASE k \in running
      <3>1. JobOK(k) /\ k.notify \in Rules /\ k.notify # c
        BY <2>2, <1>2 DEF IInv, TypeOK, Jobs
      <3>2. act'[k.notify] = act[k.notify] /\ status'[k.notify] = status[k.notify]
        BY <3>1, <1>3, <1>10, <1>13 DEF Moved
      <3> QED
        BY <3>1, <3>2, <1>1 DEF JobOK, Active
    <2> QED
      BY <2>1, <2>2, <1>10
  <1> QED
    BY <1>1, <1>10, <1>12, <1>13, <1>14, <1>15, <1>16, <1>17, StartedStep

LEMMA RunSyncStep ==
  ASSUME IInv, NEW o \in Outcomes, NEW there \in BOOLEAN, NEW fin \in BOOLEAN,
         RunSync(o, there, fin)
  PROVE  IInv'
  <1> USE Names
  <1>1. PICK c \in Rules : c = cur /\ act[c].pc = "run" /\ mode = "build"
    BY DEF RunSync, Running, IInv, TypeOK, PcsOK
  <1>2. /\ status[c] \in {"checking", "failed"} /\ AllReady(c) /\ started[c] = 0
        /\ \A j \in running : j.notify # c /\ j.rule # c
    BY <1>1, AboutToRun
  <1>3. /\ act \in [Rules \union {Main} -> Activation] /\ act[c] \in Activation
        /\ act[c].todo \in Seq(Node) /\ status \in [Rules -> Status]
        /\ started \in [Rules -> Nat] /\ exists \in [Rules -> BOOLEAN]
        /\ exitcode \in {0, 1} /\ code \in {0, 1, 2}
    BY <1>1 DEF IInv, TypeOK, Activation
  <1>4. started' = [started EXCEPT ![c] = started[c] + 1]
        /\ UNCHANGED <<cur, running, pending, child, env>>
    BY <1>1 DEF RunSync
  <1>5. started' \in [Rules -> Nat] /\ started'[c] = 1
        /\ \A x \in Rules \ {c} : started'[x] = started[x]
    BY <1>2, <1>3, <1>4
  <1>6. CASE /\ exists' = [exists EXCEPT ![c] = there]
             /\ exitcode' = IF o = "fail" THEN 1 ELSE exitcode
             /\ TmakeExit(2)
             /\ UNCHANGED <<status, act>>
    <2>1. TypeOK'
      BY <1>3, <1>4, <1>5, <1>6 DEF IInv, TypeOK, TmakeExit, env
    <2>2. PcsOK' /\ JobsAccounted' /\ PendingOK'
      BY <1>4, <1>6 DEF IInv, PcsOK, JobsAccounted, PendingOK, JobsFor, Active
    <2>3. ASSUME NEW x \in Rules PROVE FrameOK(x)' /\ StatusOK(x)' /\ LoopOK(x)'
      BY <1>1, <1>4, <1>6 DEF IInv, FrameOK, StatusOK, LoopOK, Active, AllReady, Ready
    <2>4. ASSUME NEW x \in Rules PROVE StartedOK(x)'
      BY <1>5, <1>6 DEF IInv, StartedOK, TmakeExit
    <2>5. ASSUME NEW j \in running PROVE JobOK(j)'
      BY <1>1, <1>6 DEF IInv, JobOK, Active
    <2> QED
      BY <1>4, <2>1, <2>2, <2>3, <2>4, <2>5 DEF IInv
  <1>7. CASE /\ exists' = [exists EXCEPT ![c] = there /\ Produced(c, o = "ok", there)]
             /\ exitcode' = PostExitcode(c, o = "ok", there, fin, o = "fail")
             /\ status' = [status EXCEPT ![c] = PostStatus(c, o = "ok", there, fin)]
             /\ act' = [act EXCEPT ![c].pc = "return",
                          ![c].st = IF o = "ok" THEN "built" ELSE "failed"]
             /\ ExitIf((QuickStop \/ c \in Fatal) /\ exitcode' # 0, exitcode')
    <2>1. PICK st \in {"built", "failed"}, v \in {"built", "failed"} :
            /\ status' = [status EXCEPT ![c] = st]
            /\ act' = [act EXCEPT ![c].pc = "return", ![c].st = v]
            /\ st = "built" => v = "built"
      <3>1. /\ PostStatus(c, o = "ok", there, fin) \in {"built", "failed"}
            /\ PostStatus(c, o = "ok", there, fin) = "built" => o = "ok"
        BY DEF PostStatus, Produced
      <3> QED
        BY <1>7, <3>1
    <2>2. st \in Status /\ v \in Status /\ "return" \in Pcs
      BY DEF Status, Settled, Pcs
    <2>3. Moved(c, "return", act[c].todo, v)
      BY <1>3, <2>1, <2>2, Move
    <2>4. exitcode' \in {0, 1}
      BY <1>3, <1>7 DEF PostExitcode
    <2>5. mode' \in {"build", "exiting"} /\ code' \in {0, 1, 2}
      BY <1>1, <1>3, <1>7, <2>4 DEF ExitIf, TmakeExit, Continue
    <2>6. exists' \in [Rules -> BOOLEAN]
      <3>1. (there /\ Produced(c, o = "ok", there)) \in BOOLEAN
        OBVIOUS
      <3> QED
        BY <1>3, <1>7, <3>1
    <2>7. status' \in [Rules -> Status]
      BY <1>3, <2>1, <2>2
    <2>8. TypeOK'
      BY <1>4, <1>5, <2>3, <2>4, <2>5, <2>6, <2>7 DEF IInv, TypeOK, Moved, env
    <2>9. JobsAccounted' /\ PendingOK'
      BY <1>2, <1>3, <1>4, <2>1 DEF IInv, JobsAccounted, PendingOK, JobsFor
    <2>10. ASSUME NEW j \in running' PROVE JobOK(j)'
      <3>1. JobOK(j) /\ j.notify \in Rules /\ j.notify # c
        BY <1>2, <1>4 DEF IInv, TypeOK, Jobs
      <3>2. act'[j.notify] = act[j.notify] /\ status'[j.notify] = status[j.notify]
        BY <3>1, <1>3, <2>1, <2>3 DEF Moved
      <3> QED
        BY <3>1, <3>2, <1>1 DEF JobOK, Active
    <2>11. /\ st \in {"running", "built", "failed"} /\ v \in {"running", "built", "failed"}
           /\ st = "running" <=> v = "running"
      OBVIOUS
    <2> QED
      BY <1>1, <1>4, <2>1, <2>2, <2>3, <2>8, <2>9, <2>10, <2>11, StartedStep
  <1> QED
    BY <1>1, <1>6, <1>7 DEF RunSync

LEMMA ReturnStep == ASSUME IInv, Return PROVE IInv'
  <1> USE Names
  <1>1. PICK c \in Rules : c = cur /\ act[c].pc = "return" /\ mode = "build"
    BY DEF Return, IInv, TypeOK, PcsOK
  <1>2. /\ act \in [Rules \union {Main} -> Activation] /\ act[c] \in Activation
        /\ status \in [Rules -> Status] /\ exists \in [Rules -> BOOLEAN]
        /\ exitcode \in {0, 1} /\ code \in {0, 1, 2}
    BY <1>1 DEF IInv, TypeOK
  <1>3. PICK b \in Rules \union {Main}, st \in Status : b = act[c].by /\ st = act[c].st
    BY <1>2 DEF Activation
  <1>4. /\ b # c /\ act[b].pc \in {"deps", "sync"}
        /\ act[b].todo # <<>> /\ Head(act[b].todo) = c
    BY <1>1, <1>3 DEF IInv, FrameOK, Active
  <1>5. /\ st \notin {"unknown", "checking"}
        /\ status[c] = "running" <=> st = "running"
        /\ status[c] = "built" => st = "built"
        /\ status[c] \in {"checking", "failed", "running", "built"}
    BY <1>1, <1>3 DEF IInv, StatusOK, Active
  <1>6. PICK acts : acts = [act EXCEPT ![c] = Idle]
    OBVIOUS
  <1>7. Idle \in Activation /\ Idle.pc = "goal" /\ Idle.todo = <<>>
    BY EmptySeq DEF Idle, Activation, Pcs, Status
  <1>8. /\ acts \in [Rules \union {Main} -> Activation] /\ acts[c] = Idle
        /\ \A a \in (Rules \union {Main}) \ {c} : acts[a] = act[a]
    BY <1>2, <1>6, <1>7
  <1>9. /\ status' = [status EXCEPT ![c] = st] /\ cur' = b /\ Answer(b, st, acts)
        /\ UNCHANGED <<running, pending, child, exists, env, started>>
    BY <1>1, <1>3, <1>6 DEF Return, FinalStatus
  <1>10. Answered(b, st, acts)
    <2>1. acts[b].todo # <<>> /\ mode \in {"build"}
      BY <1>1, <1>4, <1>8
    <2>2. acts[b].pc = "sync" /\ b # Main => acts[b].todo \in Seq(Rules)
      BY <1>4, <1>8 DEF IInv, PcsOK
    <2> QED
      BY <1>2, <1>8, <1>9, <2>1, <2>2, AnswerEffect
  <1>11. /\ act' \in [Rules \union {Main} -> Activation] /\ act'[c] = Idle
         /\ \A a \in (Rules \union {Main}) \ {b, c} : act'[a] = act[a]
         /\ act'[b].by = act[b].by /\ act'[b].notify = act[b].notify
         /\ act'[b].st = act[b].st
         /\ exitcode' \in {0, 1} /\ mode' \in {"build", "exiting"} /\ code' \in {0, 1, 2}
         /\ \/ /\ act[b].pc = "deps" /\ act'[b].pc = "deps"
               /\ act'[b].todo = Tail(act[b].todo)
               /\ act'[b].dyn = act[b].dyn
               /\ act'[b].wait <=> act[b].wait \/ st \in Pending
               /\ act'[b].bad <=> act[b].bad \/ st = "failed"
            \/ /\ act[b].pc = "sync" /\ b = Main
               /\ act'[b].pc \in {"goal", "wait"}
            \/ /\ act[b].pc = "sync" /\ b # Main
               /\ act'[b].pc \in {"sync", "wait"}
               /\ act'[b].todo \in Seq(Rules)
               /\ act'[b].dyn \in {act[b].dyn, Append(act[b].dyn, c)}
               /\ act'[b].dyn # act[b].dyn => st \in Settled
    <2>1. acts[b] = act[b]
      BY <1>4, <1>8
    <2> QED
      BY <1>4, <1>8, <1>10, <2>1 DEF Answered, DepLoops
  <1>12. /\ status' \in [Rules -> Status] /\ status'[c] = st
         /\ \A x \in Rules \ {c} : status'[x] = status[x]
    BY <1>2, <1>9
  <1>13. TypeOK'
    BY <1>9, <1>11, <1>12 DEF IInv, TypeOK, env
  <1>14. \A x \in Rules : status[x] \in Settled => status'[x] = status[x]
    BY <1>5, <1>12 DEF Settled
  <1>15. \A d : Ready(d) => Ready(d)'
    BY <1>14 DEF Ready
  <1>16. \A x \in Rules : AllReady(x) => AllReady(x)'
    BY <1>15 DEF AllReady
  <1>17. b \in Rules => act[b].pc \in {"deps", "sync"} /\ act'[b].pc \in {"deps", "sync", "wait"}
    BY <1>4, <1>11
  <1>18. PcsOK'
    <2>1. act'[Main].pc \in {"goal", "sync", "wait"}
      BY <1>4, <1>11 DEF IInv, PcsOK
    <2>2. cur' # Main => act'[cur'].pc # "goal"
      BY <1>9, <1>11
    <2>3. ASSUME NEW x \in Rules, act'[x].pc \in {"sync", "wait"} PROVE act'[x].todo \in Seq(Rules)
      <3>1. CASE x = b
        BY <2>3, <3>1, <1>11
      <3>2. CASE x # b
        BY <2>3, <3>2, <1>7, <1>11 DEF IInv, PcsOK
      <3> QED
        BY <3>1, <3>2
    <2> QED
      BY <2>1, <2>2, <2>3 DEF PcsOK, Active
  <1>19. ASSUME NEW x \in Rules PROVE FrameOK(x)'
    <2>1. CASE x = c
      BY <2>1, <1>7, <1>11 DEF FrameOK, Active
    <2>2. CASE x # c
      <3>1. /\ act'[x].by = act[x].by /\ act'[x].notify = act[x].notify
            /\ FrameOK(x) /\ act[x].by \in Rules \union {Main}
        BY <2>2, <1>2, <1>11 DEF IInv, Activation
      <3>2. CASE act[x].pc = "goal"
        <4>1. x # b
          BY <3>2, <1>4
        <4> QED
          BY <2>2, <3>2, <4>1, <1>11 DEF FrameOK, Active
      <3>3. CASE act[x].pc # "goal"
        <4> DEFINE y == act[x].by
        <4>1. act[y].pc \in {"deps", "sync"} /\ act[y].todo # <<>> /\ Head(act[y].todo) = x
          BY <3>1, <3>3 DEF FrameOK, Active
        <4>2. y # c /\ y # b
          BY <4>1, <2>2, <1>1, <1>4
        <4>3. act'[y] = act[y]
          BY <3>1, <4>2, <1>11
        <4>4. x # b => act'[x].pc \in {"deps", "sync"}
          BY <2>2, <3>1, <3>3, <1>1, <1>11 DEF FrameOK, Active
        <4> QED
          BY <3>1, <3>3, <4>1, <4>2, <4>3, <4>4, <1>9 DEF FrameOK, Active
      <3> QED
        BY <3>2, <3>3
    <2> QED
      BY <2>1, <2>2
  <1>20. ASSUME NEW x \in Rules PROVE StatusOK(x)' /\ StartedOK(x)'
    <2>1. CASE x = c
      <3>1. /\ StartedOK(c) /\ started'[c] = started[c]
        BY <1>9 DEF IInv
      <3>2. started[c] # 0 => started[c] = 1 /\ st \in {"running", "built", "failed"}
        BY <3>1, <1>1, <1>3 DEF StartedOK, Active
      <3> QED
        BY <2>1, <3>1, <3>2, <1>5, <1>7, <1>11, <1>12 DEF StatusOK, StartedOK, Active
    <2>2. CASE x = b
      <3>1. /\ StatusOK(b) /\ StartedOK(b) /\ status'[b] = status[b]
            /\ started'[b] = started[b] /\ act'[b].st = act[b].st
        BY <2>2, <1>4, <1>9, <1>11, <1>12 DEF IInv
      <3> QED
        BY <2>2, <3>1, <1>1, <1>17 DEF StatusOK, StartedOK, Active
    <2>3. CASE x # b /\ x # c
      BY <2>3, <1>1, <1>9, <1>11, <1>12 DEF IInv, StatusOK, StartedOK, Active
    <2> QED
      BY <2>1, <2>2, <2>3
  <1>21. JobsAccounted' /\ PendingOK'
    <2>1. \A x \in Rules : status'[x] = "running" <=> status[x] = "running"
      BY <1>5, <1>12
    <2> QED
      BY <2>1, <1>9 DEF IInv, JobsAccounted, PendingOK, JobsFor
  <1>22. ASSUME NEW x \in Rules PROVE LoopOK(x)'
    <2>1. LoopOK(x) /\ (status'[x] = "running" => status[x] = "running")
      BY <1>5, <1>12 DEF IInv
    <2>2. Elements(act[x].dyn) \subseteq Rules
      <3>1. act[x].dyn \in Seq(Rules)
        BY <1>2 DEF Activation
      <3> QED
        BY <3>1, LenProperties DEF Elements
    <2>3. CASE x = c
      BY <2>1, <2>3, <1>7, <1>11, <1>16 DEF LoopOK
    <2>4. CASE x # c /\ x # b
      BY <2>1, <2>2, <2>4, <1>11, <1>14, <1>15, <1>16 DEF LoopOK
    <2>5. CASE x = b /\ act[b].pc = "deps"
      <3>1. /\ act'[b].pc = "deps" /\ act'[b].todo = Tail(act[b].todo)
            /\ act'[b].dyn = act[b].dyn
            /\ act'[b].wait <=> act[b].wait \/ st \in Pending
            /\ act'[b].bad <=> act[b].bad \/ st = "failed"
        BY <2>5, <1>11
      <3>2. Elements(act[b].todo) = {c} \union Elements(act'[b].todo)
        <4>1. act[b].todo \in Seq(Node)
          BY <1>2 DEF Activation
        <4> QED
          BY <4>1, <3>1, <1>4, TailElements
      <3>3. Elements(act'[b].todo) \subseteq Elements(Deps[b])
        BY <2>1, <2>5, <3>2 DEF LoopOK
      <3>4. st \in Settled => Ready(c)'
        BY <1>12 DEF Ready
      <3>5. st \in Settled \/ st \in Pending \/ st = "failed"
        BY <1>5 DEF Status
      <3>6. ASSUME NEW d \in Elements(Deps[b])
            PROVE  Ready(d)' \/ act'[b].wait \/ act'[b].bad \/ d \in Elements(act'[b].todo)
        <4>1. Ready(d) \/ act[b].wait \/ act[b].bad \/ d \in Elements(act[b].todo)
          BY <2>1, <2>5 DEF LoopOK
        <4> QED
          BY <4>1, <3>1, <3>2, <3>4, <3>5, <1>15
      <3>7. \A d \in Elements(act'[b].dyn) : status'[d] \in Settled
        BY <2>1, <2>2, <2>5, <3>1, <1>14 DEF LoopOK
      <3> QED
        BY <2>1, <2>5, <3>1, <3>3, <3>6, <3>7, <1>16 DEF LoopOK
    <2>6. CASE x = b /\ act[b].pc = "sync"
      <3>1. /\ act'[b].pc \in {"sync", "wait"}
            /\ act'[b].dyn \in {act[b].dyn, Append(act[b].dyn, c)}
            /\ act'[b].dyn # act[b].dyn => st \in Settled
        BY <2>6, <1>11
      <3>2. Elements(act'[b].dyn) \subseteq Elements(act[b].dyn) \union {c}
        <4>1. act[b].dyn \in Seq(Rules)
          BY <1>2 DEF Activation
        <4> QED
          BY <4>1, <3>1, AppendElements
      <3>3. ASSUME NEW d \in Elements(act'[b].dyn) PROVE status'[d] \in Settled
        <4>1. d \in Elements(act[b].dyn) => status'[d] \in Settled
          BY <2>1, <2>2, <2>6, <1>14 DEF LoopOK
        <4>2. act'[b].dyn # act[b].dyn => status'[c] \in Settled
          BY <3>1, <1>12
        <4> QED
          BY <3>2, <4>1, <4>2
      <3> QED
        BY <2>1, <2>6, <3>1, <3>3, <1>16 DEF LoopOK
    <2> QED
      BY <2>3, <2>4, <2>5, <2>6, <1>4
  <1>23. ASSUME NEW j \in running PROVE JobOK(j)'
    <2> DEFINE n == j.notify
    <2>1. JobOK(j) /\ n \in Rules /\ j.rule \in Rules /\ status[j.rule] = "running"
      BY DEF IInv, TypeOK, Jobs, JobsAccounted
    <2>2. CASE n = c
      <3>1. st = "waiting"
        BY <2>1, <2>2, <1>1, <1>3 DEF JobOK
      <3> QED
        BY <2>1, <2>2, <3>1, <1>7, <1>11, <1>12 DEF JobOK, Active
    <2>3. CASE n = b
      <3>1. act[b].pc = "deps"
        BY <2>1, <2>3, <1>4 DEF JobOK, Active
      <3>2. /\ act'[b].pc = "deps" /\ act'[b].todo = Tail(act[b].todo)
            /\ act'[b].wait <=> act[b].wait \/ st \in Pending
        BY <3>1, <1>11
      <3>3. Elements(act[b].todo) = {c} \union Elements(act'[b].todo)
        <4>1. act[b].todo \in Seq(Node)
          BY <1>2 DEF Activation
        <4> QED
          BY <4>1, <3>2, <1>4, TailElements
      <3>4. j.rule = c => st \in Pending
        BY <2>1, <1>5 DEF Pending
      <3>5. act'[b].wait \/ j.rule \in Elements(act'[b].todo)
        BY <2>1, <2>3, <3>1, <3>2, <3>3, <3>4 DEF JobOK
      <3> QED
        BY <2>1, <2>3, <3>2, <3>5, <1>4, <1>12 DEF JobOK, Active
    <2>4. CASE n # b /\ n # c
      BY <2>1, <2>4, <1>1, <1>11, <1>12 DEF JobOK, Active
    <2> QED
      BY <2>2, <2>3, <2>4
  <1> QED
    BY <1>9, <1>13, <1>18, <1>19, <1>20, <1>21, <1>22, <1>23 DEF IInv

-----------------------------------------------------------------------------
(* Theorems *)

LEMMA NextInvariant == ASSUME IInv, Next PROVE IInv'
  <1>1. CASE Children
    BY <1>1, ChildExitStep DEF Children
  <1>2. CASE Signal \/ Exited \/ Exit
    BY <1>2, OutsideStep
  <1>3. CASE NextGoal
    BY <1>3, NextGoalStep
  <1>4. CASE BuildKnown
    BY <1>4, BuildKnownStep
  <1>5. CASE BuildRecursive \/ HashError
    BY <1>5, FatalStep
  <1>6. CASE BuildEnter
    BY <1>6, BuildEnterStep
  <1>7. CASE DepsDone
    BY <1>7, DepsDoneStep
  <1>8. CASE ScanDone
    BY <1>8, ScanDoneStep
  <1>9. CASE \E v \in Settled : Decide(v)
    BY <1>9, DecideStep
  <1>10. CASE SlotWait \/ ExitReap
    BY <1>10, SlotWaitStep
  <1>11. CASE Fork
    BY <1>11, ForkStep
  <1>12. CASE \E o \in Outcomes, there, fin \in BOOLEAN : RunSync(o, there, fin)
    BY <1>12, RunSyncStep
  <1>13. CASE Return
    BY <1>13, ReturnStep
  <1>14. CASE SyncWait
    BY <1>14, SyncWaitStep
  <1> QED
    BY <1>1, <1>2, <1>3, <1>4, <1>5, <1>6, <1>7, <1>8, <1>9, <1>10, <1>11, <1>12,
       <1>13, <1>14 DEF Next, Tmake

LEMMA StutterInvariant == ASSUME IInv, UNCHANGED vars PROVE IInv'
  BY OutsideStep, UnmovedStep DEF vars, env, IInv, TypeOK

\* IInv holds in every state of every run of tmake, for any rules and any jobs.
THEOREM Invariance == Spec => []IInv
  <1>1. IInv /\ [Next]_vars => IInv'
    BY NextInvariant, StutterInvariant
  <1> QED
    BY InitInvariant, <1>1, PTL DEF Spec

\* Every variable keeps its type.
THEOREM TypeCorrect == Spec => []TypeOK
  <1>1. IInv => TypeOK
    BY DEF IInv
  <1> QED
    BY Invariance, <1>1, PTL

\* A rule is "running" exactly while it has a job, and it has one job: the
\* reaping of jobs from inside any activation never loses one or overwrites the
\* status of a rule that runs.
THEOREM JobsAreAccounted == Spec => []JobsAccounted
  <1>1. IInv => JobsAccounted
    BY DEF IInv
  <1> QED
    BY Invariance, <1>1, PTL

\* wait-for-one-job finds the notifytarget waiting, being checked or failed.
THEOREM NotifyTargetsWait == Spec => []NotifyWaits
  <1>1. IInv => NotifyWaits
    BY DEF IInv, NotifyWaits, JobOK
  <1> QED
    BY Invariance, <1>1, PTL

\* Commands run only while all dependencies of the rule are built or up to date.
THEOREM RunsReady == Spec => []ReadyToRun
  <1>1. ASSUME IInv, NEW r \in Rules, Executing(r), NEW i \in DOMAIN Deps[r]
        PROVE  Ready(Deps[r][i])
    <2>1. AllReady(r)
      BY <1>1 DEF Executing, IInv, LoopOK
    <2>2. Deps[r][i] \in Elements(Deps[r])
      BY <1>1 DEF Elements
    <2> QED
      BY <2>1, <2>2 DEF AllReady
  <1>2. IInv => ReadyToRun
    BY <1>1 DEF ReadyToRun
  <1> QED
    BY Invariance, <1>2, PTL

\* The commands of a rule are started at most once.
THEOREM StartsOnce == Spec => []AtMostOnce
  <1>1. ASSUME IInv, NEW r \in Rules PROVE started[r] <= 1
    <2>1. started[r] \in Nat /\ StartedOK(r)
      BY <1>1 DEF IInv, TypeOK
    <2> QED
      BY <2>1 DEF StartedOK
  <1>2. IInv => AtMostOnce
    BY <1>1 DEF AtMostOnce
  <1> QED
    BY Invariance, <1>2, PTL

\* No step revokes "built" or "uptodate".
LEMMA SettledStep ==
  ASSUME IInv, [Next]_vars, NEW r \in Rules, status[r] \in Settled
  PROVE  status'[r] = status[r]
  <1>1. CASE UNCHANGED status
    BY <1>1
  <1>2. CASE BuildEnter
    <2>1. PICK h \in Rules : /\ status[h] \in {"unknown", "waiting"}
                             /\ status' = [status EXCEPT ![h] = "checking"]
      BY <1>2 DEF BuildEnter, Enterable
    <2> QED
      BY <2>1 DEF IInv, TypeOK, Settled
  <1>3. CASE \E j \in running : Reap(j)
    <2>1. PICK j \in running : Reap(j)
      BY <1>3
    <2>2. Reaped(j) /\ status[j.rule] = "running" /\ status[j.notify] \in {"waiting", "checking", "failed"}
      BY <2>1, ReapEffect DEF IInv, JobsAccounted, JobOK, Reaped
    <2> QED
      BY <2>2 DEF Reaped, Settled
  <1>4. CASE Fork \/ \E o \in Outcomes, there, fin \in BOOLEAN : RunSync(o, there, fin)
    <2>1. PICK c \in Rules : c = cur /\ act[c].pc = "run" /\ mode = "build"
      BY <1>4 DEF Fork, RunSync, Running, IInv, TypeOK, PcsOK
    <2>2. status[c] \in {"checking", "failed"}
      BY <2>1, AboutToRun
    <2>3. \A x \in Rules \ {c} : status'[x] = status[x]
      BY <1>4, <2>1 DEF Fork, RunSync, IInv, TypeOK
    <2> QED
      BY <2>2, <2>3 DEF Settled
  <1>5. CASE Return
    <2>1. PICK c \in Rules : c = cur /\ act[c].pc = "return" /\ mode = "build"
      BY <1>5 DEF Return, IInv, TypeOK, PcsOK
    <2>2. status' = [status EXCEPT ![c] = act[c].st] /\ status \in [Rules -> Status]
      BY <1>5, <2>1 DEF Return, FinalStatus, IInv, TypeOK
    <2>3. status[c] \in Settled => act[c].st = status[c]
      BY <2>1 DEF IInv, StatusOK, Active, Settled
    <2> QED
      BY <2>2, <2>3
  <1>6. CASE SyncWait \/ SlotWait \/ ExitReap
    BY <1>1, <1>3, <1>6 DEF SyncWait, SlotWait, ExitReap
  <1>7. CASE \/ NextGoal \/ BuildKnown \/ BuildRecursive \/ DepsDone \/ ScanDone \/ HashError
             \/ Exit \/ Signal \/ Exited \/ Children
             \/ \E v \in Settled : Decide(v)
    BY <1>7 DEF NextGoal, BuildKnown, BuildRecursive, DepsDone, ScanDone, HashError, Exit,
                Signal, Exited, Children, ChildExit, Decide, vars
  <1>8. CASE UNCHANGED vars
    BY <1>8 DEF vars
  <1> QED
    BY <1>2, <1>4, <1>5, <1>6, <1>7, <1>8 DEF Next, Tmake

\* "built" and "uptodate" are final, whoever writes the statuses.
THEOREM SettledIsFinal == Spec => SettledForGood
  <1>1. IInv /\ [Next]_vars
          => [\A r \in Rules : status[r] \in Settled => status'[r] = status[r]]_vars
    BY SettledStep
  <1> QED
    BY Invariance, <1>1, PTL DEF Spec, SettledForGood

\* There are never more than maxjobs children.
THEOREM SlotsBound == Spec => []SlotBound
  <1>1. Init => SlotBound
    BY FS_EmptySet, EngineAssumption DEF Init, SlotBound, EngineAssumption
  <1>2. ASSUME IInv, SlotBound, [Next]_vars PROVE SlotBound'
    <2>1. IsFiniteSet(running) /\ Cardinality(running) \in Nat /\ MaxJobs \in Nat
      BY <1>2, FS_CardinalityType, EngineAssumption DEF IInv, PendingOK, EngineAssumption
    <2>2. CASE UNCHANGED running
      BY <1>2, <2>2 DEF SlotBound
    <2>3. CASE \E j \in running : Reap(j)
      <3>1. PICK j \in running : running' = running \ {j}
        BY <2>3 DEF Reap
      <3>2. Cardinality(running') = Cardinality(running) - 1
        BY <2>1, <3>1, FS_RemoveElement
      <3> QED
        BY <1>2, <2>1, <3>2 DEF SlotBound
    <2>4. CASE Fork
      <3>1. PICK j : running' = running \union {j}
        BY <2>4 DEF Fork
      <3>2. Cardinality(running) < MaxJobs
        BY <2>4 DEF Fork, SlotFree
      <3>3. Cardinality(running') \in {Cardinality(running), Cardinality(running) + 1}
        BY <2>1, <3>1, FS_AddElement
      <3> QED
        BY <2>1, <3>2, <3>3 DEF SlotBound
    <2>5. CASE SyncWait \/ SlotWait \/ ExitReap
      BY <2>2, <2>3, <2>5 DEF SyncWait, SlotWait, ExitReap
    <2>6. CASE \/ NextGoal \/ BuildKnown \/ BuildRecursive \/ BuildEnter \/ DepsDone
               \/ ScanDone \/ HashError \/ Return \/ Exit \/ Signal \/ Exited \/ Children
               \/ \E v \in Settled : Decide(v)
               \/ \E o \in Outcomes, there, fin \in BOOLEAN : RunSync(o, there, fin)
               \/ UNCHANGED vars
      <3>1. UNCHANGED running
        BY <2>6 DEF NextGoal, BuildKnown, BuildRecursive, BuildEnter, DepsDone, ScanDone,
                    HashError, Return, Exit, Signal, Exited, Children, ChildExit, Decide,
                    RunSync, vars
      <3> QED
        BY <2>2, <3>1
    <2> QED
      BY <1>2, <2>4, <2>5, <2>6 DEF Next, Tmake
  <1> QED
    BY Invariance, <1>1, <1>2, PTL DEF Spec

-----------------------------------------------------------------------------
(* An exit code of 0 can be trusted: the goals are ready and nothing has     *)
(* failed.                                                                   *)

-----------------------------------------------------------------------------
(* What is below the goals *)

LEMMA BelowKept == ASSUME targets' = targets PROVE Below' = Below
  BY DEF Below, Needed

\* Goals are below the goals, and what they need.
LEMMA BelowHas ==
  /\ Elements(targets) \intersect Rules \subseteq Below
  /\ \A r \in Below, d \in Rules :
       d \in Elements(Deps[r]) \union Elements(Scan[r]) => d \in Below
  <1>1. Elements(targets) \intersect Rules \subseteq Below
    BY DEF Below, Needed
  <1>2. ASSUME NEW r \in Below, NEW d \in Rules, d \in Elements(Deps[r]) \union Elements(Scan[r])
        PROVE  d \in Below
    <2>1. ASSUME NEW S \in SUBSET Rules, Needed(S) PROVE d \in S
      <3>1. r \in S
        BY <2>1 DEF Below
      <3> QED
        BY <1>2, <2>1, <3>1 DEF Needed
    <2> QED
      BY <2>1 DEF Below
  <1> QED
    BY <1>1, <1>2

LEMMA BelowIn == ASSUME NEW S \in SUBSET Rules, Needed(S) PROVE Below \subseteq S
  BY DEF Below

\* A scan only finds rules.
LEMMA ScanFinds == ASSUME NEW r \in Rules PROVE Elements(Scan[r]) \subseteq Rules
  <1>1. Scan[r] \in Seq(Rules)
    BY EngineAssumption DEF EngineAssumption
  <1> QED
    BY <1>1, LenProperties DEF Elements

-----------------------------------------------------------------------------
(* What every step keeps *)

LEMMA TargetsKept == ASSUME [Next]_vars PROVE targets' = targets
  BY DEF Next, Tmake, NextGoal, BuildKnown, BuildRecursive, BuildEnter, DepsDone, ScanDone,
         HashError, Decide, SlotWait, Fork, RunSync, Return, SyncWait, ExitReap, Exit,
         Children, ChildExit, Signal, Exited, env, vars

\* What has been reported stays reported.
LEMMA ReportStays == ASSUME IInv, [Next]_vars, Clean' PROVE Clean
  <1>1. exitcode \in {0, 1} /\ mode \in {"build", "exiting", "exited"}
    BY DEF IInv, TypeOK
  <1>2. CASE BuildKnown \/ Return
    <2>1. PICK ret, acts : Answer(cur, ret, acts) \/ Answer(act[cur].by, ret, acts)
      BY <1>2 DEF BuildKnown, Return
    <2>2. exitcode' \in {1, exitcode}
      BY <2>1 DEF Answer, AnswerDeps, AnswerMain, AnswerScan
    <2>3. mode = "build"
      BY <1>2 DEF BuildKnown, Calling, Return
    <2> QED
      BY <1>1, <2>2, <2>3 DEF Clean
  <1>3. CASE \E j \in running : Reap(j)
    <2>1. exitcode' \in {1, exitcode} /\ mode' \in {mode, "exiting"}
      BY <1>3 DEF Reap, PostExitcode, ExitIf, TmakeExit, Continue
    <2> QED
      BY <1>1, <2>1 DEF Clean
  <1>4. CASE \E o \in Outcomes, there, fin \in BOOLEAN : RunSync(o, there, fin)
    <2>1. exitcode' \in {1, exitcode} /\ mode = "build"
      BY <1>4 DEF RunSync, PostExitcode, Running
    <2> QED
      BY <1>1, <2>1 DEF Clean
  <1>5. CASE SyncWait \/ SlotWait \/ ExitReap
    BY <1>3, <1>5 DEF SyncWait, SlotWait, ExitReap, Clean, Continue
  <1>6. CASE \/ NextGoal \/ BuildRecursive \/ BuildEnter \/ DepsDone \/ ScanDone \/ HashError
             \/ Fork \/ Exit \/ Signal \/ Exited \/ Children \/ \E v \in Settled : Decide(v)
    <2>1. exitcode' \in {1, exitcode} /\ (mode' = "build" => mode = "build")
      BY <1>6 DEF NextGoal, BuildRecursive, BuildEnter, DepsDone, ScanDone, HashError, Fork, Exit,
                  Signal, Exited, Children, ChildExit, Decide, Calling, Running, vars
    <2> QED
      BY <1>1, <2>1 DEF Clean
  <1>7. CASE UNCHANGED vars
    BY <1>7 DEF vars, Clean
  <1> QED
    BY <1>2, <1>4, <1>5, <1>6, <1>7 DEF Next, Tmake

\* What is ready stays ready.
LEMMA ReadyStays ==
  ASSUME IInv, [Next]_vars
  PROVE  /\ \A r \in Rules : status[r] \in Settled => status'[r] \in Settled
         /\ \A d : Ready(d) => Ready(d)'
         /\ \A r \in Rules : AllReady(r) => AllReady(r)'
  <1>1. \A r \in Rules : status[r] \in Settled => status'[r] \in Settled
    BY SettledStep
  <1>2. \A d : Ready(d) => Ready(d)'
    BY <1>1 DEF Ready
  <1> QED
    BY <1>1, <1>2 DEF AllReady

\* Steps in which r gets through nothing.
LEMMA ThroughStep ==
  ASSUME IInv, [Next]_vars, NEW r \in Rules, ThroughOK(r),
         Clean' /\ Through(r)' => Through(r),
         act'[r].pc \in {"sync", "wait"} =>
             act[r].pc \in {"sync", "wait"} /\ act'[r].todo = act[r].todo
  PROVE  ThroughOK(r)'
  <1>1. Clean' => Clean
    BY ReportStays
  <1>2. \A d \in Elements(Scan[r]) : status[d] \in Settled => status'[d] \in Settled
    BY ScanFinds, ReadyStays
  <1>3. AllReady(r) => AllReady(r)'
    BY ReadyStays
  <1> QED
    BY <1>1, <1>2, <1>3 DEF ThroughOK

\* What a loop of build-sync does with an answer: it drops the rule only when
\* that is settled, or the failure has been reported.
LEMMA LoopAnswered ==
  ASSUME NEW c \in Rules \union {Main}, NEW ret \in Status \ {"unknown", "checking"},
         NEW acts \in [Rules \union {Main} -> Activation],
         acts[c].pc = "sync", acts[c].todo # <<>>, Answer(c, ret, acts)
  PROVE  /\ Elements(act'[c].todo) \subseteq Elements(acts[c].todo)
         /\ Clean' => \/ act'[c].todo = acts[c].todo
                      \/ act'[c].todo = Tail(acts[c].todo) /\ ret \in Settled
  <1>1. acts[c] \in Activation /\ acts[c].todo \in Seq(Node)
    BY DEF Activation
  <1>2. /\ Elements(Tail(acts[c].todo)) \subseteq Elements(acts[c].todo)
        /\ Elements(<<>>) = {}
    BY <1>1, TailElements DEF Elements
  <1>3. ret \notin Pending \union {"failed"} => ret \in Settled
    BY DEF Status
  <1>4. CASE c = Main
    <2>1. AnswerMain(ret, acts)
      BY <1>4 DEF Answer, DepLoops
    <2>2. act'[c].todo = IF ret \in Pending THEN acts[c].todo
                         ELSE IF ret = "failed" THEN <<>> ELSE Tail(acts[c].todo)
      BY <1>1, <1>4, <2>1 DEF AnswerMain, Activation
    <2>3. ret = "failed" => ~Clean'
      BY <2>1 DEF AnswerMain, Clean
    <2> QED
      BY <1>2, <1>3, <2>2, <2>3
  <1>5. CASE c # Main
    <2>1. AnswerScan(c, ret, acts)
      BY <1>5 DEF Answer, DepLoops
    <2>2. act'[c].todo = IF ret \in Pending THEN acts[c].todo ELSE Tail(acts[c].todo)
      BY <1>1, <2>1 DEF AnswerScan, Activation
    <2>3. ret = "failed" => ~Clean'
      BY <2>1 DEF AnswerScan, Clean, ExitIf, TmakeExit
    <2> QED
      BY <1>2, <1>3, <2>2, <2>3
  <1> QED
    BY <1>4, <1>5

-----------------------------------------------------------------------------
(* Rules below the goals *)

LEMMA TouchedStep == ASSUME IInv, XInv, [Next]_vars, NEW r \in Rules PROVE TouchedOK(r)'
  <1>1. Below' = Below /\ TouchedOK(r)
    BY TargetsKept, BelowKept DEF XInv
  <1>2. CASE UNCHANGED status
    BY <1>1, <1>2 DEF TouchedOK
  <1>3. CASE BuildEnter
    <2>1. PICK c \in Rules \union {Main}, h \in Rules : c = cur /\ h = Head(act[c].todo)
      BY <1>3 DEF BuildEnter, Callee, IInv, TypeOK
    <2>2. /\ act[c] \in Activation /\ act[c].todo \in Seq(Node) /\ act[c].todo # <<>>
          /\ act[c].pc \in DepLoops \union {"sync"} /\ mode = "build"
          /\ status[h] \in {"unknown", "waiting"}
          /\ status' = [status EXCEPT ![h] = "checking"] /\ status \in [Rules -> Status]
      BY <1>3, <2>1 DEF BuildEnter, Calling, Callee, Enterable, IInv, TypeOK, Activation
    <2>3. h \in Elements(act[c].todo)
      BY <2>1, <2>2, TailElements
    <2>4. CASE c = Main
      <3>1. h \in Elements(targets)
        BY <2>3, <2>4 DEF XInv, GoalsOK
      <3> QED
        BY <1>1, <2>2, <3>1, BelowHas DEF TouchedOK
    <2>5. CASE c \in Rules
      <3>1. LoopOK(c) /\ StatusOK(c) /\ ThroughOK(c) /\ TouchedOK(c)
        BY <2>5 DEF IInv, XInv
      <3>2. c \in Below
        BY <2>2, <3>1 DEF StatusOK, TouchedOK, Active, DepLoops
      <3>3. act[c].pc # "dyn"
        BY <2>2, <2>3, <3>1 DEF LoopOK, Settled
      <3>4. h \in Elements(Deps[c]) \union Elements(Scan[c])
        BY <2>2, <2>3, <3>1, <3>3 DEF LoopOK, ThroughOK, DepLoops
      <3> QED
        BY <1>1, <2>2, <3>2, <3>4, BelowHas DEF TouchedOK
    <2> QED
      BY <2>1, <2>4, <2>5
  <1>4. CASE \E j \in running : Reap(j)
    <2>1. PICK j \in running : Reap(j)
      BY <1>4
    <2>2. /\ Reaped(j) /\ status[j.rule] = "running"
          /\ status[j.notify] \in {"waiting", "checking", "failed"}
      BY <2>1, ReapEffect DEF IInv, JobsAccounted, JobOK, Reaped
    <2> QED
      BY <1>1, <2>2 DEF Reaped, TouchedOK
  <1>5. CASE Fork \/ \E o \in Outcomes, there, fin \in BOOLEAN : RunSync(o, there, fin)
    <2>1. PICK c \in Rules : c = cur /\ act[c].pc = "run" /\ mode = "build"
      BY <1>5 DEF Fork, RunSync, Running, IInv, TypeOK, PcsOK
    <2>2. status[c] \in {"checking", "failed"}
      BY <2>1, AboutToRun
    <2>3. \A x \in Rules \ {c} : status'[x] = status[x]
      BY <1>5, <2>1 DEF Fork, RunSync, IInv, TypeOK
    <2> QED
      BY <1>1, <2>2, <2>3 DEF TouchedOK
  <1>6. CASE Return
    <2>1. PICK c \in Rules : c = cur /\ act[c].pc = "return" /\ mode = "build"
      BY <1>6 DEF Return, IInv, TypeOK, PcsOK
    <2>2. status' = [status EXCEPT ![c] = act[c].st] /\ status \in [Rules -> Status]
      BY <1>6, <2>1 DEF Return, FinalStatus, IInv, TypeOK
    <2>3. status[c] # "unknown"
      BY <2>1 DEF IInv, StatusOK, Active
    <2> QED
      BY <1>1, <2>2, <2>3 DEF TouchedOK
  <1>7. CASE SyncWait \/ SlotWait \/ ExitReap
    BY <1>2, <1>4, <1>7 DEF SyncWait, SlotWait, ExitReap
  <1>8. CASE \/ NextGoal \/ BuildKnown \/ BuildRecursive \/ DepsDone \/ ScanDone \/ HashError
             \/ Exit \/ Signal \/ Exited \/ Children
             \/ \E v \in Settled : Decide(v)
    BY <1>2, <1>8 DEF NextGoal, BuildKnown, BuildRecursive, DepsDone, ScanDone, HashError, Exit,
                Signal, Exited, Children, ChildExit, Decide, vars
  <1>9. CASE UNCHANGED vars
    BY <1>2, <1>9 DEF vars
  <1> QED
    BY <1>3, <1>5, <1>6, <1>7, <1>8, <1>9 DEF Next, Tmake

-----------------------------------------------------------------------------
(* What the loops are through with *)

\* An activation of a rule gets an answer.
LEMMA AnsweredThrough ==
  ASSUME IInv, XInv, [Next]_vars, NEW c \in Rules, NEW ret \in Status \ {"unknown", "checking"},
         NEW acts \in [Rules \union {Main} -> Activation], acts[c] = act[c],
         act[c].pc \in DepLoops \union {"sync"}, act[c].todo # <<>>,
         Answer(c, ret, acts), Answered(c, ret, acts), status'[c] = status[c],
         Head(act[c].todo) \in Rules /\ ret \in Settled => status'[Head(act[c].todo)] \in Settled
  PROVE  ThroughOK(c)'
  <1>1. ThroughOK(c) /\ act[c] \in Activation
    BY DEF XInv, IInv, TypeOK
  <1>2. CASE act[c].pc \in DepLoops
    <2>1. act'[c].pc = act[c].pc
      BY <1>2 DEF Answered, DepLoops
    <2> QED
      BY <1>1, <1>2, <2>1, ThroughStep DEF Through, DepLoops
  <1>3. CASE act[c].pc = "sync"
    <2>1. act'[c].pc \in {"sync", "wait"}
      BY <1>3, Names DEF Answered, DepLoops
    <2>2. /\ Elements(act'[c].todo) \subseteq Elements(act[c].todo)
          /\ Clean' => \/ act'[c].todo = act[c].todo
                       \/ act'[c].todo = Tail(act[c].todo) /\ ret \in Settled
      BY <1>3, LoopAnswered
    <2>3. Elements(act'[c].todo) \subseteq Elements(Scan[c])
      BY <1>1, <1>3, <2>2 DEF ThroughOK
    <2>4. ASSUME Clean', NEW d \in Elements(Scan[c]), status'[d] \notin Settled
          PROVE  d \in Elements(act'[c].todo)
      <3>1. d \in Rules /\ status[d] \notin Settled
        BY <2>4, ScanFinds, ReadyStays
      <3>2. d \in Elements(act[c].todo)
        BY <1>1, <1>3, <2>4, <3>1, ReportStays DEF ThroughOK
      <3>3. act[c].todo \in Seq(Node)
        BY <1>1 DEF Activation
      <3>4. Elements(act[c].todo) = {Head(act[c].todo)} \union Elements(Tail(act[c].todo))
        BY <3>3, TailElements
      <3> QED
        BY <2>2, <2>4, <3>1, <3>2, <3>4
    <2>5. ASSUME Clean', Through(c)'
          PROVE  AllReady(c)' /\ \A d \in Elements(Scan[c]) : status'[d] \in Settled
      <3>1. Clean /\ Through(c)
        BY <2>1, <2>5, ReportStays DEF Through
      <3> QED
        BY <1>1, <3>1, ScanFinds, ReadyStays DEF ThroughOK
    <2> QED
      BY <2>1, <2>3, <2>4, <2>5 DEF ThroughOK
  <1> QED
    BY <1>2, <1>3

LEMMA AnswersThrough ==
  ASSUME IInv, XInv, BuildKnown \/ Return, NEW r \in Rules
  PROVE  ThroughOK(r)'
  <1> USE Names
  <1>0. [Next]_vars /\ ThroughOK(r)
    BY DEF Next, Tmake, XInv
  <1>1. PICK c \in Rules \union {Main} : c = cur
    BY DEF IInv, TypeOK
  <1>2. /\ act \in [Rules \union {Main} -> Activation] /\ status \in [Rules -> Status]
        /\ exists \in [Rules -> BOOLEAN] /\ exitcode \in {0, 1} /\ code \in {0, 1, 2}
    BY DEF IInv, TypeOK
  <1>3. CASE BuildKnown
    <2>1. /\ mode = "build" /\ act[c].pc \in DepLoops \union {"sync"} /\ act[c].todo # <<>>
          /\ status' = status /\ act[c].todo \in Seq(Node)
      BY <1>1, <1>2, <1>3 DEF BuildKnown, Calling, Activation
    <2>2. PICK d \in Node : d = Head(act[c].todo)
      BY <2>1, TailElements
    <2>3. PICK ret \in Replies(d) : Answer(c, ret, act)
      BY <1>1, <1>3, <2>2 DEF BuildKnown, Callee
    <2>4. ret \in Status /\ ret \notin {"unknown", "checking"} /\ (d \in Rules => ret = status[d])
      <3>1. d \in Rules => ret = status[d]
        BY <2>3, EngineAssumption DEF Replies, EngineAssumption
      <3> QED
        BY <2>2, <2>3, <3>1 DEF Replies, Status, Settled, Pending, Node
    <2>5. Answered(c, ret, act)
      <3>1. act[c].pc = "sync" /\ c # Main => act[c].todo \in Seq(Rules)
        BY DEF IInv, PcsOK
      <3>2. mode \in {"build"}
        BY <2>1
      <3> QED
        BY <1>2, <2>1, <2>3, <2>4, <3>1, <3>2, AnswerEffect
    <2>6. CASE r = c
      BY <1>0, <1>2, <2>1, <2>2, <2>3, <2>4, <2>5, <2>6, AnsweredThrough
    <2>7. CASE r # c
      BY <1>0, <2>1, <2>5, <2>7, ThroughStep DEF Answered, Through
    <2> QED
      BY <2>6, <2>7
  <1>4. CASE Return
    <2>1. c \in Rules /\ act[c].pc = "return" /\ mode = "build"
      BY <1>1, <1>4 DEF Return, IInv, PcsOK
    <2>2. PICK b \in Rules \union {Main}, st \in Status : b = act[c].by /\ st = act[c].st
      BY <1>2 DEF Activation
    <2>3. /\ b # c /\ act[b].pc \in {"deps", "sync"}
          /\ act[b].todo # <<>> /\ Head(act[b].todo) = c
      BY <1>1, <2>1, <2>2 DEF IInv, FrameOK, Active
    <2>4. st \notin {"unknown", "checking"}
      BY <2>1, <2>2 DEF IInv, StatusOK
    <2>5. PICK acts : acts = [act EXCEPT ![c] = Idle]
      OBVIOUS
    <2>6. /\ acts \in [Rules \union {Main} -> Activation] /\ acts[c] = Idle /\ acts[b] = act[b]
          /\ \A a \in (Rules \union {Main}) \ {c} : acts[a] = act[a]
      <3>1. Idle \in Activation
        BY EmptySeq DEF Idle, Activation, Pcs, Status
      <3> QED
        BY <1>2, <2>3, <2>5, <3>1
    <2>7. /\ status'[c] = st /\ \A x \in Rules \ {c} : status'[x] = status[x]
          /\ Answer(b, st, acts)
      BY <1>1, <1>2, <1>4, <2>1, <2>2, <2>5 DEF Return, FinalStatus
    <2>8. Answered(b, st, acts)
      <3>1. acts[b].pc = "sync" /\ b # Main => acts[b].todo \in Seq(Rules)
        BY <2>6 DEF IInv, PcsOK
      <3>2. mode \in {"build"}
        BY <2>1
      <3> QED
        BY <1>2, <2>3, <2>6, <2>7, <3>1, <3>2, AnswerEffect
    <2>9. CASE r = b
      <3>1. act[r].pc \in DepLoops \union {"sync"}
        BY <2>3, <2>9 DEF DepLoops
      <3>2. status'[r] = status[r]
        BY <2>3, <2>7, <2>9
      <3> QED
        BY <1>0, <2>3, <2>4, <2>6, <2>7, <2>8, <2>9, <3>1, <3>2, AnsweredThrough
    <2>10. CASE r = c
      <3>1. act'[r] = Idle /\ Idle.pc = "goal"
        BY <2>3, <2>6, <2>8, <2>10 DEF Answered, Idle
      <3>2. Through(r)' => Through(r)
        BY <2>1, <2>2, <2>7, <2>10, <3>1 DEF Through
      <3> QED
        BY <1>0, <3>1, <3>2, ThroughStep
    <2>11. CASE r \notin {b, c}
      <3>1. act'[r] = act[r] /\ status'[r] = status[r]
        BY <2>6, <2>7, <2>8, <2>11 DEF Answered
      <3> QED
        BY <1>0, <3>1, ThroughStep DEF Through
    <2> QED
      BY <2>9, <2>10, <2>11
  <1> QED
    BY <1>3, <1>4

\* Steps of a rule from one loop to the next, and out of them.
LEMMA LoopsThrough ==
  ASSUME IInv, XInv, DepsDone \/ ScanDone \/ \E v \in Settled : Decide(v), NEW r \in Rules
  PROVE  ThroughOK(r)'
  <1> USE Names
  <1>0. [Next]_vars /\ ThroughOK(r)
    BY DEF Next, Tmake, XInv
  <1>1. PICK c \in Rules : c = cur /\ mode = "build" /\ status' = status
    BY DEF IInv, TypeOK, PcsOK, DepsDone, ScanDone, Decide, DepLoops
  <1>2. /\ act \in [Rules \union {Main} -> Activation] /\ act[c] \in Activation
        /\ \A a \in Rules \ {c} : act'[a] = act[a]
    BY <1>1 DEF IInv, TypeOK, DepsDone, ScanDone, Decide
  <1>3. CASE r # c
    BY <1>0, <1>1, <1>2, <1>3, ThroughStep DEF Through
  <1>4. StatusOK(c) /\ LoopOK(c) /\ ThroughOK(c)
    BY DEF IInv, XInv
  <1>5. CASE DepsDone
    <2> DEFINE st == DepsStatus(act[c])
    <2>1. act[c].pc \in DepLoops /\ act[c].st \in Settled
      BY <1>1, <1>4, <1>5 DEF DepsDone, StatusOK, DepLoops
    <2>2. st \in {"waiting", "failed", act[c].st}
      BY DEF DepsStatus
    <2>3. CASE st \notin Settled /\ act' = [act EXCEPT ![c].pc = "return", ![c].st = st]
      <3>1. act'[c].pc = "return" /\ act'[c].st \in {"waiting", "failed"}
        BY <1>2, <2>1, <2>2, <2>3 DEF Activation
      <3>2. Through(c)' => Through(c)
        BY <1>1, <3>1 DEF Through, Settled
      <3> QED
        BY <1>0, <1>3, <1>4, <3>1, <3>2, ThroughStep
    <2>4. CASE act[c].pc = "deps" /\ act' = [act EXCEPT ![c].pc = "sync", ![c].todo = Scan[c]]
      <3>1. act'[c].pc = "sync" /\ act'[c].todo = Scan[c]
        BY <1>2, <2>4 DEF Activation
      <3>2. Clean' /\ Through(c)' => Clean /\ Through(c)
        BY <1>0, <1>1, <3>1, ReportStays DEF Through
      <3> QED
        BY <1>0, <1>3, <1>4, <3>1, <3>2, ScanFinds, ReadyStays DEF ThroughOK
    <2>5. CASE act[c].pc = "dyn" /\ act' = [act EXCEPT ![c].pc = "decide"]
      <3>1. act'[c].pc = "decide"
        BY <1>2, <2>5 DEF Activation
      <3> QED
        BY <1>0, <1>3, <1>4, <2>5, <3>1, ThroughStep DEF Through
    <2> QED
      BY <1>1, <1>5, <2>3, <2>4, <2>5 DEF DepsDone
  <1>6. CASE ScanDone
    <2>1. act[c].pc = "sync" /\ act[c].todo = <<>> /\ act'[c].pc = "dyn"
      BY <1>1, <1>2, <1>6 DEF ScanDone, Activation
    <2>2. AllReady(c) /\ Elements(act[c].todo) = {}
      BY <1>4, <2>1 DEF LoopOK, Elements
    <2>3. Clean' => \A d \in Elements(Scan[c]) : status'[d] \in Settled
      BY <1>0, <1>1, <1>4, <2>1, <2>2, ReportStays DEF ThroughOK
    <2> QED
      BY <1>0, <1>3, <2>1, <2>2, <2>3, ReadyStays DEF ThroughOK
  <1>7. CASE \E v \in Settled : Decide(v)
    <2>1. act[c].pc = "decide" /\ act'[c].pc \in {"decide", "run", "return"}
      BY <1>1, <1>2, <1>7 DEF Decide, Activation
    <2> QED
      BY <1>0, <1>3, <1>4, <2>1, ThroughStep DEF Through
  <1> QED
    BY <1>5, <1>6, <1>7

\* A job is reaped; who waits for one may go on.
LEMMA ReapThrough ==
  ASSUME IInv, XInv, [Next]_vars, NEW j \in running, Reap(j), NEW r \in Rules,
         \/ act'[r] = act[r]
         \/ act[r].pc = "wait" /\ act'[r].pc = "sync" /\ act'[r].todo = act[r].todo
  PROVE  ThroughOK(r)'
  <1>1. Reaped(j) /\ status[j.rule] = "running"
    BY ReapEffect DEF IInv, JobsAccounted, Reaped
  <1>2. Through(r)' => Through(r)
    <2>1. status'[r] \in Settled \union {"running"} => status[r] \in Settled \union {"running"}
      BY <1>1 DEF Reaped, Settled
    <2> QED
      BY <2>1 DEF Through
  <1> QED
    BY <1>2, ThroughStep DEF XInv

\* Commands are started.
LEMMA CommandsThrough ==
  ASSUME IInv, XInv, Fork \/ \E o \in Outcomes, there, fin \in BOOLEAN : RunSync(o, there, fin),
         NEW r \in Rules
  PROVE  ThroughOK(r)'
  <1>0. [Next]_vars /\ ThroughOK(r)
    BY DEF Next, Tmake, XInv
  <1>1. PICK c \in Rules : c = cur /\ act[c].pc = "run"
    BY DEF Fork, RunSync, Running, IInv, TypeOK, PcsOK
  <1>2. /\ act'[c].pc \in {"run", "return"}
        /\ \A x \in Rules \ {c} : act'[x] = act[x] /\ status'[x] = status[x]
    BY <1>1 DEF Fork, RunSync, IInv, TypeOK, Activation
  <1> QED
    BY <1>0, <1>1, <1>2, ThroughStep DEF Through

LEMMA ThroughKept == ASSUME IInv, XInv, [Next]_vars, NEW r \in Rules PROVE ThroughOK(r)'
  <1>1. CASE BuildKnown \/ Return
    BY <1>1, AnswersThrough
  <1>2. CASE DepsDone \/ ScanDone \/ \E v \in Settled : Decide(v)
    BY <1>2, LoopsThrough
  <1>3. CASE Fork \/ \E o \in Outcomes, there, fin \in BOOLEAN : RunSync(o, there, fin)
    BY <1>3, CommandsThrough
  <1>4. CASE SlotWait \/ SyncWait \/ ExitReap
    <2>1. \/ act'[r] = act[r]
          \/ act[r].pc = "wait" /\ act'[r].pc = "sync" /\ act'[r].todo = act[r].todo
      BY <1>4 DEF SlotWait, SyncWait, ExitReap, IInv, TypeOK, Activation
    <2>2. CASE \E j \in running : Reap(j)
      BY <2>1, <2>2, ReapThrough
    <2>3. CASE UNCHANGED status
      BY <2>1, <2>3, ThroughStep DEF XInv, Through
    <2> QED
      BY <1>4, <2>2, <2>3 DEF SlotWait, SyncWait, ExitReap
  <1>5. CASE BuildEnter
    <2>1. PICK h \in Rules : /\ act'[h].pc = "deps" /\ status'[h] = "checking"
                             /\ \A x \in Rules \ {h} : act'[x] = act[x] /\ status'[x] = status[x]
      BY <1>5 DEF BuildEnter, IInv, TypeOK
    <2> QED
      BY <2>1, ThroughStep DEF XInv, Through, Settled
  <1>6. CASE \/ NextGoal \/ BuildRecursive \/ HashError \/ Exit \/ Signal \/ Exited \/ Children
             \/ UNCHANGED vars
    <2>1. act'[r] = act[r] /\ status' = status
      BY <1>6, Names DEF NextGoal, BuildRecursive, HashError, Exit, Signal, Exited, Children,
                         ChildExit, vars, IInv, TypeOK
    <2> QED
      BY <2>1, ThroughStep DEF XInv, Through
  <1> QED
    BY <1>1, <1>2, <1>3, <1>4, <1>5, <1>6 DEF Next, Tmake

-----------------------------------------------------------------------------
(* Goals *)

\* Steps that do not answer make.
LEMMA GoalsStay ==
  ASSUME IInv, XInv, [Next]_vars, act'[Main].todo = act[Main].todo
  PROVE  GoalsOK'
  <1>1. targets' = targets /\ (Clean' => Clean)
    BY TargetsKept, ReportStays
  <1>2. \A t : Ready(t) => Ready(t)'
    BY ReadyStays
  <1> QED
    BY <1>1, <1>2 DEF XInv, GoalsOK

\* make gets an answer for a goal.
LEMMA GoalAnswered ==
  ASSUME IInv, XInv, [Next]_vars, NEW ret \in Status \ {"unknown", "checking"},
         NEW acts \in [Rules \union {Main} -> Activation], acts[Main] = act[Main],
         act[Main].pc = "sync", act[Main].todo # <<>>, Answer(Main, ret, acts),
         NEW h, h = Head(act[Main].todo), ret \in Settled => Ready(h)'
  PROVE  GoalsOK'
  <1>1. targets' = targets /\ (Clean' => Clean) /\ GoalsOK
    BY TargetsKept, ReportStays DEF XInv
  <1>2. /\ Elements(act'[Main].todo) \subseteq Elements(act[Main].todo)
        /\ Clean' => \/ act'[Main].todo = act[Main].todo
                     \/ act'[Main].todo = Tail(act[Main].todo) /\ ret \in Settled
    BY LoopAnswered
  <1>3. Elements(act[Main].todo) = {h} \union Elements(Tail(act[Main].todo))
    <2>1. act[Main].todo \in Seq(Node)
      BY DEF IInv, TypeOK, Activation
    <2> QED
      BY <2>1, TailElements
  <1>4. \A t : Ready(t) => Ready(t)'
    BY ReadyStays
  <1> QED
    BY <1>1, <1>2, <1>3, <1>4 DEF GoalsOK

LEMMA GoalsKept == ASSUME IInv, XInv, [Next]_vars PROVE GoalsOK'
  <1> USE Names
  <1>1. PICK c \in Rules \union {Main} : c = cur
    BY DEF IInv, TypeOK
  <1>2. /\ act \in [Rules \union {Main} -> Activation] /\ status \in [Rules -> Status]
        /\ exists \in [Rules -> BOOLEAN] /\ exitcode \in {0, 1} /\ code \in {0, 1, 2}
    BY DEF IInv, TypeOK
  <1>3. CASE BuildKnown
    <2>1. /\ mode = "build" /\ act[c].pc \in DepLoops \union {"sync"} /\ act[c].todo # <<>>
          /\ status' = status /\ act[c].todo \in Seq(Node)
      BY <1>1, <1>2, <1>3 DEF BuildKnown, Calling, Activation
    <2>2. PICK d \in Node : d = Head(act[c].todo)
      BY <2>1, TailElements
    <2>3. PICK ret \in Replies(d) : Answer(c, ret, act)
      BY <1>1, <1>3, <2>2 DEF BuildKnown, Callee
    <2>4. /\ ret \in Status /\ ret \notin {"unknown", "checking"}
          /\ ret \in Settled => Ready(d)
      <3>1. d \in Rules => d \notin Files
        BY EngineAssumption DEF EngineAssumption
      <3>2. d \in Rules => ret = status[d]
        BY <2>3, <3>1 DEF Replies
      <3>3. d \notin Rules /\ ret \in Settled => d \in Present
        BY <2>2, <2>3 DEF Replies, Settled, Node
      <3>4. ret \in Status /\ ret \notin {"unknown", "checking"}
        BY <2>2, <2>3 DEF Replies, Status, Settled, Pending, Node
      <3> QED
        BY <3>2, <3>3, <3>4 DEF Ready
    <2>5. CASE c = Main
      <3>1. act[Main].pc = "sync"
        BY <2>1, <2>5 DEF IInv, PcsOK, DepLoops
      <3>2. ret \in Settled => Ready(d)'
        BY <2>4, ReadyStays
      <3> QED
        BY <1>2, <2>1, <2>2, <2>3, <2>4, <2>5, <3>1, <3>2, GoalAnswered
    <2>6. CASE c \in Rules
      <3>1. Answered(c, ret, act)
        <4>1. act[c].pc = "sync" /\ c # Main => act[c].todo \in Seq(Rules)
          BY DEF IInv, PcsOK
        <4>2. mode \in {"build"}
          BY <2>1
        <4> QED
          BY <1>2, <2>1, <2>3, <2>4, <4>1, <4>2, AnswerEffect
      <3> QED
        BY <2>6, <3>1, GoalsStay DEF Answered
    <2> QED
      BY <2>5, <2>6
  <1>4. CASE Return
    <2>1. c \in Rules /\ act[c].pc = "return" /\ mode = "build"
      BY <1>1, <1>4 DEF Return, IInv, PcsOK
    <2>2. PICK b \in Rules \union {Main}, st \in Status : b = act[c].by /\ st = act[c].st
      BY <1>2, <2>1 DEF Activation
    <2>3. /\ b # c /\ act[b].pc \in {"deps", "sync"}
          /\ act[b].todo # <<>> /\ Head(act[b].todo) = c
      BY <1>1, <2>1, <2>2 DEF IInv, FrameOK, Active
    <2>4. st \notin {"unknown", "checking"}
      BY <2>1, <2>2 DEF IInv, StatusOK
    <2>5. PICK acts : acts = [act EXCEPT ![c] = Idle]
      OBVIOUS
    <2>6. /\ acts \in [Rules \union {Main} -> Activation]
          /\ \A a \in (Rules \union {Main}) \ {c} : acts[a] = act[a]
      <3>1. Idle \in Activation
        BY EmptySeq DEF Idle, Activation, Pcs, Status
      <3> QED
        BY <1>2, <2>5, <3>1
    <2>7. status'[c] = st /\ Answer(b, st, acts)
      BY <1>1, <1>2, <1>4, <2>1, <2>2, <2>5 DEF Return, FinalStatus
    <2>8. CASE b = Main
      <3>1. act[Main].pc = "sync"
        BY <2>3, <2>8 DEF IInv, PcsOK
      <3>2. st \in Settled => Ready(c)'
        BY <2>1, <2>7 DEF Ready
      <3> QED
        BY <2>1, <2>3, <2>4, <2>6, <2>7, <2>8, <3>1, <3>2, GoalAnswered
    <2>9. CASE b \in Rules
      <3>1. Answered(b, st, acts)
        <4>1. acts[b].pc = "sync" /\ b # Main => acts[b].todo \in Seq(Rules)
          BY <2>3, <2>6 DEF IInv, PcsOK
        <4>2. mode \in {"build"} /\ acts[b].todo # <<>>
          BY <2>1, <2>3, <2>6
        <4> QED
          BY <1>2, <2>6, <2>7, <4>1, <4>2, AnswerEffect
      <3>2. act'[Main] = act[Main]
        BY <2>1, <2>6, <2>9, <3>1 DEF Answered
      <3> QED
        BY <3>2, GoalsStay
    <2> QED
      BY <2>8, <2>9
  <1>5. CASE \/ NextGoal \/ SyncWait
    <2>1. act'[Main].todo = act[Main].todo
      BY <1>2, <1>5 DEF NextGoal, SyncWait, Activation
    <2> QED
      BY <2>1, GoalsStay
  <1>6. CASE DepsDone \/ ScanDone \/ Fork \/ (\E v \in Settled : Decide(v))
             \/ \E o \in Outcomes, there, fin \in BOOLEAN : RunSync(o, there, fin)
    <2>1. c \in Rules
      BY <1>1, <1>6 DEF DepsDone, ScanDone, Fork, Decide, RunSync, Running, DepLoops, IInv, PcsOK
    <2>2. act'[Main] = act[Main]
      BY <1>1, <1>2, <1>6, <2>1 DEF DepsDone, ScanDone, Fork, Decide, RunSync
    <2> QED
      BY <2>2, GoalsStay
  <1>7. CASE \/ BuildEnter \/ BuildRecursive \/ HashError \/ SlotWait \/ ExitReap
             \/ Exit \/ Signal \/ Exited \/ Children \/ UNCHANGED vars
    <2>1. act'[Main] = act[Main]
      BY <1>2, <1>7 DEF BuildEnter, BuildRecursive, HashError, SlotWait, ExitReap, Exit, Signal,
                        Exited, Children, ChildExit, vars
    <2> QED
      BY <2>1, GoalsStay
  <1> QED
    BY <1>3, <1>4, <1>5, <1>6, <1>7 DEF Next, Tmake

-----------------------------------------------------------------------------
(* Leaving *)

\* Without -j nothing is ever forked.
LEMMA ForksKept == ASSUME IInv, XInv, [Next]_vars PROVE ForksOK'
  <1>1. CASE Fork
    BY <1>1, EngineAssumption DEF Fork, Backgrounds, ForksOK, EngineAssumption
  <1>2. CASE \E j \in running : Reap(j)
    BY <1>2 DEF XInv, ForksOK, Reap
  <1>3. CASE UNCHANGED running
    BY <1>3 DEF XInv, ForksOK
  <1>4. CASE SlotWait \/ SyncWait \/ ExitReap
    BY <1>2, <1>3, <1>4 DEF SlotWait, SyncWait, ExitReap
  <1>5. CASE \/ NextGoal \/ BuildKnown \/ BuildRecursive \/ BuildEnter \/ DepsDone \/ ScanDone
             \/ HashError \/ Return \/ Exit \/ Signal \/ Exited \/ Children
             \/ (\E v \in Settled : Decide(v))
             \/ (\E o \in Outcomes, there, fin \in BOOLEAN : RunSync(o, there, fin))
             \/ UNCHANGED vars
    BY <1>3, <1>5 DEF NextGoal, BuildKnown, BuildRecursive, BuildEnter, DepsDone, ScanDone, HashError,
                      Return, Exit, Signal, Exited, Children, ChildExit, Decide, RunSync, vars
  <1> QED
    BY <1>1, <1>4, <1>5 DEF Next, Tmake

\* With -q a job that has failed ends tmake, and by then it is reported.
LEMMA ReapCode ==
  ASSUME FailuresReported, IInv, XInv, NEW j \in running, Reap(j)
  PROVE  UNCHANGED <<mode, code>> \/ code' # 0
  <1>1. PICK fin \in BOOLEAN :
          /\ child[j.rule] \in Outcomes
          /\ exitcode' = PostExitcode(j.rule, child[j.rule] = "ok", exists[j.rule], fin,
                                      child[j.rule] = "fail")
          /\ ExitIf(child[j.rule] # "ok" /\ QuickStop, exitcode')
    BY DEF Reap
  <1>2. CASE child[j.rule] # "ok" /\ QuickStop
    <2>1. MaxJobs > 1
      BY EngineAssumption DEF XInv, ForksOK, EngineAssumption
    <2>2. child[j.rule] = "fail"
      BY <1>1, <1>2, <2>1, EngineAssumption DEF FailuresReported, EngineAssumption, AllOutcomes
    <2> QED
      BY <1>1, <1>2, <2>2 DEF PostExitcode, ExitIf, TmakeExit
  <1>3. CASE ~(child[j.rule] # "ok" /\ QuickStop)
    BY <1>1, <1>3 DEF ExitIf, Continue
  <1> QED
    BY <1>2, <1>3

\* When make is through with its goals and nothing has been reported, then
\* nothing has failed and nothing runs.
LEMMA AllDone ==
  ASSUME IInv, XInv, Clean, cur = Main, act[Main].todo = <<>>
  PROVE  /\ running = {}
         /\ \A t \in Elements(targets) : Ready(t)
         /\ \A r \in Below : status[r] \in Settled
         /\ \A r \in Rules : status[r] # "failed"
  <1> DEFINE S == {r \in Rules : status[r] \in Settled}
  <1>1. \A t \in Elements(targets) : Ready(t)
    BY DEF XInv, GoalsOK, Elements
  <1>2. ASSUME NEW r \in S
        PROVE  (Elements(Deps[r]) \union Elements(Scan[r])) \intersect Rules \subseteq S
    <2>1. AllReady(r) /\ \A d \in Elements(Scan[r]) : status[d] \in Settled
      BY DEF XInv, ThroughOK, Through
    <2> QED
      BY <2>1 DEF AllReady, Ready
  <1>3. Needed(S)
    BY <1>1, <1>2 DEF Needed, Ready
  <1>4. Below \subseteq S
    BY <1>3, BelowIn
  <1>5. \A r \in Rules : status[r] \in Settled \union {"unknown"}
    BY <1>4 DEF XInv, TouchedOK
  <1>6. \A j \in running : j.rule \in Rules /\ status[j.rule] = "running"
    BY DEF IInv, TypeOK, Jobs, JobsAccounted
  <1> QED
    BY <1>1, <1>4, <1>5, <1>6 DEF Settled

\* tmake only begins to leave with 0 at the end of the loop over the goals.
LEMMA LeavingStarts ==
  ASSUME FailuresReported, IInv, XInv, Next, mode = "build", mode' # "build", code' = 0
  PROVE  NextGoal /\ exitcode = 0 /\ act[Main].todo = <<>>
  <1>1. CASE NextGoal
    BY <1>1 DEF NextGoal, TmakeExit, Continue
  <1>2. CASE BuildKnown \/ Return
    <2>1. PICK c, ret, acts : Answer(c, ret, acts)
      BY <1>2 DEF BuildKnown, Return
    <2> QED
      BY <2>1 DEF Answer, AnswerDeps, AnswerMain, AnswerScan, ExitIf, TmakeExit, Continue
  <1>3. CASE SlotWait \/ SyncWait
    BY <1>3, ReapCode DEF SlotWait, SyncWait, Continue
  <1>4. CASE \E o \in Outcomes, there, fin \in BOOLEAN : RunSync(o, there, fin)
    BY <1>4 DEF RunSync, ExitIf, TmakeExit, Continue
  <1>5. CASE DepsDone \/ Fork
    <2>1. PICK cond \in BOOLEAN : ExitIf(cond, exitcode) /\ (cond => exitcode # 0)
      <3>1. CASE DepsDone
        <4>1. ExitIf(QuickStopped, exitcode) \/ Continue
          BY <3>1 DEF DepsDone
        <4> QED
          BY <4>1 DEF QuickStopped, ExitIf, Continue
      <3>2. CASE Fork
        BY <3>2 DEF Fork
      <3> QED
        BY <1>5, <3>1, <3>2
    <2> QED
      BY <2>1 DEF ExitIf, TmakeExit, Continue
  <1>6. CASE BuildRecursive \/ HashError \/ \E v \in Settled : Decide(v)
    <2>1. TmakeExit(1) \/ Continue
      BY <1>6 DEF BuildRecursive, HashError, Decide
    <2> QED
      BY <2>1 DEF TmakeExit, Continue
  <1>7. CASE BuildEnter \/ ScanDone \/ ExitReap \/ Exit \/ Children \/ Signal \/ Exited
    BY <1>7 DEF BuildEnter, ScanDone, ExitReap, Exit, Children, ChildExit, Signal, Exited
  <1> QED
    BY <1>1, <1>2, <1>3, <1>4, <1>5, <1>6, <1>7 DEF Next, Tmake

\* Then everything that the goals need is settled.
LEMMA LeavingFirst ==
  ASSUME FailuresReported, IInv, XInv, Next, mode = "build", mode' # "build", code' = 0
  PROVE  LeavingOK'
  <1>1. /\ exitcode = 0 /\ act[Main].todo = <<>> /\ cur = Main
        /\ UNCHANGED <<status, running, targets>>
    BY LeavingStarts DEF NextGoal, env
  <1> QED
    BY <1>1, AllDone, BelowKept DEF Clean, LeavingOK, Ready

\* tmake is leaving.
LEMMA LeavingKept ==
  ASSUME FailuresReported, IInv, XInv, Next, mode # "build", code' = 0
  PROVE  LeavingOK'
  <1>1. CASE ExitReap
    <2>1. PICK j \in running : Reap(j)
      BY <1>1 DEF ExitReap
    <2>2. code = 0
      BY <2>1, ReapCode
    <2> QED
      BY <2>2 DEF XInv, LeavingOK
  <1>2. CASE Exit \/ Children \/ Exited
    <2>1. UNCHANGED <<status, running, targets, code>>
      BY <1>2 DEF Exit, Children, ChildExit, Exited, vars, env
    <2> QED
      BY <2>1, BelowKept DEF XInv, LeavingOK, Ready
  <1> QED
    BY <1>1, <1>2 DEF Next, Tmake, NextGoal, BuildKnown, BuildRecursive, BuildEnter, DepsDone,
                      ScanDone, HashError, Decide, SlotWait, Fork, RunSync, Return, SyncWait,
                      Signal, Calling, Running

-----------------------------------------------------------------------------
(* Theorems *)

LEMMA InitExit == Init => XInv
  <1> SUFFICES ASSUME Init PROVE XInv
    OBVIOUS
  <1>1. /\ act[Main].todo = targets /\ mode = "build"
        /\ \A r \in Rules : act[r] = Idle /\ status[r] = "unknown"
    BY Names DEF Init, Idle
  <1>2. Idle.pc = "goal"
    BY DEF Idle
  <1>3. \A r \in Rules : ThroughOK(r) /\ TouchedOK(r)
    BY <1>1, <1>2 DEF ThroughOK, TouchedOK, Through, Settled
  <1>4. ForksOK
    BY DEF Init, ForksOK
  <1> QED
    BY <1>1, <1>3, <1>4 DEF XInv, GoalsOK, LeavingOK

LEMMA ExitStep == ASSUME IInv, XInv, [Next]_vars PROVE XInv'
  <1>1. LeavingOK'
    <2>1. CASE FailuresReported /\ Next /\ mode' # "build" /\ code' = 0
      BY <2>1, LeavingFirst, LeavingKept
    <2>2. CASE UNCHANGED vars
      BY <2>2, BelowKept DEF XInv, LeavingOK, Ready, vars, env
    <2> QED
      BY <2>1, <2>2 DEF LeavingOK
  <1>2. \A r \in Rules : ThroughOK(r)' /\ TouchedOK(r)'
    BY ThroughKept, TouchedStep
  <1> QED
    BY <1>1, <1>2, ForksKept, GoalsKept DEF XInv

\* Only rules below the goals are touched, and as long as nothing has been
\* reported those that are settled have settled needs.
THEOREM ExitInvariance == Spec => [](IInv /\ XInv)
  <1>1. Init => IInv /\ XInv
    BY InitInvariant, InitExit
  <1>2. IInv /\ XInv /\ [Next]_vars => IInv' /\ XInv'
    BY NextInvariant, StutterInvariant, ExitStep
  <1> QED
    BY <1>1, <1>2, PTL DEF Spec

\* An exit code of 0 means that all goals are built or up to date and that no
\* rule has failed, with cycles, signals, early exits and jobs.
THEOREM ExitIsHonest == ASSUME FailuresReported PROVE Spec => []HonestExit
  <1>1. XInv => HonestExit
    BY DEF XInv, LeavingOK, HonestExit, Elements
  <1> QED
    BY ExitInvariance, <1>1, PTL
=============================================================================
