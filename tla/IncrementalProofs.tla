-------------------------- MODULE IncrementalProofs --------------------------
(***************************************************************************)
(* Skipping a target is sound: theorems about the cache over several runs  *)
(* of tmake, for any rules without -dyndep, files, edits and crashes.      *)
(***************************************************************************)
EXTENDS IncrementalInvariant, BuildEngineProofs

(* Time *)

\* Files and rules only get newer.
Later == /\ \A n \in Node : ver[n] <= ver'[n]
         /\ \A r \in Rules : text[r] <= text'[r]

LEMMA HashType == ASSUME ITypeOK, NEW r \in Rules PROVE Hash(r) \in SUBSET Stamps
  <1>1. RuleDeps(r) \subseteq Node
    <2>1. Deps[r] \in Seq(Node)
      BY EngineAssumption DEF EngineAssumption
    <2> QED
      BY <2>1, LenProperties DEF RuleDeps
  <1>2. \A d \in RuleDeps(r) : ver[d] \in Nat
    BY <1>1 DEF ITypeOK
  <1> QED
    BY <1>1, <1>2 DEF Hash, Stamps

LEMMA DepsAreNodes == ASSUME NEW r \in Rules PROVE RuleDeps(r) \subseteq Node /\ RuleDeps(r) = Elements(Deps[r])
  <1>1. Deps[r] \in Seq(Node)
    BY EngineAssumption DEF EngineAssumption
  <1> QED
    BY <1>1, LenProperties DEF RuleDeps, Elements

\* A hash of now that was remembered before has not changed since.
LEMMA HashStable ==
  ASSUME ITypeOK, ITypeOK', Later, NEW r \in Rules, NEW hash, Past(hash), hash = Hash(r)'
  PROVE  Hash(r) = Hash(r)'
  <1>1. ASSUME NEW d \in RuleDeps(r) PROVE ver'[d] = ver[d]
    <2>1. d \in Node
      BY DepsAreNodes
    <2>2. <<d, ver'[d]>> \in hash
      BY DEF Hash
    <2>3. ver'[d] <= ver[d]
      BY <2>1, <2>2 DEF Past
    <2>4. ver[d] <= ver'[d] /\ ver[d] \in Nat /\ ver'[d] \in Nat
      BY <2>1 DEF Later, ITypeOK
    <2> QED
      BY <2>3, <2>4
  <1> QED
    BY <1>1 DEF Hash

\* What matches now and was remembered before has matched before.
LEMMA MatchStable ==
  ASSUME ITypeOK, ITypeOK', Later, NEW r \in Rules, NEW hash, NEW c \in Nat,
         Past(hash), c <= text[r], Matches(r, hash, c)'
  PROVE  Matches(r, hash, c) /\ Inputs(r)' = Inputs(r)
  <1>1. text'[r] = text[r]
    BY DEF Matches, Later, ITypeOK
  <1>2. Hash(r)' = Hash(r)
    <2>1. CASE RuleDeps(r) = {}
      BY <2>1 DEF Hash
    <2>2. CASE RuleDeps(r) # {}
      BY <2>2, HashStable DEF Matches
    <2> QED
      BY <2>1, <2>2
  <1> QED
    BY <1>1, <1>2 DEF Matches, Inputs

LEMMA PastStable ==
  ASSUME ITypeOK, ITypeOK', Later, NEW hash \in SUBSET Stamps, Past(hash)
  PROVE  Past(hash)'
  <1>1. ASSUME NEW s \in hash, s[1] \in Node PROVE s[2] <= ver'[s[1]]
    <2>1. s[2] \in Nat /\ ver[s[1]] \in Nat /\ ver'[s[1]] \in Nat
      BY <1>1 DEF Stamps, ITypeOK
    <2>2. s[2] <= ver[s[1]] /\ ver[s[1]] <= ver'[s[1]]
      BY <1>1 DEF Past, Later
    <2> QED
      BY <2>1, <2>2
  <1> QED
    BY <1>1 DEF Past

\* A hash that has just been taken, and the others that are stored.
LEMMA PastHash ==
  ASSUME ITypeOK
  PROVE  /\ \A r \in Rules : Past(Hash(r))
         /\ Past(NoHash) /\ Past(FailedHash)
         /\ NoHash \in SUBSET Stamps /\ FailedHash \in SUBSET Stamps
  <1>1. ASSUME NEW r \in Rules PROVE Past(Hash(r))
    <2>1. RuleDeps(r) \subseteq Node
      BY DepsAreNodes
    <2>2. \A d \in RuleDeps(r) : ver[d] \in Nat
      BY <2>1 DEF ITypeOK
    <2> QED
      BY <2>2 DEF Past, Hash
  <1>2. Past(NoHash) /\ Past(FailedHash)
    BY EngineAssumption DEF EngineAssumption, Past, NoHash, FailedHash
  <1> QED
    BY <1>1, <1>2 DEF NoHash, FailedHash, Stamps

\* The hash of a failure differs from that of any dependencies.
LEMMA FailedDiffers ==
  ASSUME NEW r \in Rules, RuleDeps(r) # {}
  PROVE  FailedHash # Hash(r) /\ NoHash # Hash(r) /\ FailedHash # Hash(r)' /\ NoHash # Hash(r)'
  <1>1. PICK d \in RuleDeps(r) : d # None
    BY DepsAreNodes, EngineAssumption DEF EngineAssumption
  <1>2. <<d, ver[d]>> \in Hash(r) /\ <<d, ver'[d]>> \in Hash(r)'
    BY <1>1 DEF Hash
  <1> QED
    BY <1>1, <1>2 DEF FailedHash, NoHash

-----------------------------------------------------------------------------
(* Steps that do not touch r *)

\* Nothing that concerns the commands and the target of r changes.
Same(r) ==
    /\ exists'[r] = exists[r] /\ dephash'[r] = dephash[r] /\ cmd'[r] = cmd[r]
    /\ made'[r] = made[r] /\ reads'[r] = reads[r]
    /\ child'[r] = child[r] /\ started'[r] = started[r]
    /\ act'[r].pc = "run" <=> act[r].pc = "run"

\* What the cache says of r, and what is right about it.
CacheOK(r) == /\ Alive => KnownOK(r) /\ ChildOK(r)
              /\ SavedOK(r) /\ KillOK(r)

LEMMA SameCache ==
  ASSUME ITypeOK, ITypeOK', Later, disk' = disk, fault' = fault, Alive' <=> Alive,
         NEW r \in Rules, Same(r), PastOK(r), CacheOK(r), Alive => text'[r] = text[r]
  PROVE  PastOK(r)' /\ CacheOK(r)'
  <1>0. /\ dephash[r] \in SUBSET Stamps /\ disk.dephash[r] \in SUBSET Stamps
        /\ cmd[r] \in Nat /\ disk.cmd[r] \in Nat /\ text[r] \in Nat /\ text'[r] \in Nat
        /\ text[r] <= text'[r]
    BY DEF ITypeOK, Later
  <1>1. PastOK(r)'
    BY <1>0, PastStable DEF PastOK, Same
  <1>2. Known(r)' => Known(r) /\ Inputs(r)' = Inputs(r)
    <2>1. PICK hash, c : hash = dephash[r] /\ c = cmd[r]
      OBVIOUS
    <2>2. Known(r)' => Matches(r, hash, c)'
      BY <2>1 DEF Known, Matches, Same
    <2> QED
      BY <1>0, <2>1, <2>2, MatchStable DEF Known, PastOK
  <1>3. Saved(r)' => Saved(r) /\ Inputs(r)' = Inputs(r)
    <2>1. PICK hash, c : hash = disk.dephash[r] /\ c = disk.cmd[r]
      OBVIOUS
    <2>2. Saved(r)' => Matches(r, hash, c)'
      BY <2>1 DEF Saved, Matches
    <2> QED
      BY <1>0, <2>1, <2>2, MatchStable DEF Saved, PastOK
  <1>4. Flying(r)' <=> Flying(r)
    BY DEF Same, Flying
  <1>5. KnownOK(r) => KnownOK(r)'
    BY <1>2, <1>4 DEF KnownOK, Same
  <1>6. Alive /\ ChildOK(r) => ChildOK(r)'
    <2>1. RuleDeps(r) # {} /\ dephash[r] = Hash(r)' => Hash(r)' = Hash(r)
      BY HashStable DEF PastOK
    <2>2. RuleDeps(r) = {} => Hash(r)' = Hash(r)
      BY DEF Hash
    <2> QED
      BY <2>1, <2>2 DEF ChildOK, Same
  <1>7. SavedOK(r)'
    BY <1>3 DEF CacheOK, SavedOK, Alive, Same
  <1>8. KillOK(r)'
    BY <1>2, <1>3, <1>4 DEF CacheOK, KillOK, Same
  <1> QED
    BY <1>1, <1>5, <1>6, <1>7, <1>8 DEF CacheOK

-----------------------------------------------------------------------------
(* The engine *)

\* What r does, or is answered, does not change but for the entry of build.
Steady(r) ==
    /\ act'[r].pc = "run" <=> act[r].pc = "run"
    /\ Entered(r)' => (Entered(r) /\ act'[r].st = act[r].st) \/ act'[r].st = FirstStatus(r)
    /\ Answers(r)' => Answers(r)

EngineOther ==
    \/ NextGoal \/ BuildKnown \/ BuildRecursive \/ BuildEnter
    \/ DepsDone \/ ScanDone \/ HashError \/ Return \/ Signal

LEMMA SteadyOther == ASSUME IInv, EngineOther, NEW r \in Rules PROVE Steady(r)
  <1> USE Names
  <1>1. PICK c \in Rules \union {Main} : c = cur
    BY DEF IInv, TypeOK
  <1>2. /\ act \in [Rules \union {Main} -> Activation] /\ status \in [Rules -> Status]
        /\ exists \in [Rules -> BOOLEAN] /\ exitcode \in {0, 1} /\ code \in {0, 1, 2}
    BY DEF IInv, TypeOK
  <1>3. CASE act'[r] = act[r] /\ status'[r] = status[r]
    BY <1>3 DEF Steady, Entered, Answers
  <1>4. CASE NextGoal \/ BuildRecursive \/ HashError \/ Signal
    <2>1. act'[r] = act[r] /\ status' = status
      BY <1>2, <1>4 DEF NextGoal, BuildRecursive, HashError, Signal
    <2> QED
      BY <1>3, <2>1
  <1>5. CASE BuildKnown
    <2>1. /\ mode = "build" /\ act[c].pc \in DepLoops \union {"sync"} /\ act[c].todo # <<>>
          /\ status' = status /\ act[c].todo \in Seq(Node)
      BY <1>1, <1>2, <1>5 DEF BuildKnown, Calling, Activation
    <2>2. PICK d \in Node : d = Head(act[c].todo)
      BY <2>1, TailElements
    <2>3. PICK ret \in Replies(d) : Answer(c, ret, act)
      BY <1>1, <1>5, <2>2 DEF BuildKnown, Callee
    <2>4. ret \in Status
      BY <2>2, <2>3, RepliesMean
    <2>5. Answered(c, ret, act)
      <3>1. act[c].pc = "sync" /\ c # Main => act[c].todo \in Seq(Rules)
        BY DEF IInv, PcsOK
      <3>2. mode \in {"build"}
        BY <2>1
      <3> QED
        BY <1>2, <2>1, <2>3, <2>4, <3>1, <3>2, AnswerEffect
    <2>6. CASE r = c
      <3>1. act'[r].pc \in DepLoops \union {"sync", "wait"} /\ act'[r].st = act[r].st
        BY <2>1, <2>5, <2>6 DEF Answered
      <3> QED
        BY <2>1, <2>6, <3>1 DEF Steady, Entered, Answers, DepLoops
    <2>7. CASE r # c
      BY <1>3, <2>1, <2>5, <2>7 DEF Answered
    <2> QED
      BY <2>6, <2>7
  <1>6. CASE BuildEnter
    <2>1. PICK h \in Rules :
            /\ h = Callee /\ status[h] \in {"unknown", "waiting"}
            /\ act'[h].pc = "deps" /\ act'[h].st = FirstStatus(h) /\ status'[h] = "checking"
            /\ \A x \in Rules \ {h} : act'[x] = act[x] /\ status'[x] = status[x]
      BY <1>2, <1>6 DEF BuildEnter, Enterable
    <2>2. act[h].pc = "goal"
      BY <2>1 DEF IInv, StatusOK, Active
    <2> QED
      BY <1>3, <2>1, <2>2 DEF Steady, Entered, Answers, Settled
  <1>7. CASE DepsDone \/ ScanDone
    <2>1. c \in Rules /\ act[c].pc \in DepLoops \union {"sync"}
      BY <1>1, <1>7 DEF DepsDone, ScanDone, DepLoops, IInv, PcsOK
    <2>2. /\ status' = status
          /\ \A x \in Rules \ {c} : act'[x] = act[x]
      BY <1>1, <1>2, <1>7, <2>1 DEF DepsDone, ScanDone
    <2>3. \/ act'[c].pc \in DepLoops \union {"sync", "decide"} /\ act'[c].st = act[c].st
          \/ act'[c].pc = "return" /\ act'[c].st \notin Settled
      BY <1>1, <1>2, <1>7, <2>1 DEF DepsDone, ScanDone, Activation, DepLoops
    <2> QED
      BY <1>3, <2>1, <2>2, <2>3 DEF Steady, Entered, Answers, DepLoops
  <1>8. CASE Return
    <2>1. c \in Rules /\ act[c].pc = "return" /\ mode = "build"
      BY <1>1, <1>8 DEF Return, IInv, PcsOK
    <2>2. PICK b \in Rules \union {Main}, st \in Status : b = act[c].by /\ st = act[c].st
      BY <1>2, <2>1 DEF Activation
    <2>3. /\ b # c /\ act[b].pc \in {"deps", "sync"} /\ act[b].todo # <<>>
      BY <1>1, <2>1, <2>2 DEF IInv, FrameOK, Active
    <2>4. PICK acts : acts = [act EXCEPT ![c] = Idle]
      OBVIOUS
    <2>5. /\ acts \in [Rules \union {Main} -> Activation] /\ acts[c] = Idle
          /\ \A a \in (Rules \union {Main}) \ {c} : acts[a] = act[a]
      <3>1. Idle \in Activation
        BY EmptySeq DEF Idle, Activation, Pcs, Status
      <3> QED
        BY <1>2, <2>4, <3>1
    <2>6. /\ status'[c] = st /\ \A x \in Rules \ {c} : status'[x] = status[x]
          /\ Answer(b, st, acts)
      BY <1>1, <1>2, <1>8, <2>1, <2>2, <2>4 DEF Return, FinalStatus
    <2>7. Answered(b, st, acts)
      <3>1. acts[b].pc = "sync" /\ b # Main => acts[b].todo \in Seq(Rules)
        BY <2>3, <2>5 DEF IInv, PcsOK
      <3>2. mode \in {"build"} /\ acts[b].todo # <<>>
        BY <2>1, <2>3, <2>5
      <3> QED
        BY <1>2, <2>5, <2>6, <3>1, <3>2, AnswerEffect
    <2>8. CASE r = c
      <3>1. act'[c].pc = "goal"
        BY <2>1, <2>3, <2>5, <2>7 DEF Answered, Idle
      <3> QED
        BY <2>1, <2>2, <2>6, <2>8, <3>1 DEF Steady, Entered, Answers, DepLoops
    <2>9. CASE r = b
      <3>1. act'[r].pc \in DepLoops \union {"sync", "wait"} /\ act'[r].st = act[r].st
        BY <2>3, <2>5, <2>7, <2>9 DEF Answered, DepLoops
      <3> QED
        BY <2>3, <2>6, <2>9, <3>1 DEF Steady, Entered, Answers, DepLoops
    <2>10. CASE r # b /\ r # c
      BY <1>3, <2>5, <2>6, <2>7, <2>10 DEF Answered
    <2> QED
      BY <2>8, <2>9, <2>10
  <1> QED
    BY <1>4, <1>5, <1>6, <1>7, <1>8 DEF EngineOther

\* Steps that keep calm began calm; and when tmake leaves with 0 nothing runs.
LEMMA CalmStays ==
  ASSUME FailuresReported, IInv, XInv, Next, edited' = edited, Calm'
  PROVE  Calm /\ (mode = "build" \/ running = {})
  <1>1. CASE mode' = "build"
    <2>1. Clean
      BY <1>1, ReportStays DEF Clean, Calm
    <2> QED
      BY <2>1 DEF Clean, Calm
  <1>2. CASE mode' = "exiting" /\ mode = "build"
    BY <1>2, LeavingStarts DEF Calm
  <1>3. CASE mode' = "exiting" /\ mode # "build"
    <2>1. mode = "exiting" /\ code = 0
      <3>1. CASE ExitReap
        <4>1. PICK j \in running : Reap(j)
          BY <3>1 DEF ExitReap
        <4> QED
          BY <1>3, <3>1, <4>1, ReapCode DEF Calm, ExitReap
      <3>2. CASE Children
        BY <1>3, <3>2 DEF Calm, Children, ChildExit
      <3> QED
        BY <1>3, <3>1, <3>2
           DEF Next, Tmake, NextGoal, BuildKnown, BuildRecursive, BuildEnter, DepsDone,
               ScanDone, HashError, Decide, SlotWait, Fork, RunSync, Return, SyncWait,
               Signal, Calling, Running, Exit, Exited, vars
    <2> QED
      BY <1>3, <2>1 DEF XInv, LeavingOK, Calm
  <1> QED
    BY <1>1, <1>2, <1>3 DEF Calm

\* As long as nothing has been reported, a rule that has an answer or whose
\* commands run does not depend on one whose commands run.
LEMMA NotBelow ==
  ASSUME IInv, XInv, mode = "build", exitcode = 0,
         NEW r \in Rules, Answers(r) \/ Flying(r), NEW x \in Rules, Flying(x)
  PROVE  x \notin RuleDeps(r)
  <1>1. status[x] \notin Settled
    BY DEF Flying, IInv, JobsAccounted, StatusOK, Active, Settled
  <1>2. AllReady(r)
    <2>1. CASE Answers(r)
      BY <2>1 DEF Answers, XInv, ThroughOK, Through, Clean
    <2>2. CASE Flying(r)
      BY <2>2 DEF Flying, IInv, JobsAccounted, LoopOK
    <2> QED
      BY <2>1, <2>2
  <1> QED
    BY <1>1, <1>2, DepsAreNodes DEF AllReady, Ready

-----------------------------------------------------------------------------
(* What the steps of the engine leave alone *)

LEMMA ProductsAreRules == Products \subseteq Rules
  BY EngineAssumption DEF EngineAssumption, Products

LEMMA WorldStep == ASSUME IInv, WorldOK, Next PROVE WorldOK'
  <1>1. exists \in [Rules -> BOOLEAN] /\ Phony \subseteq Rules /\ running \in SUBSET Jobs
    BY EngineAssumption DEF IInv, TypeOK, EngineAssumption
  <1>2. CASE Signal
    BY <1>2 DEF WorldOK, Signal
  <1>3. CASE UNCHANGED <<exists, env>>
    BY <1>3 DEF WorldOK, env
  <1>4. CASE \E o \in Outcomes, there, fin \in BOOLEAN : RunSync(o, there, fin)
    <2>1. PICK o \in Outcomes, there \in BOOLEAN, fin \in BOOLEAN : RunSync(o, there, fin)
      BY <1>4
    <2>2. /\ UNCHANGED env /\ (cur \in Phony => ~there)
          /\ \/ exists' = [exists EXCEPT ![cur] = there]
             \/ exists' = [exists EXCEPT ![cur] = there /\ Produced(cur, o = "ok", there)]
      BY <2>1 DEF RunSync, Leaves
    <2> QED
      BY <1>1, <2>2 DEF WorldOK, env
  <1>5. CASE Children
    <2>1. PICK r \in Rules, there \in BOOLEAN :
            /\ UNCHANGED env /\ (r \in Phony => ~there)
            /\ exists' = [exists EXCEPT ![r] = there]
      BY <1>5 DEF Children, ChildExit, Leaves
    <2> QED
      BY <1>1, <2>1 DEF WorldOK, env
  <1>6. CASE (\E j \in running : Reap(j)) /\ UNCHANGED env
    <2>1. PICK j \in running : exists' = [exists EXCEPT ![j.rule] = @ /\ Produced(j.rule, child[j.rule] = "ok", @)]
      BY <1>6 DEF Reap
    <2> QED
      BY <1>1, <1>6, <2>1 DEF WorldOK, env
  <1>7. CASE SlotWait \/ SyncWait \/ ExitReap
    BY <1>3, <1>6, <1>7 DEF SlotWait, SyncWait, ExitReap
  <1>8. CASE \/ NextGoal \/ BuildKnown \/ BuildRecursive \/ BuildEnter \/ DepsDone \/ ScanDone
             \/ HashError \/ Return \/ Exit \/ Exited \/ Fork
             \/ \E v \in Settled : Decide(v)
    BY <1>3, <1>8 DEF NextGoal, BuildKnown, BuildRecursive, BuildEnter, DepsDone, ScanDone, HashError,
                      Return, Exit, Exited, Fork, Decide, vars
  <1> QED
    BY <1>2, <1>4, <1>5, <1>7, <1>8 DEF Next, Tmake

\* The innermost activation only can be at "run".
LEMMA RunIsCur == ASSUME IInv, NEW r \in Rules, act[r].pc = "run" PROVE r = cur
  BY DEF IInv, FrameOK, Active

\* Steps of tmake or of a child that have nothing to do with r.
LEMMA SameRule ==
  ASSUME ITypeOK, ITypeOK', Later, Alive, Alive',
         UNCHANGED <<disk, text, fault, null, targets>>, edited' = edited,
         Calm' => Calm,
         NEW r \in Rules, Same(r), Steady(r),
         mode' = "exiting" => act'[r].pc # "run",
         (Calm' /\ (Answers(r) \/ Flying(r))) \/ (null /\ r \in Products) => Hash(r)' = Hash(r),
         RuleOK(r), r \in Products => ProductOK(r)
  PROVE  RuleOK(r)' /\ (r \in Products => ProductOK(r)')
  <1>1. Flying(r)' <=> Flying(r)
    BY DEF Flying, Same
  <1>2. CommandsOK(r)'
    BY <1>1 DEF RuleOK, CommandsOK, Same
  <1>3. PastOK(r)'
    <2>1. /\ dephash[r] \in SUBSET Stamps /\ disk.dephash[r] \in SUBSET Stamps
          /\ PastOK(r)
      BY DEF ITypeOK, RuleOK
    <2> QED
      BY <2>1, PastStable DEF PastOK, Same
  <1>4. ASSUME r \in Products PROVE ProductOK(r)'
    <2>1. CacheOK(r)'
      BY <1>4, SameCache DEF RuleOK, ProductOK, CacheOK
    <2>2. Hash(r)' = Hash(r) /\ Known(r) => Known(r)'
      BY DEF Known, Matches, Same
    <2>3. SettledOK(r)'
      BY <1>1, <1>4, <2>2 DEF ProductOK, SettledOK, Steady, Same
    <2>4. EnteredOK(r)'
      <3>1. r \notin Phony
        BY <1>4 DEF Products
      <3>2. FirstStatus(r) = "built" <=> ~exists[r]
        BY <3>1 DEF FirstStatus
      <3> QED
        BY <1>4, <3>2 DEF ProductOK, EnteredOK, Steady, Same
    <2>5. NullOK(r)'
      BY <1>1, <1>4, <2>2, BelowKept DEF ProductOK, NullOK, Same
    <2> QED
      BY <2>1, <2>3, <2>4, <2>5 DEF ProductOK, CacheOK
  <1> QED
    BY <1>2, <1>3, <1>4 DEF RuleOK

-----------------------------------------------------------------------------
(* Steps of the engine that do not touch the cache or the files *)

LEMMA SafeFacts == ASSUME CacheSafe PROVE FailuresReported
  BY EngineAssumption DEF CacheSafe, FailuresReported, EngineAssumption

LEMMA OtherStep ==
  ASSUME CacheSafe, IInv, XInv, KInv, IOther PROVE KInv'
  <1>1. EngineOther /\ Next /\ UNCHANGED ivars
    BY DEF IOther, EngineOther, Next, Tmake
  <1>2. UNCHANGED <<ver, made, reads, dephash, cmd, text, disk, run, edited, null, fault>>
    BY <1>1 DEF ivars, cache, files, world
  <1>3. UNCHANGED <<exists, child, started, targets>>
    BY <1>1 DEF EngineOther, NextGoal, BuildKnown, BuildRecursive, BuildEnter, DepsDone, ScanDone,
                HashError, Return, Signal, env
  <1>4. mode = "build" /\ mode' \in {"build", "exiting"}
    <2>1. CASE BuildKnown \/ Return
      <3>1. PICK c, ret, acts : Answer(c, ret, acts)
        BY <2>1 DEF BuildKnown, Return
      <3>2. mode = "build"
        BY <2>1 DEF BuildKnown, Return, Calling
      <3> QED
        BY <3>1, <3>2 DEF Answer, AnswerDeps, AnswerMain, AnswerScan, ExitIf, TmakeExit, Continue
    <2> QED
      BY <1>1, <2>1 DEF EngineOther, NextGoal, BuildRecursive, BuildEnter, DepsDone, ScanDone,
                  HashError, Signal, Calling, ExitIf, TmakeExit, Continue
  <1>5. ITypeOK' /\ Later
    BY <1>2 DEF KInv, ITypeOK, Later
  <1>6. Alive /\ Alive' /\ (Calm' => Calm)
    BY <1>1, <1>2, <1>4, SafeFacts, CalmStays DEF Alive
  <1>7. ASSUME NEW r \in Rules PROVE RuleOK(r)' /\ (r \in Products => ProductOK(r)')
    <2>1. Steady(r)
      BY <1>1, SteadyOther
    <2>2. Same(r)
      BY <1>2, <1>3, <2>1 DEF Same, Steady
    <2>3. Hash(r)' = Hash(r)
      BY <1>2 DEF Hash
    <2>4. mode' = "exiting" => act'[r].pc # "run"
      <3>1. ASSUME mode' = "exiting", act[r].pc = "run" PROVE FALSE
        <4>1. r = cur /\ r # Main
          BY <3>1, RunIsCur, Names
        <4> QED
          BY <1>1, <1>4, <3>1, <4>1 DEF EngineOther, NextGoal, BuildKnown, BuildRecursive, BuildEnter,
             DepsDone, ScanDone, HashError, Return, Signal, Calling, DepLoops
      <3> QED
        BY <2>1, <3>1 DEF Steady
    <2>5. RuleOK(r) /\ (r \in Products => ProductOK(r)) /\ ITypeOK
      BY DEF KInv
    <2> QED
      BY <1>2, <1>3, <1>5, <1>6, <2>1, <2>2, <2>3, <2>4, <2>5, SameRule
  <1>8. WorldOK' /\ DoneOK'
    BY <1>1, <1>6, WorldStep DEF KInv, DoneOK, Alive
  <1> QED
    BY <1>5, <1>7, <1>8, ProductsAreRules DEF KInv
-----------------------------------------------------------------------------
(* Deciding *)

\* Nobody runs a rule that build is in the middle of.
LEMMA CurIdle ==
  ASSUME IInv, mode = "build", NEW c \in Rules, act[c].pc \in {"decide", "run"}
  PROVE  child[c] = "none" /\ started[c] = 0 /\ status[c] \in {"checking", "failed"}
  BY DEF IInv, JobsAccounted, StatusOK, StartedOK, Active

\* What Decide does to the innermost rule.
LEMMA DecideEffect ==
  ASSUME CacheSafe, IInv, KInv, NEW v \in Settled, Decide(v)
  PROVE  /\ cur \in Rules /\ act[cur].pc = "decide" /\ mode = "build"
         /\ act[cur].st = "built" => v = "built"
         /\ mode' = "build" /\ exitcode' = exitcode
         /\ \A r \in Rules \ {cur} : act'[r] = act[r]
         /\ act'[cur].st = v
         /\ act'[cur].pc = IF v = "built" /\ cur \in HasDo THEN "run" ELSE "return"
         /\ UNCHANGED <<status, cur, running, pending, child, exists, env, started>>
  <1>1. /\ cur \in Rules /\ act[cur].pc = "decide" /\ mode = "build"
        /\ act \in [Rules \union {Main} -> Activation]
    BY DEF Decide, IInv, TypeOK, PcsOK
  <1>2. act[cur].st = "built" => v = "built"
    BY DEF Decide
  <1>3. ~Refuses(cur)
    BY DEF CacheSafe, KInv, WorldOK, Refuses
  <1>4. /\ act' = [act EXCEPT ![cur].pc = IF v = "built" /\ cur \in HasDo THEN "run" ELSE "return",
                              ![cur].st = v]
        /\ Continue /\ exitcode' = exitcode
        /\ UNCHANGED <<status, cur, running, pending, child, exists, env, started>>
    BY <1>3 DEF Decide
  <1>5. act[cur] \in Activation
    BY <1>1
  <1>6. act'[cur] = [act[cur] EXCEPT !.pc = IF v = "built" /\ cur \in HasDo THEN "run" ELSE "return",
                                     !.st = v]
    BY <1>1, <1>4
  <1>7. act'[cur].st = v /\ act'[cur].pc = IF v = "built" /\ cur \in HasDo THEN "run" ELSE "return"
    BY <1>5, <1>6 DEF Activation
  <1> QED
    BY <1>1, <1>2, <1>4, <1>7 DEF Continue

LEMMA DecideCacheStep == ASSUME CacheSafe, IInv, XInv, KInv, IDecide PROVE KInv'
  <1>1. PICK v \in Settled, c \in Rules :
          /\ c = cur /\ Decide(v)
          /\ v = IF act[c].st = "built" \/ DepsChanged(c) \/ CommandsChanged(c)
                 THEN "built" ELSE "uptodate"
          /\ dephash' = IF c \in Phony THEN dephash ELSE [dephash EXCEPT ![c] = Hash(c)]
    BY DecideEffect DEF IDecide, Settled
  <1>2. /\ act[c].pc = "decide" /\ mode = "build" /\ mode' = "build" /\ exitcode' = exitcode
        /\ \A r \in Rules \ {c} : act'[r] = act[r]
        /\ act'[c].st = v
        /\ act'[c].pc = IF v = "built" /\ c \in HasDo THEN "run" ELSE "return"
        /\ UNCHANGED <<status, cur, running, pending, child, exists, env, started>>
    BY <1>1, DecideEffect
  <1>3. UNCHANGED <<ver, made, reads, cmd, text, disk, run, edited, null, fault, targets>>
    BY <1>2 DEF IDecide, files, world, env
  <1>4. child[c] = "none" /\ started[c] = 0 /\ status[c] \notin Settled \union {"unknown"}
    BY <1>2, CurIdle DEF Settled
  <1>5. ITypeOK /\ dephash' \in [Rules -> SUBSET Stamps]
    BY <1>1, HashType DEF KInv, ITypeOK
  <1>6. ITypeOK' /\ Later /\ Alive /\ Alive' /\ (Calm' => Calm)
    BY <1>2, <1>3, <1>5 DEF ITypeOK, Later, Alive, Calm
  <1>7. \A r \in Rules : Hash(r)' = Hash(r) /\ Inputs(r)' = Inputs(r) /\ Past(Hash(r))
    BY <1>3, <1>5, PastHash DEF Hash, Inputs
  <1>8. ASSUME NEW r \in Rules \ {c} PROVE RuleOK(r)' /\ (r \in Products => ProductOK(r)')
    <2>1. Same(r) /\ Steady(r)
      BY <1>1, <1>2, <1>3, <1>5 DEF Same, Steady, Entered, Answers, ITypeOK
    <2>2. RuleOK(r) /\ (r \in Products => ProductOK(r))
      BY DEF KInv
    <2> QED
      BY <1>2, <1>3, <1>5, <1>6, <1>7, <2>1, <2>2, SameRule
  <1>9. RuleOK(c)'
    <2>1. PastOK(c)'
      <3>1. PastOK(c) /\ dephash'[c] \in {dephash[c], Hash(c)}
        BY <1>1, <1>5 DEF KInv, RuleOK, ITypeOK
      <3>2. Past(dephash[c])' = Past(dephash'[c])
        BY <1>3 DEF Past
      <3> QED
        BY <1>3, <1>7, <3>1, <3>2 DEF PastOK, Past
    <2>2. CommandsOK(c)'
      BY <1>2, <1>4 DEF CommandsOK, Flying
    <2> QED
      BY <2>1, <2>2 DEF RuleOK
  <1>10. ASSUME c \in Products PROVE ProductOK(c)'
    <2>1. c \in HasDo /\ dephash'[c] = Hash(c) /\ ProductOK(c) /\ ~Flying(c)
      BY <1>1, <1>2, <1>4, <1>5, <1>10 DEF Products, KInv, ITypeOK, Flying
    <2>2. act[c].st = "built" <=> ~exists[c]
      BY <1>2, <1>6, <2>1 DEF ProductOK, EnteredOK, Entered
    <2>3. v = "built" <=> ~exists[c] \/ ~Known(c)
      BY <1>1, <2>1, <2>2 DEF DepsChanged, CommandsChanged, Known, Matches
    <2>4. Known(c)' <=> cmd[c] = text[c]
      BY <1>3, <1>7, <2>1 DEF Known, Matches
    <2>5. Saved(c)' <=> Saved(c)
      BY <1>3, <1>7 DEF Saved, Matches
    <2>6. CASE v = "built"
      <3>1. Flying(c)' /\ act'[c].pc = "run"
        BY <1>2, <2>1, <2>6 DEF Flying
      <3>2. EnteredOK(c)' /\ KnownOK(c)' /\ ChildOK(c)'
        BY <1>2, <1>4, <3>1 DEF EnteredOK, Entered, KnownOK, ChildOK, DepLoops
      <3>3. SettledOK(c)'
        BY <1>2, <1>4, <1>7, <2>1, <3>1 DEF SettledOK, Answers
      <3>4. SavedOK(c)'
        BY <1>2, <1>3, <1>7, <2>1, <2>5 DEF ProductOK, SavedOK
      <3>5. KillOK(c)'
        <4>1. fault = "kill" => ~Saved(c)
          BY <1>2, <1>4, <1>6, <2>1, <2>3, <2>6 DEF ProductOK, KillOK, Known, Saved, Matches
        <4> QED
          BY <1>2, <1>3, <1>4, <1>6, <2>1, <2>5, <3>1, <4>1 DEF ProductOK, KillOK
      <3>6. ~null
        <4>1. c \in Below
          BY <1>4 DEF XInv, TouchedOK
        <4> QED
          BY <1>6, <2>1, <2>3, <2>6, <4>1 DEF ProductOK, NullOK
      <3> QED
        BY <1>3, <3>2, <3>3, <3>4, <3>5, <3>6 DEF ProductOK, NullOK
    <2>7. CASE v # "built"
      <3>1. ~Flying(c)' /\ act'[c].pc = "return" /\ exists[c] /\ Known(c) /\ Known(c)'
        BY <1>2, <1>4, <2>1, <2>3, <2>4, <2>7 DEF Flying, Known, Matches
      <3>2. EnteredOK(c)' /\ ChildOK(c)'
        BY <1>2, <1>4, <3>1 DEF EnteredOK, Entered, ChildOK, DepLoops
      <3>3. KnownOK(c)'
        BY <1>2, <1>3, <1>6, <1>7, <2>1, <3>1 DEF ProductOK, KnownOK
      <3>4. SettledOK(c)'
        BY <1>2, <3>1 DEF SettledOK
      <3>5. SavedOK(c)'
        BY <1>2, <1>3, <1>7, <2>1, <2>5 DEF ProductOK, SavedOK
      <3>6. KillOK(c)'
        BY <1>2, <1>3, <1>4, <1>6, <2>1, <2>5, <3>1 DEF ProductOK, KillOK, Known, Matches
      <3>7. NullOK(c)'
        BY <1>2, <1>3, <1>4, <3>1 DEF NullOK
      <3> QED
        BY <3>2, <3>3, <3>4, <3>5, <3>6, <3>7 DEF ProductOK
    <2> QED
      BY <2>6, <2>7
  <1>11. WorldOK' /\ DoneOK'
    <2>1. Next
      BY <1>1 DEF Next, Tmake
    <2> QED
      BY <1>6, <2>1, WorldStep DEF KInv, DoneOK, Alive
  <1> QED
    BY <1>6, <1>8, <1>9, <1>10, <1>11, ProductsAreRules DEF KInv
-----------------------------------------------------------------------------
(* Starting commands *)

\* What Fork does to the innermost rule.
LEMMA ForkEffect ==
  ASSUME IInv, Fork
  PROVE  /\ cur \in Rules /\ act[cur].pc = "run" /\ mode = "build" /\ mode' \in {"build", "exiting"}
         /\ \A r \in Rules \ {cur} :
              /\ act'[r] = act[r] /\ status'[r] = status[r]
              /\ child'[r] = child[r] /\ started'[r] = started[r]
         /\ act'[cur].pc = "return" /\ act'[cur].st = "running"
         /\ status'[cur] = "running" /\ child'[cur] = "live" /\ started'[cur] = started[cur] + 1
         /\ UNCHANGED <<exists, targets>>
  <1>1. cur \in Rules /\ act[cur].pc = "run" /\ mode = "build"
    BY DEF Fork, Running, IInv, TypeOK, PcsOK
  <1>2. /\ act \in [Rules \union {Main} -> Activation] /\ status \in [Rules -> Status]
        /\ child \in [Rules -> AllOutcomes \union {"none", "live"}] /\ started \in [Rules -> Nat]
    BY DEF IInv, TypeOK
  <1>3. act' = [act EXCEPT ![cur].pc = "return", ![cur].st = "running"]
    BY DEF Fork
  <1>4. act[cur] \in Activation
    BY <1>1, <1>2
  <1>5. act'[cur] = [act[cur] EXCEPT !.pc = "return", !.st = "running"]
    BY <1>1, <1>2, <1>3
  <1>6. act'[cur].pc = "return" /\ act'[cur].st = "running"
    BY <1>4, <1>5 DEF Activation
  <1>7. mode' \in {"build", "exiting"}
    BY <1>1 DEF Fork, ExitIf, TmakeExit, Continue
  <1> QED
    BY <1>1, <1>2, <1>3, <1>6, <1>7 DEF Fork, env

LEMMA ForkCacheStep == ASSUME CacheSafe, IInv, XInv, KInv, IFork PROVE KInv'
  <1>1. PICK c \in Rules : c = cur
    BY ForkEffect DEF IFork
  <1>2. /\ act[c].pc = "run" /\ mode = "build" /\ mode' \in {"build", "exiting"}
        /\ \A r \in Rules \ {c} :
              /\ act'[r] = act[r] /\ status'[r] = status[r]
              /\ child'[r] = child[r] /\ started'[r] = started[r]
        /\ act'[c].pc = "return" /\ act'[c].st = "running"
        /\ status'[c] = "running" /\ child'[c] = "live" /\ started'[c] = started[c] + 1
        /\ UNCHANGED <<exists, targets>>
    BY <1>1, ForkEffect DEF IFork
  <1>3. /\ UNCHANGED <<ver, made, dephash, cmd, text, disk, run, edited, null, fault>>
        /\ reads' = [reads EXCEPT ![c] = Inputs(c)]
    BY <1>1 DEF IFork, cache, world
  <1>4. ITypeOK
    BY DEF KInv
  <1>5. Inputs(c) \in Origin
    BY <1>4, HashType DEF ITypeOK, Inputs, Origin
  <1>6. ITypeOK' /\ Later /\ Alive /\ Alive'
    BY <1>2, <1>3, <1>4, <1>5 DEF ITypeOK, Later, Alive
  <1>7. Next
    BY DEF IFork, Next, Tmake
  <1>8. Calm' => Calm
    BY <1>3, <1>7, SafeFacts, CalmStays
  <1>9. \A r \in Rules : Hash(r)' = Hash(r) /\ Inputs(r)' = Inputs(r)
    BY <1>3 DEF Hash, Inputs
  <1>10. ASSUME NEW r \in Rules \ {c} PROVE RuleOK(r)' /\ (r \in Products => ProductOK(r)')
    <2>1. Same(r) /\ Steady(r)
      BY <1>2, <1>3, <1>4 DEF Same, Steady, Entered, Answers, ITypeOK
    <2>2. RuleOK(r) /\ (r \in Products => ProductOK(r))
      BY DEF KInv
    <2>3. act'[r].pc # "run"
      BY <1>1, <1>2, RunIsCur
    <2> QED
      BY <1>2, <1>3, <1>4, <1>6, <1>8, <1>9, <2>1, <2>2, <2>3, SameRule
  <1>11. RuleOK(c)'
    <2>1. RuleOK(c) /\ Flying(c) /\ started[c] = 0
      BY <1>2, CurIdle DEF KInv, Flying
    <2>2. PastOK(c)'
      BY <1>3, <2>1 DEF RuleOK, PastOK, Past
    <2> QED
      BY <1>2, <1>6, <2>1, <2>2 DEF RuleOK, CommandsOK, Flying
  <1>12. ASSUME c \in Products PROVE ProductOK(c)'
    <2>1. ProductOK(c) /\ Flying(c) /\ started[c] = 0
      BY <1>2, <1>12, CurIdle DEF KInv, Flying
    <2>2. Flying(c)' /\ started'[c] = 1
      BY <1>2, <2>1 DEF Flying
    <2>3. reads'[c] = Inputs(c)
      BY <1>3, <1>4 DEF ITypeOK
    <2>4. EnteredOK(c)' /\ KnownOK(c)'
      BY <1>2, <2>2 DEF EnteredOK, Entered, KnownOK, DepLoops
    <2>5. ChildOK(c)'
      <3>1. reads'[c].from = Hash(c) /\ reads'[c].text = text[c]
        BY <2>3 DEF Inputs
      <3>2. reads'[c].whole = TRUE
        BY <2>3 DEF Inputs
      <3> QED
        BY <1>2, <1>3, <1>9, <3>1, <3>2 DEF ChildOK
    <2>6. SettledOK(c)'
      BY <1>2, <1>3, <1>6, <1>8, <1>9, <2>1 DEF ProductOK, SettledOK, Answers, Settled
    <2>7. Saved(c)' <=> Saved(c)
      BY <1>3, <1>9 DEF Saved, Matches
    <2>8. SavedOK(c)'
      BY <1>2, <1>3, <1>9, <2>1, <2>7 DEF ProductOK, SavedOK
    <2>9. KillOK(c)'
      BY <1>2, <1>3, <1>6, <2>1, <2>2, <2>7 DEF ProductOK, KillOK
    <2>10. ~null
      BY <2>1 DEF ProductOK, NullOK
    <2> QED
      BY <1>3, <2>4, <2>5, <2>6, <2>8, <2>9, <2>10 DEF ProductOK, NullOK
  <1>13. WorldOK' /\ DoneOK'
    BY <1>6, <1>7, WorldStep DEF KInv, DoneOK, Alive
  <1> QED
    BY <1>6, <1>10, <1>11, <1>12, <1>13, ProductsAreRules DEF KInv

\* What RunSync does to the innermost rule when no signal is pending.
LEMMA RunSyncEffect ==
  ASSUME IInv, ~signal, NEW o \in Outcomes, NEW there \in BOOLEAN, NEW fin \in BOOLEAN,
         RunSync(o, there, fin)
  PROVE  /\ cur \in Rules /\ act[cur].pc = "run" /\ mode = "build" /\ mode' \in {"build", "exiting"}
         /\ Leaves(cur, o, there)
         /\ \A r \in Rules \ {cur} :
              /\ act'[r] = act[r] /\ status'[r] = status[r]
              /\ started'[r] = started[r] /\ exists'[r] = exists[r]
         /\ act'[cur].pc = "return"
         /\ act'[cur].st = IF o = "ok" THEN "built" ELSE "failed"
         /\ status'[cur] = PostStatus(cur, o = "ok", there, fin)
         /\ started'[cur] = started[cur] + 1
         /\ exists'[cur] = (there /\ Produced(cur, o = "ok", there))
         /\ exitcode' = PostExitcode(cur, o = "ok", there, fin, o = "fail")
         /\ mode' = "exiting" => code' # 0
         /\ UNCHANGED <<child, targets>>
  <1>1. cur \in Rules /\ act[cur].pc = "run" /\ mode = "build"
    BY DEF RunSync, Running, IInv, TypeOK, PcsOK
  <1>2. /\ act \in [Rules \union {Main} -> Activation] /\ status \in [Rules -> Status]
        /\ exists \in [Rules -> BOOLEAN] /\ started \in [Rules -> Nat]
    BY DEF IInv, TypeOK
  <1>3. /\ exists' = [exists EXCEPT ![cur] = there /\ Produced(cur, o = "ok", there)]
        /\ exitcode' = PostExitcode(cur, o = "ok", there, fin, o = "fail")
        /\ status' = [status EXCEPT ![cur] = PostStatus(cur, o = "ok", there, fin)]
        /\ act' = [act EXCEPT ![cur].pc = "return",
                              ![cur].st = IF o = "ok" THEN "built" ELSE "failed"]
        /\ ExitIf((QuickStop \/ cur \in Fatal) /\ exitcode' # 0, exitcode')
        /\ started' = [started EXCEPT ![cur] = @ + 1]
        /\ Leaves(cur, o, there) /\ UNCHANGED <<child, targets>>
    BY DEF RunSync, env
  <1>4. act[cur] \in Activation
    BY <1>1, <1>2
  <1>5. act'[cur] = [act[cur] EXCEPT !.pc = "return", !.st = IF o = "ok" THEN "built" ELSE "failed"]
    BY <1>1, <1>2, <1>3
  <1>6. act'[cur].pc = "return" /\ act'[cur].st = IF o = "ok" THEN "built" ELSE "failed"
    BY <1>4, <1>5 DEF Activation
  <1>7. mode' \in {"build", "exiting"} /\ (mode' = "exiting" => code' # 0)
    BY <1>1, <1>3 DEF ExitIf, TmakeExit, Continue
  <1>8. \A r \in Rules \ {cur} :
              /\ act'[r] = act[r] /\ status'[r] = status[r]
              /\ started'[r] = started[r] /\ exists'[r] = exists[r]
    BY <1>2, <1>3
  <1>9. /\ status'[cur] = PostStatus(cur, o = "ok", there, fin)
        /\ started'[cur] = started[cur] + 1
        /\ exists'[cur] = (there /\ Produced(cur, o = "ok", there))
    BY <1>1, <1>2, <1>3
  <1> QED
    BY <1>1, <1>3, <1>6, <1>7, <1>8, <1>9

-----------------------------------------------------------------------------
(* The end of commands *)

\* What commands of r that have read m do to the files.
LEMMA WritesEffect ==
  ASSUME ITypeOK, NEW r \in Rules, NEW m \in Origin, NEW o, NEW there \in BOOLEAN,
         NEW touch \in BOOLEAN, Writes(r, m, o, there, touch)
  PROVE  /\ ver' \in [Node -> Nat] /\ made' \in [Rules -> Origin]
         /\ \A n \in Node : ver[n] <= ver'[n]
         /\ \A n \in Node \ {r} : ver'[n] = ver[n]
         /\ ~there => ver' = ver
         /\ \A x \in Rules \ {r} : made'[x] = made[x]
         /\ m.whole = TRUE /\ o = "ok" /\ there => made'[r] = m
  <1>1. /\ ver \in [Node -> Nat] /\ made \in [Rules -> Origin] /\ r \in Node
    BY DEF ITypeOK, Node
  <1>2. ver' = IF there /\ touch THEN [ver EXCEPT ![r] = ver[r] + 1] ELSE ver
    BY DEF Writes
  <1>3. PICK w : w = [m EXCEPT !.whole = o = "ok"]
    OBVIOUS
  <1>4. made' = IF there /\ (touch \/ o = "ok") THEN [made EXCEPT ![r] = w] ELSE made
    BY <1>3 DEF Writes
  <1>5. w \in Origin
    BY <1>3 DEF Origin
  <1>6. m.whole = TRUE /\ o = "ok" => w = m
    BY <1>3 DEF Origin
  <1> QED
    BY <1>1, <1>2, <1>4, <1>5, <1>6

\* What target-post-build does to the cache.
LEMMA PostCacheEffect ==
  ASSUME ITypeOK, NEW r \in Rules, NEW ok \in BOOLEAN, NEW there \in BOOLEAN,
         PostCache(r, ok, there)
  PROVE  /\ dephash' \in [Rules -> SUBSET Stamps] /\ cmd' \in [Rules -> Nat]
         /\ \A x \in Rules \ {r} : dephash'[x] = dephash[x] /\ cmd'[x] = cmd[x]
         /\ cmd'[r] = IF ok /\ r \notin Phony THEN text[r] ELSE cmd[r]
         /\ dephash'[r] = IF Produced(r, ok, there) THEN dephash[r] ELSE FailedHash
  BY PastHash DEF ITypeOK, PostCache

\* Only what x is a dependency of notices that x has changed.
LEMMA HashElsewhere ==
  ASSUME NEW x, \A n \in Node \ {x} : ver'[n] = ver[n], NEW r \in Rules, x \notin RuleDeps(r)
  PROVE  Hash(r)' = Hash(r)
  <1>1. \A d \in RuleDeps(r) : ver'[d] = ver[d]
    BY DepsAreNodes
  <1> QED
    BY <1>1 DEF Hash

\* The rule whose commands end is remembered as it was when they began.
LEMMA PostPast ==
  ASSUME ITypeOK, ITypeOK', Later, text' = text, disk' = disk, NEW r \in Rules, PastOK(r),
         dephash'[r] \in {dephash[r], FailedHash}, cmd'[r] \in {cmd[r], text[r]}
  PROVE  PastOK(r)'
  <1>1. /\ dephash[r] \in SUBSET Stamps /\ disk.dephash[r] \in SUBSET Stamps
        /\ Past(FailedHash) /\ FailedHash \in SUBSET Stamps /\ text[r] \in Nat
    BY PastHash DEF ITypeOK
  <1>2. Past(dephash[r])' /\ Past(disk.dephash[r])' /\ Past(FailedHash)'
    <2>1. PICK g, h : g = dephash[r] /\ h = disk.dephash[r]
      OBVIOUS
    <2>2. Past(g)' /\ Past(h)'
      BY <1>1, <2>1, PastStable DEF PastOK
    <2> QED
      BY <1>1, <2>1, <2>2, PastStable
  <1> QED
    BY <1>1, <1>2 DEF PastOK

\* Commands that run in tmake itself.
LEMMA RunSyncCacheStep ==
  ASSUME CacheSafe, IInv, XInv, KInv, NEW o \in Outcomes, NEW there \in BOOLEAN,
         NEW fin \in BOOLEAN, NEW touch \in BOOLEAN, IRunSync(o, there, fin, touch)
  PROVE  KInv'
  <1>1. ~signal /\ RunSync(o, there, fin)
    BY DEF CacheSafe, KInv, WorldOK, IRunSync
  <1>2. PICK c \in Rules : c = cur
    BY <1>1, RunSyncEffect
  <1>3. /\ act[c].pc = "run" /\ mode = "build" /\ mode' \in {"build", "exiting"}
        /\ Leaves(c, o, there)
        /\ \A r \in Rules \ {c} :
              /\ act'[r] = act[r] /\ status'[r] = status[r]
              /\ started'[r] = started[r] /\ exists'[r] = exists[r]
        /\ act'[c].pc = "return"
        /\ act'[c].st = IF o = "ok" THEN "built" ELSE "failed"
        /\ status'[c] = PostStatus(c, o = "ok", there, fin)
        /\ started'[c] = started[c] + 1
        /\ exists'[c] = (there /\ Produced(c, o = "ok", there))
        /\ exitcode' = PostExitcode(c, o = "ok", there, fin, o = "fail")
        /\ mode' = "exiting" => code' # 0
        /\ UNCHANGED <<child, targets>>
    BY <1>1, <1>2, RunSyncEffect
  <1>4. /\ PostCache(c, o = "ok", there) /\ Writes(c, Inputs(c), o, there, touch)
        /\ UNCHANGED <<reads, text, disk, run, edited, null, fault>>
    BY <1>1, <1>2 DEF IRunSync, world
  <1>5. ITypeOK /\ Inputs(c) \in Origin /\ Inputs(c).whole = TRUE
    BY HashType DEF KInv, ITypeOK, Inputs, Origin
  <1>6. /\ ver' \in [Node -> Nat] /\ made' \in [Rules -> Origin]
        /\ \A n \in Node : ver[n] <= ver'[n]
        /\ \A n \in Node \ {c} : ver'[n] = ver[n]
        /\ ~there => ver' = ver
        /\ \A x \in Rules \ {c} : made'[x] = made[x]
        /\ o = "ok" /\ there => made'[c] = Inputs(c)
    BY <1>4, <1>5, WritesEffect, ZenonT(30)
  <1>7. /\ dephash' \in [Rules -> SUBSET Stamps] /\ cmd' \in [Rules -> Nat]
        /\ \A x \in Rules \ {c} : dephash'[x] = dephash[x] /\ cmd'[x] = cmd[x]
        /\ cmd'[c] = IF o = "ok" /\ c \notin Phony THEN text[c] ELSE cmd[c]
        /\ dephash'[c] = IF Produced(c, o = "ok", there) THEN dephash[c] ELSE FailedHash
    BY <1>4, <1>5, PostCacheEffect
  <1>8. ITypeOK' /\ Later /\ Alive /\ Alive'
    BY <1>3, <1>4, <1>5, <1>6, <1>7 DEF ITypeOK, Later, Alive
  <1>9. Next
    BY <1>1 DEF Next, Tmake
  <1>10. Calm' => Calm /\ exitcode = 0 /\ exitcode' = 0
    <2>1. Calm' => Calm
      BY <1>4, <1>9, SafeFacts, CalmStays
    <2> QED
      BY <1>3, <2>1 DEF Calm
  <1>11. Flying(c) /\ child[c] = "none" /\ started[c] = 0 /\ RuleOK(c)
    BY <1>3, CurIdle DEF Flying, KInv
  <1>12. ASSUME NEW r \in Rules, Calm', Answers(r) \/ Flying(r) PROVE Hash(r)' = Hash(r)
    <2>1. c \notin RuleDeps(r)
      BY <1>3, <1>10, <1>11, <1>12, NotBelow
    <2> QED
      BY <1>6, <2>1, HashElsewhere
  <1>13. ASSUME NEW r \in Rules, null PROVE Hash(r)' = Hash(r)
    <2>1. c \in HasDo
      BY <1>11 DEF RuleOK, CommandsOK
    <2>2. c \in Phony
      BY <1>11, <1>13, <2>1 DEF KInv, ProductOK, NullOK, Products
    <2>3. ver' = ver
      BY <1>3, <1>6, <2>2 DEF Leaves
    <2> QED
      BY <2>3 DEF Hash
  <1>14. ASSUME NEW r \in Rules \ {c} PROVE RuleOK(r)' /\ (r \in Products => ProductOK(r)')
    <2>1. Same(r) /\ Steady(r)
      BY <1>3, <1>4, <1>6, <1>7 DEF Same, Steady, Entered, Answers
    <2>2. RuleOK(r) /\ (r \in Products => ProductOK(r))
      BY DEF KInv
    <2>3. act'[r].pc # "run"
      BY <1>2, <1>3, RunIsCur
    <2> QED
      BY <1>3, <1>4, <1>5, <1>8, <1>10, <1>12, <1>13, <2>1, <2>2, <2>3, SameRule
  <1>15. RuleOK(c)'
    <2>1. PastOK(c)'
      BY <1>4, <1>5, <1>7, <1>8, <1>11, PostPast DEF RuleOK
    <2> QED
      BY <1>3, <1>11, <2>1 DEF RuleOK, CommandsOK, Flying
  <1>16. ASSUME c \in Products PROVE ProductOK(c)'
    <2>1. ProductOK(c) /\ c \notin Phony /\ PastOK(c)
      BY <1>11, <1>16 DEF KInv, Products, RuleOK
    <2>2. Produced(c, o = "ok", there) <=> o = "ok" /\ there
      BY <2>1 DEF Produced
    <2>3. EnteredOK(c)' /\ ChildOK(c)' /\ ~Flying(c)'
      BY <1>3, <1>11 DEF EnteredOK, Entered, ChildOK, DepLoops, Flying
    <2>4. KnownOK(c)'
      <3>1. ASSUME exists'[c], Known(c)' PROVE made'[c] = Inputs(c)'
        <4>1. made'[c] = Inputs(c) /\ dephash'[c] = dephash[c] /\ cmd'[c] = text[c]
          BY <1>3, <1>6, <1>7, <2>1, <2>2, <3>1
        <4>2. PICK h, t : h = dephash[c] /\ t = text[c]
          OBVIOUS
        <4>3. Past(h) /\ t \in Nat /\ t <= text[c] /\ Matches(c, h, t)'
          BY <1>5, <2>1, <3>1, <4>1, <4>2 DEF PastOK, Known, Matches, ITypeOK
        <4>4. Inputs(c)' = Inputs(c)
          BY <1>5, <1>8, <4>3, MatchStable
        <4> QED
          BY <4>1, <4>4
      <3> QED
        BY <3>1 DEF KnownOK
    <2>5. SettledOK(c)'
      <3>1. ASSUME Calm', Answers(c)' PROVE exists'[c] /\ Known(c)'
        <4>1. o = "ok"
          BY <1>3, <3>1 DEF Answers, Settled, PostStatus, Produced
        <4>2. there
          BY <1>3, <1>10, <2>2, <3>1, <4>1 DEF PostExitcode
        <4>3. RuleDeps(c) # {} => dephash[c] = Hash(c)
          BY <1>8, <1>10, <1>11, <2>1, <3>1 DEF ProductOK, SettledOK
        <4>4. Hash(c)' = Hash(c)
          BY <1>11, <1>12, <3>1
        <4> QED
          BY <1>3, <1>4, <1>7, <2>1, <2>2, <4>1, <4>2, <4>3, <4>4 DEF Known, Matches
      <3> QED
        BY <2>3, <3>1 DEF SettledOK
    <2>6. fault = "kill" => ~Saved(c) /\ ~Saved(c)'
      <3>1. fault = "kill" => ~Saved(c)
        BY <1>3, <1>8, <2>1 DEF ProductOK, KillOK
      <3>2. PICK h, t : h = disk.dephash[c] /\ t = disk.cmd[c]
        OBVIOUS
      <3>3. Past(h) /\ t \in Nat /\ t <= text[c] /\ (Saved(c)' => Matches(c, h, t)')
        BY <1>4, <1>5, <2>1, <3>2 DEF PastOK, Saved, Matches, ITypeOK
      <3>4. Saved(c)' => Saved(c)
        BY <1>5, <1>8, <3>2, <3>3, MatchStable DEF Saved
      <3> QED
        BY <3>1, <3>4
    <2>7. SavedOK(c)'
      BY <1>4, <1>8, <2>6 DEF SavedOK, Alive
    <2>8. KillOK(c)'
      <3>1. ASSUME fault = "kill", ~exists'[c] PROVE ~Known(c)'
        <4>1. "kill" \in Faults
          BY <1>5, <3>1 DEF ITypeOK
        <4>2. CASE o = "ok"
          <5>1. ~there /\ dephash'[c] = FailedHash
            BY <1>3, <1>7, <2>2, <3>1, <4>2
          <5>2. RuleDeps(c) # {}
            BY <1>3, <1>16, <2>1, <4>1, <4>2, <5>1 DEF Leaves, CacheSafe, Products
          <5> QED
            BY <5>1, <5>2, FailedDiffers DEF Known, Matches
        <4>3. CASE o # "ok"
          <5>1. cmd'[c] = disk.cmd[c] /\ dephash'[c] = FailedHash
            BY <1>7, <1>8, <1>11, <2>1, <2>2, <3>1, <4>3 DEF ProductOK, KillOK
          <5>2. CASE RuleDeps(c) # {}
            BY <5>1, <5>2, FailedDiffers DEF Known, Matches
          <5>3. CASE RuleDeps(c) = {}
            BY <1>4, <2>6, <3>1, <5>1, <5>3 DEF Known, Saved, Matches
          <5> QED
            BY <5>2, <5>3
        <4> QED
          BY <4>2, <4>3
      <3>2. started'[c] = 1
        BY <1>3, <1>11
      <3> QED
        BY <1>4, <2>3, <2>6, <3>1, <3>2 DEF KillOK
    <2>9. ~null
      BY <1>11, <2>1 DEF ProductOK, NullOK
    <2> QED
      BY <1>4, <2>3, <2>4, <2>5, <2>7, <2>8, <2>9 DEF ProductOK, NullOK
  <1>17. WorldOK' /\ DoneOK'
    BY <1>8, <1>9, WorldStep DEF KInv, DoneOK, Alive
  <1> QED
    BY <1>8, <1>14, <1>15, <1>16, <1>17, ProductsAreRules DEF KInv

\* While a rule has a child, build is not in the middle of it, and tmake does
\* not leave with 0.
LEMMA ChildBusy ==
  ASSUME FailuresReported, IInv, XInv, NEW x \in Rules, child[x] # "none"
  PROVE  /\ status[x] = "running" /\ running # {} /\ act[x].pc \in {"goal", "return"}
         /\ mode = "build" /\ act[x].pc = "return" => act[x].st = "running"
         /\ mode = "exiting" => code # 0
  <1>1. status[x] = "running" /\ running # {}
    BY DEF IInv, JobsAccounted
  <1>2. act[x].pc \in {"goal", "return"} /\ (mode = "build" /\ act[x].pc = "return" => act[x].st = "running")
    BY <1>1 DEF IInv, StatusOK, Active
  <1>3. mode = "exiting" => code # 0
    BY <1>1 DEF XInv, LeavingOK
  <1> QED
    BY <1>1, <1>2, <1>3

\* Commands that end in a child.
LEMMA ChildCacheStep ==
  ASSUME CacheSafe, IInv, XInv, KInv, NEW x \in Rules, NEW o \in Outcomes, NEW there \in BOOLEAN,
         NEW touch \in BOOLEAN, IChildExit(x, o, there, touch)
  PROVE  KInv'
  <1>1. /\ mode # "exited" /\ child[x] = "live" /\ Leaves(x, o, there)
        /\ child' = [child EXCEPT ![x] = o] /\ exists' = [exists EXCEPT ![x] = there]
        /\ UNCHANGED <<status, act, exitcode, env, mode, code, started>>
        /\ Writes(x, reads[x], o, there, touch)
        /\ UNCHANGED <<dephash, cmd, reads, text, disk, run, edited, null, fault>>
    BY DEF IChildExit, ChildExit, cache, world
  <1>2. /\ ITypeOK /\ reads[x] \in Origin
        /\ child \in [Rules -> AllOutcomes \union {"none", "live"}] /\ exists \in [Rules -> BOOLEAN]
    BY DEF KInv, ITypeOK, IInv, TypeOK
  <1>3. o # "none" /\ targets' = targets
    BY <1>1, EngineAssumption DEF EngineAssumption, AllOutcomes, env
  <1>4. /\ ver' \in [Node -> Nat] /\ made' \in [Rules -> Origin]
        /\ \A n \in Node : ver[n] <= ver'[n]
        /\ \A n \in Node \ {x} : ver'[n] = ver[n]
        /\ ~there => ver' = ver
        /\ \A r \in Rules \ {x} : made'[r] = made[r]
        /\ reads[x].whole = TRUE /\ o = "ok" /\ there => made'[x] = reads[x]
    BY <1>1, <1>2, WritesEffect, ZenonT(30)
  <1>5. ITypeOK' /\ Later /\ Alive /\ Alive'
    BY <1>1, <1>2, <1>4 DEF ITypeOK, Later, Alive
  <1>6. Next
    BY DEF IChildExit, Next, Children
  <1>7. Calm' => Calm /\ mode = "build" /\ exitcode = 0
    <2>1. Calm' => Calm
      BY <1>1 DEF Calm
    <2> QED
      BY <1>1, <2>1, SafeFacts, ChildBusy DEF Calm
  <1>8. Flying(x) /\ RuleOK(x) /\ status[x] = "running" /\ act[x].pc \in {"goal", "return"}
    BY <1>1, SafeFacts, ChildBusy DEF Flying, KInv
  <1>9. ASSUME NEW r \in Rules, Calm', Answers(r) \/ Flying(r) PROVE Hash(r)' = Hash(r)
    <2>1. x \notin RuleDeps(r)
      BY <1>7, <1>8, <1>9, NotBelow
    <2> QED
      BY <1>4, <2>1, HashElsewhere
  <1>10. ASSUME NEW r \in Rules, null PROVE Hash(r)' = Hash(r)
    <2>1. x \in HasDo
      BY <1>8 DEF RuleOK, CommandsOK
    <2>2. x \in Phony
      BY <1>8, <1>10, <2>1 DEF KInv, ProductOK, NullOK, Products
    <2>3. ver' = ver
      BY <1>1, <1>4, <2>2 DEF Leaves
    <2> QED
      BY <2>3 DEF Hash
  <1>11. ASSUME NEW r \in Rules \ {x} PROVE RuleOK(r)' /\ (r \in Products => ProductOK(r)')
    <2>1. Same(r) /\ Steady(r)
      BY <1>1, <1>2, <1>4 DEF Same, Steady, Entered, Answers
    <2>2. RuleOK(r) /\ (r \in Products => ProductOK(r))
      BY DEF KInv
    <2>3. mode' = "exiting" => act'[r].pc # "run"
      BY <1>1, <2>2 DEF RuleOK, CommandsOK
    <2> QED
      BY <1>1, <1>2, <1>3, <1>5, <1>7, <1>9, <1>10, <2>1, <2>2, <2>3, SameRule
  <1>12. Flying(x)' /\ child'[x] = o
    BY <1>1, <1>2, <1>3 DEF Flying
  <1>13. RuleOK(x)'
    <2>1. PastOK(x)'
      BY <1>1, <1>2, <1>5, <1>8, PostPast DEF RuleOK
    <2> QED
      BY <1>1, <1>3, <1>8, <1>12, <2>1 DEF RuleOK, CommandsOK, Flying
  <1>14. ASSUME x \in Products PROVE ProductOK(x)'
    <2>1. ProductOK(x) /\ PastOK(x) /\ CommandsOK(x) /\ x \notin Phony
      BY <1>8, <1>14 DEF KInv, RuleOK, Products
    <2>2. EnteredOK(x)' /\ KnownOK(x)'
      BY <1>1, <1>8, <1>12 DEF EnteredOK, Entered, DepLoops, KnownOK
    <2>3. ChildOK(x)'
      <3>1. reads[x].text = text[x] /\ reads[x].whole = TRUE
        BY <1>1, <1>2, <1>5, <2>1 DEF ProductOK, ChildOK, Origin
      <3>2. ASSUME RuleDeps(x) # {} => dephash[x] = Hash(x)' PROVE reads[x].from = Hash(x)'
        <4>1. Hash(x)' = Hash(x)
          <5>1. CASE RuleDeps(x) = {}
            BY <5>1 DEF Hash
          <5>2. CASE RuleDeps(x) # {}
            <6>1. PICK h : h = dephash[x]
              OBVIOUS
            <6> QED
              BY <1>2, <1>5, <2>1, <3>2, <5>2, <6>1, HashStable DEF PastOK
          <5> QED
            BY <5>1, <5>2
        <4> QED
          BY <1>1, <1>5, <2>1, <3>2, <4>1 DEF ProductOK, ChildOK
      <3>3. o = "ok" => IF exists'[x] THEN made'[x] = reads[x] ELSE x \in MayMiss
        BY <1>1, <1>2, <1>4, <2>1, <3>1 DEF Leaves
      <3> QED
        BY <1>1, <1>12, <3>1, <3>2, <3>3 DEF ChildOK
    <2>4. SettledOK(x)'
      <3>1. ASSUME Calm' PROVE ~Answers(x)' /\ (RuleDeps(x) # {} => dephash'[x] = Hash(x)')
        <4>1. ~Answers(x)'
          BY <1>1, <1>7, <1>8, <3>1, SafeFacts, ChildBusy DEF Answers, Settled
        <4>2. Hash(x)' = Hash(x)
          BY <1>8, <1>9, <3>1
        <4> QED
          BY <1>1, <1>5, <1>7, <1>8, <2>1, <3>1, <4>1, <4>2 DEF ProductOK, SettledOK
      <3> QED
        BY <3>1 DEF SettledOK
    <2>5. fault = "kill" => ~Saved(x) /\ ~Saved(x)'
      <3>1. fault = "kill" => ~Saved(x)
        BY <1>1, <1>5, <2>1 DEF ProductOK, KillOK, CommandsOK
      <3>2. PICK h, t : h = disk.dephash[x] /\ t = disk.cmd[x]
        OBVIOUS
      <3>3. Past(h) /\ t \in Nat /\ t <= text[x] /\ (Saved(x)' => Matches(x, h, t)')
        BY <1>1, <1>2, <2>1, <3>2 DEF PastOK, Saved, Matches, ITypeOK
      <3>4. Saved(x)' => Saved(x)
        BY <1>2, <1>5, <3>2, <3>3, MatchStable DEF Saved
      <3> QED
        BY <3>1, <3>4
    <2>6. SavedOK(x)'
      BY <1>1, <1>5, <2>5 DEF SavedOK, Alive
    <2>7. KillOK(x)'
      <3>1. started[x] # 0
        BY <1>1, <2>1 DEF CommandsOK
      <3> QED
        BY <1>1, <1>5, <1>8, <1>12, <2>1, <2>5, <3>1 DEF ProductOK, KillOK
    <2>8. ~null
      BY <1>8, <2>1 DEF ProductOK, NullOK
    <2> QED
      BY <1>1, <2>2, <2>3, <2>4, <2>6, <2>7, <2>8 DEF ProductOK, NullOK
  <1>15. WorldOK' /\ DoneOK'
    BY <1>5, <1>6, WorldStep DEF KInv, DoneOK, Alive
  <1> QED
    BY <1>5, <1>11, <1>13, <1>14, <1>15, ProductsAreRules DEF KInv

-----------------------------------------------------------------------------
(* Reaping *)

\* A step of build-sync that does not find a job to wait for.
LEMMA SpinStep ==
  ASSUME CacheSafe, IInv, XInv, KInv, SyncWait, running = {}, UNCHANGED ivars PROVE KInv'
  <1>1. UNCHANGED <<ver, made, reads, dephash, cmd, text, disk, run, edited, null, fault>>
    BY DEF ivars, cache, files, world
  <1>2. PICK c \in Rules \union {Main} :
          /\ c = cur /\ act[c].pc = "wait" /\ act' = [act EXCEPT ![c].pc = "sync"]
          /\ act \in [Rules \union {Main} -> Activation]
    BY DEF SyncWait, IInv, TypeOK
  <1>3. /\ mode = "build" /\ UNCHANGED <<mode, code, status, child, exists, exitcode, started, targets>>
    BY DEF SyncWait, Continue, env
  <1>4. Next
    BY DEF Next, Tmake
  <1>5. act'[c].pc = "sync" /\ act'[c].st = act[c].st
    BY <1>2 DEF Activation
  <1>6. ITypeOK /\ ITypeOK' /\ Later /\ Alive /\ Alive' /\ (Calm' => Calm)
    BY <1>1, <1>3 DEF KInv, ITypeOK, Later, Alive, Calm
  <1>7. ASSUME NEW r \in Rules PROVE RuleOK(r)' /\ (r \in Products => ProductOK(r)')
    <2>1. Same(r) /\ Steady(r)
      <3>1. CASE r = c
        BY <1>1, <1>2, <1>3, <1>5, <3>1 DEF Same, Steady, Entered, Answers
      <3>2. CASE r # c
        <4>1. act'[r] = act[r]
          BY <1>2, <3>2
        <4> QED
          BY <1>1, <1>3, <4>1 DEF Same, Steady, Entered, Answers
      <3> QED
        BY <3>1, <3>2
    <2>2. RuleOK(r) /\ (r \in Products => ProductOK(r)) /\ Hash(r)' = Hash(r)
      BY <1>1 DEF KInv, Hash
    <2> QED
      BY <1>1, <1>3, <1>6, <2>1, <2>2, SameRule
  <1>8. WorldOK' /\ DoneOK'
    BY <1>4, <1>6, WorldStep DEF KInv, DoneOK, Alive
  <1> QED
    BY <1>6, <1>7, <1>8, ProductsAreRules DEF KInv

\* A job is reaped: what this does beside Reaped.
LEMMA ReapWaits ==
  ASSUME CacheSafe, IInv, XInv, SlotWait \/ SyncWait \/ ExitReap, running # {}
  PROVE  \E j \in running :
           /\ Reap(j) /\ running' = running \ {j}
           /\ mode' = mode /\ code' = code /\ mode # "exited"
           /\ UNCHANGED <<env, started>>
           /\ \A r \in Rules : \/ act'[r] = act[r]
                               \/ /\ act[r].pc = "wait" /\ act'[r].pc = "sync"
                                  /\ act'[r].st = act[r].st
  <1>1. PICK j \in running : Reap(j)
    BY DEF SlotWait, SyncWait, ExitReap
  <1>2. ~QuickStop
    BY DEF CacheSafe, XInv, ForksOK
  <1>3. running' = running \ {j} /\ UNCHANGED <<mode, code>>
    BY <1>1, <1>2 DEF Reap, ExitIf, Continue
  <1>4. mode # "exited" /\ UNCHANGED <<env, started>>
    BY DEF SlotWait, SyncWait, ExitReap, Running
  <1>5. act \in [Rules \union {Main} -> Activation]
    BY DEF IInv, TypeOK
  <1>6. act' = act \/ (act[cur].pc = "wait" /\ act' = [act EXCEPT ![cur].pc = "sync"])
    BY DEF SlotWait, SyncWait, ExitReap
  <1>7. ASSUME NEW r \in Rules
        PROVE  \/ act'[r] = act[r]
               \/ act[r].pc = "wait" /\ act'[r].pc = "sync" /\ act'[r].st = act[r].st
    BY <1>5, <1>6 DEF Activation
  <1> QED
    BY <1>1, <1>3, <1>4, <1>7

\* target-post-build for the job of x: who was not calm before is not calm
\* after it.
LEMMA ReapMeans ==
  ASSUME IInv, NEW j \in running, Reap(j), NEW x, x = j.rule
  PROVE  /\ x \in Rules /\ child[x] \in Outcomes /\ child[x] # "none"
         /\ child'[x] = "none"
         /\ exists'[x] = (exists[x] /\ Produced(x, child[x] = "ok", exists[x]))
         /\ status'[x] \in {"built", "failed"}
         /\ status'[x] = "built" => Produced(x, child[x] = "ok", exists[x])
         /\ \A r \in Rules \ {x} :
              /\ child'[r] = child[r] /\ exists'[r] = exists[r]
              /\ status'[r] \in Settled => status'[r] = status[r]
  <1>1. Reaped(j)
    BY ReapEffect
  <1>2. /\ x \in Rules /\ child[x] # "none" /\ exists \in [Rules -> BOOLEAN]
        /\ status \in [Rules -> Status]
    BY <1>1 DEF Reaped, IInv, JobsAccounted, TypeOK
  <1>3. /\ child[x] \in Outcomes
        /\ exists' = [exists EXCEPT ![x] = exists[x] /\ Produced(x, child[x] = "ok", exists[x])]
    BY DEF Reap
  <1>4. status'[x] = "built" => Produced(x, child[x] = "ok", exists[x])
    <2>1. PICK n \in Rules : n = j.notify /\ n # x
      BY <1>1, <1>2 DEF Reaped
    <2>2. PICK fin \in BOOLEAN :
            LET st == [status EXCEPT ![x] = PostStatus(x, child[x] = "ok", exists[x], fin)]
            IN  status' = IF child[x] # "ok" THEN [st EXCEPT ![n] = "failed"]
                          ELSE IF pending[n] = 1 /\ st[n] = "waiting"
                          THEN [st EXCEPT ![n] = "unknown"] ELSE st
      BY <2>1 DEF Reap
    <2>3. status'[x] = PostStatus(x, child[x] = "ok", exists[x], fin)
      BY <1>2, <2>1, <2>2
    <2> QED
      BY <2>3 DEF PostStatus
  <1>5. ASSUME NEW r \in Rules \ {x}, status'[r] \in Settled PROVE status'[r] = status[r]
    BY <1>1, <1>5 DEF Reaped, Settled
  <1> QED
    BY <1>1, <1>2, <1>3, <1>4, <1>5 DEF Reaped

LEMMA ReapCacheStep ==
  ASSUME CacheSafe, IInv, XInv, KInv, IReap, running # {} PROVE KInv'
  <1>1. PICK j \in running :
          /\ Reap(j) /\ running' = running \ {j}
          /\ mode' = mode /\ code' = code /\ mode # "exited"
          /\ UNCHANGED <<env, started>>
          /\ \A r \in Rules : \/ act'[r] = act[r]
                              \/ /\ act[r].pc = "wait" /\ act'[r].pc = "sync"
                                 /\ act'[r].st = act[r].st
    BY ReapWaits DEF IReap
  <1>2. PICK x \in Rules : x = j.rule
    BY <1>1, ReapMeans
  <1>3. /\ child[x] \in Outcomes /\ child[x] # "none"
        /\ child'[x] = "none"
        /\ exists'[x] = (exists[x] /\ Produced(x, child[x] = "ok", exists[x]))
        /\ status'[x] \in {"built", "failed"}
        /\ status'[x] = "built" => Produced(x, child[x] = "ok", exists[x])
        /\ \A r \in Rules \ {x} :
             /\ child'[r] = child[r] /\ exists'[r] = exists[r]
             /\ status'[r] \in Settled => status'[r] = status[r]
    BY <1>1, <1>2, ReapMeans
  <1>4. /\ PostCache(x, child[x] = "ok", exists[x])
        /\ UNCHANGED <<ver, made, reads, text, disk, run, edited, null, fault>>
    <2>1. PICK k \in running :
            running' = running \ {k} /\ PostCache(k.rule, child[k.rule] = "ok", exists[k.rule])
      BY <1>1 DEF IReap
    <2>2. k = j
      BY <1>1, <2>1
    <2> QED
      BY <1>2, <2>1, <2>2 DEF IReap, files, world
  <1>5. ITypeOK /\ exists[x] \in BOOLEAN /\ targets' = targets
    BY <1>1 DEF KInv, IInv, TypeOK, env
  <1>6. /\ dephash' \in [Rules -> SUBSET Stamps] /\ cmd' \in [Rules -> Nat]
        /\ \A r \in Rules \ {x} : dephash'[r] = dephash[r] /\ cmd'[r] = cmd[r]
        /\ cmd'[x] = IF child[x] = "ok" /\ x \notin Phony THEN text[x] ELSE cmd[x]
        /\ dephash'[x] = IF Produced(x, child[x] = "ok", exists[x]) THEN dephash[x] ELSE FailedHash
    BY <1>4, <1>5, PostCacheEffect
  <1>7. ITypeOK' /\ Later /\ Alive /\ Alive'
    BY <1>1, <1>4, <1>5, <1>6 DEF ITypeOK, Later, Alive
  <1>8. Next
    BY DEF IReap, Next, Tmake
  <1>9. Calm' => Calm /\ mode = "build"
    BY <1>4, <1>8, SafeFacts, CalmStays
  <1>10. \A r \in Rules : Hash(r)' = Hash(r) /\ Inputs(r)' = Inputs(r)
    BY <1>4 DEF Hash, Inputs
  <1>11. /\ Flying(x) /\ RuleOK(x) /\ status[x] = "running"
         /\ act[x].pc \in {"goal", "return"} /\ act'[x] = act[x]
         /\ mode = "build" /\ act[x].pc = "return" => act[x].st = "running"
    BY <1>1, <1>3, SafeFacts, ChildBusy DEF Flying, KInv
  <1>12. ASSUME NEW r \in Rules \ {x} PROVE RuleOK(r)' /\ (r \in Products => ProductOK(r)')
    <2>1. Same(r)
      BY <1>1, <1>3, <1>4, <1>6 DEF Same
    <2>2. Steady(r)
      <3>1. CASE act'[r] = act[r]
        BY <1>3, <3>1 DEF Steady, Entered, Answers
      <3>2. CASE act[r].pc = "wait" /\ act'[r].pc = "sync" /\ act'[r].st = act[r].st
        BY <1>3, <3>2 DEF Steady, Entered, Answers
      <3> QED
        BY <1>1, <3>1, <3>2
    <2>3. RuleOK(r) /\ (r \in Products => ProductOK(r))
      BY DEF KInv
    <2>4. mode' = "exiting" => act'[r].pc # "run"
      BY <1>1, <2>2, <2>3 DEF RuleOK, CommandsOK, Steady
    <2> QED
      BY <1>4, <1>5, <1>7, <1>9, <1>10, <2>1, <2>2, <2>3, <2>4, SameRule
  <1>13. RuleOK(x)'
    <2>1. PastOK(x)'
      BY <1>4, <1>5, <1>6, <1>7, <1>11, PostPast DEF RuleOK
    <2> QED
      BY <1>1, <1>3, <1>11, <2>1 DEF RuleOK, CommandsOK, Flying
  <1>14. ASSUME x \in Products PROVE ProductOK(x)'
    <2>1. ProductOK(x) /\ CommandsOK(x) /\ x \notin Phony
      BY <1>11, <1>14 DEF KInv, RuleOK, Products
    <2>2. Produced(x, child[x] = "ok", exists[x]) <=> child[x] = "ok" /\ exists[x]
      BY <2>1 DEF Produced
    <2>3. EnteredOK(x)' /\ ChildOK(x)' /\ ~Flying(x)'
      BY <1>3, <1>11 DEF EnteredOK, Entered, DepLoops, ChildOK, Flying
    <2>4. ChildOK(x)
      BY <1>7, <2>1 DEF ProductOK
    <2>5. KnownOK(x)'
      <3>1. ASSUME exists'[x], Known(x)' PROVE made'[x] = Inputs(x)'
        <4>1. child[x] = "ok" /\ exists[x] /\ dephash'[x] = dephash[x]
          BY <1>3, <1>6, <2>2, <3>1
        <4>2. made[x] = reads[x] /\ reads[x].text = text[x] /\ reads[x].whole
          BY <2>4, <4>1 DEF ChildOK
        <4>3. reads[x].from = Hash(x)
          BY <1>3, <1>10, <2>4, <3>1, <4>1 DEF ChildOK, Known, Matches
        <4>4. reads[x] \in Origin
          BY <1>5 DEF ITypeOK
        <4>5. reads[x].whole = TRUE
          BY <4>2, <4>4 DEF Origin
        <4>6. reads[x] = [from |-> Hash(x), text |-> text[x], whole |-> TRUE]
          BY <4>2, <4>3, <4>4, <4>5 DEF Origin
        <4>7. Inputs(x)' = reads[x]
          BY <1>10, <4>6 DEF Inputs
        <4> QED
          BY <1>4, <4>2, <4>7
      <3> QED
        BY <3>1 DEF KnownOK
    <2>6. SettledOK(x)'
      <3>1. ASSUME Calm', Answers(x)' PROVE exists'[x] /\ Known(x)'
        <4>1. status'[x] = "built"
          BY <1>3, <1>9, <1>11, <3>1 DEF Answers, Settled
        <4>2. child[x] = "ok" /\ exists[x]
          BY <1>3, <2>2, <4>1
        <4>3. RuleDeps(x) # {} => dephash[x] = Hash(x)
          BY <1>7, <1>9, <1>11, <2>1, <3>1 DEF ProductOK, SettledOK
        <4> QED
          BY <1>3, <1>4, <1>6, <1>10, <2>1, <2>2, <4>2, <4>3 DEF Known, Matches
      <3> QED
        BY <2>3, <3>1 DEF SettledOK
    <2>7. fault = "kill" => ~Saved(x) /\ ~Saved(x)'
      <3>1. fault = "kill" => ~Saved(x)
        BY <1>3, <1>7, <2>1 DEF ProductOK, KillOK, CommandsOK
      <3> QED
        BY <1>4, <1>10, <3>1 DEF Saved, Matches
    <2>8. SavedOK(x)'
      BY <1>4, <1>7, <2>7 DEF SavedOK, Alive
    <2>9. KillOK(x)'
      <3>1. ASSUME fault = "kill", ~exists'[x] PROVE ~Known(x)'
        <4>1. "kill" \in Faults
          BY <1>5, <3>1 DEF ITypeOK
        <4>2. ~Produced(x, child[x] = "ok", exists[x]) /\ dephash'[x] = FailedHash
          BY <1>3, <1>6, <2>2, <3>1
        <4>3. CASE child[x] = "ok"
          <5>1. x \in MayMiss
            BY <2>2, <2>4, <4>2, <4>3 DEF ChildOK
          <5>2. RuleDeps(x) # {}
            BY <1>14, <4>1, <5>1 DEF CacheSafe, Products
          <5> QED
            BY <4>2, <5>2, FailedDiffers DEF Known, Matches
        <4>4. CASE child[x] # "ok"
          <5>1. cmd'[x] = disk.cmd[x]
            BY <1>6, <1>7, <1>11, <2>1, <3>1, <4>4 DEF ProductOK, KillOK
          <5>2. CASE RuleDeps(x) # {}
            BY <4>2, <5>2, FailedDiffers DEF Known, Matches
          <5>3. CASE RuleDeps(x) = {}
            BY <1>4, <2>7, <3>1, <5>1, <5>3 DEF Known, Saved, Matches
          <5> QED
            BY <5>2, <5>3
        <4> QED
          BY <4>3, <4>4
      <3>2. started'[x] # 0
        BY <1>1, <1>3, <2>1 DEF CommandsOK
      <3> QED
        BY <1>4, <2>3, <2>7, <3>1, <3>2 DEF KillOK
    <2>10. ~null
      BY <1>11, <2>1 DEF ProductOK, NullOK
    <2> QED
      BY <1>4, <2>3, <2>5, <2>6, <2>8, <2>9, <2>10 DEF ProductOK, NullOK
  <1>15. WorldOK' /\ DoneOK'
    BY <1>7, <1>8, WorldStep DEF KInv, DoneOK, Alive
  <1> QED
    BY <1>7, <1>12, <1>13, <1>14, <1>15, ProductsAreRules DEF KInv

-----------------------------------------------------------------------------
(* Leaving *)

\* A cache that was never written knows nothing.
LEMMA EmptyKnowsNothing ==
  ASSUME ITypeOK, NEW r \in Rules, NEW hash PROVE ~Matches(r, hash, EmptyCache.cmd[r])
  BY DEF ITypeOK, Matches, EmptyCache

\* Nothing runs when no job is left and tmake is leaving.
LEMMA NothingFlies ==
  ASSUME IInv, KInv, mode = "exiting", running = {}, NEW r \in Rules PROVE ~Flying(r)
  BY DEF IInv, JobsAccounted, KInv, RuleOK, CommandsOK, Flying

LEMMA ExitCacheStep == ASSUME CacheSafe, IInv, XInv, KInv, IExit PROVE KInv'
  <1>1. /\ mode = "exiting" /\ running = {} /\ mode' = "exited"
        /\ UNCHANGED <<status, act, child, exists, started, targets, code>>
        /\ UNCHANGED <<dephash, cmd, ver, made, reads, text, run, null, fault>>
    BY DEF IExit, Exit, WaitOver, CacheSafe, env, cache, files
  <1>2. PICK refused \in BOOLEAN :
          /\ disk' = IF refused THEN disk ELSE [dephash |-> dephash, cmd |-> cmd]
          /\ edited' = (edited \/ code # 0 \/ refused)
          /\ refused => disk = EmptyCache
    BY DEF IExit
  <1>3. ITypeOK /\ ITypeOK' /\ Later /\ Alive /\ ~Alive'
    BY <1>1, <1>2 DEF KInv, ITypeOK, Later, Alive
  <1>4. ASSUME NEW r \in Rules
        PROVE  /\ Saved(r)' <=> ~refused /\ Known(r)
               /\ ~Flying(r) /\ ~Flying(r)' /\ Inputs(r)' = Inputs(r) /\ RuleOK(r)
    <2>1. ~Flying(r) /\ ~Flying(r)' /\ Inputs(r)' = Inputs(r) /\ Hash(r)' = Hash(r) /\ RuleOK(r)
      BY <1>1, NothingFlies DEF Flying, Inputs, Hash, KInv
    <2>2. CASE refused
      <3>1. ~Matches(r, disk.dephash[r], disk.cmd[r])
        BY <1>2, <1>3, <2>2, EmptyKnowsNothing
      <3>2. ~Saved(r)'
        BY <1>1, <1>2, <2>1, <2>2, <3>1 DEF Saved, Matches
      <3> QED
        BY <2>1, <2>2, <3>2
    <2>3. CASE ~refused
      <3>1. disk'.dephash = dephash /\ disk'.cmd = cmd
        BY <1>2, <2>3
      <3>2. Saved(r)' <=> Known(r)
        BY <1>1, <2>1, <3>1 DEF Saved, Known, Matches
      <3> QED
        BY <2>1, <2>3, <3>2 DEF Saved, Known, Matches
    <2> QED
      BY <2>2, <2>3
  <1>5. ASSUME NEW r \in Rules PROVE RuleOK(r)'
    <2>1. disk' = disk \/ (disk'.dephash = dephash /\ disk'.cmd = cmd)
      BY <1>2
    <2> QED
      BY <1>1, <1>4, <2>1 DEF RuleOK, PastOK, Past, CommandsOK, Flying
  <1>6. ASSUME NEW r \in Rules, r \in Products PROVE ProductOK(r)'
    <2>1. ProductOK(r)
      BY <1>6 DEF KInv
    <2>2. SavedOK(r)'
      BY <1>1, <1>3, <1>4, <2>1 DEF ProductOK, KnownOK, SavedOK
    <2>3. KillOK(r)'
      BY <1>1, <1>3, <1>4, <2>1 DEF ProductOK, KillOK
    <2>4. NullOK(r)'
      BY <1>1, <1>3, <1>4, <2>1 DEF ProductOK, NullOK
    <2> QED
      BY <1>3, <2>2, <2>3, <2>4 DEF ProductOK
  <1>7. DoneOK'
    <2>1. ASSUME ~edited', NEW r \in Below \intersect Products PROVE exists[r] /\ Saved(r)'
      <3>1. ~edited /\ code = 0 /\ ~refused
        BY <1>2, <2>1
      <3>2. status[r] \in Settled /\ r \in Rules
        BY <1>1, <3>1, SafeFacts, ProductsAreRules DEF XInv, LeavingOK
      <3>3. SettledOK(r) /\ Calm
        BY <1>1, <1>3, <3>1 DEF KInv, ProductOK, Calm
      <3> QED
        BY <1>4, <3>1, <3>2, <3>3 DEF SettledOK, Answers
    <2>2. Below' = Below
      BY <1>1, BelowKept
    <2> QED
      BY <1>1, <2>1, <2>2 DEF DoneOK
  <1>8. WorldOK'
    <2>1. Next
      BY DEF IExit, Next, Tmake
    <2> QED
      BY <2>1, WorldStep DEF KInv
  <1> QED
    BY <1>3, <1>5, <1>6, <1>7, <1>8, ProductsAreRules DEF KInv

-----------------------------------------------------------------------------
(* The world around the runs *)

\* Edits, which never go unnoticed.
LEMMA EditCacheStep ==
  ASSUME IInv, KInv, (\E f \in Files : Edit(f)) \/ (\E r \in HasDo : EditRule(r))
  PROVE  KInv'
  <1>1. /\ UNCHANGED <<status, act, child, exists, started, targets, signal, isroot, mode>>
        /\ UNCHANGED <<dephash, cmd, made, reads, disk, fault>>
        /\ edited' = TRUE /\ (null' = FALSE \/ null' = null)
    BY DEF Edit, EditRule, vars, env, cache, files
  <1>2. ITypeOK /\ Products \subseteq Rules
    BY ProductsAreRules DEF KInv
  <1>3. ITypeOK' /\ Later /\ (text' = text \/ ~Alive)
    <2>0. edited' \in BOOLEAN /\ null' \in BOOLEAN
      BY <1>1, <1>2 DEF ITypeOK
    <2>1. CASE \E f \in Files : Edit(f)
      <3>1. PICK f \in Files : ver' = [ver EXCEPT ![f] = ver[f] + 1] /\ text' = text
        BY <2>1 DEF Edit
      <3>2. f \in Node /\ ver \in [Node -> Nat] /\ text \in [Rules -> Nat]
        BY <1>2 DEF Node, ITypeOK
      <3>3. ver' \in [Node -> Nat] /\ \A n \in Node : ver[n] <= ver'[n]
        BY <3>1, <3>2
      <3> QED
        BY <1>1, <1>2, <2>0, <3>1, <3>2, <3>3 DEF ITypeOK, Later
    <2>2. CASE \E r \in HasDo : EditRule(r)
      <3>1. PICK r \in Rules :
              text' = [text EXCEPT ![r] = text[r] + 1] /\ ver' = ver /\ mode = "exited"
        BY <2>2, EngineAssumption DEF EngineAssumption, EditRule, files
      <3>2. text \in [Rules -> Nat \ {0}] /\ ver \in [Node -> Nat]
        BY <1>2 DEF ITypeOK
      <3>3. text' \in [Rules -> Nat \ {0}] /\ \A x \in Rules : text[x] <= text'[x]
        BY <3>1, <3>2
      <3> QED
        BY <1>1, <1>2, <2>0, <3>1, <3>2, <3>3 DEF ITypeOK, Later, Alive
    <2> QED
      BY <2>1, <2>2
  <1>4. (Alive' <=> Alive) /\ ~Calm'
    BY <1>1 DEF Alive, Calm
  <1>5. ASSUME NEW r \in Rules PROVE RuleOK(r)' /\ (r \in Products => ProductOK(r)')
    <2>1. RuleOK(r) /\ (r \in Products => ProductOK(r)) /\ Same(r)
      BY <1>1 DEF KInv, Same
    <2>2. CommandsOK(r)'
      BY <1>1, <2>1 DEF RuleOK, CommandsOK, Flying
    <2>3. PastOK(r)'
      <3>1. dephash[r] \in SUBSET Stamps /\ disk.dephash[r] \in SUBSET Stamps
        BY <1>2 DEF ITypeOK
      <3>2. cmd[r] \in Nat /\ disk.cmd[r] \in Nat /\ text[r] \in Nat /\ text'[r] \in Nat /\ text[r] <= text'[r]
        BY <1>2, <1>3 DEF ITypeOK, Later
      <3> QED
        BY <1>1, <1>2, <1>3, <2>1, <3>1, <3>2, PastStable DEF RuleOK, PastOK
    <2>4. ASSUME r \in Products PROVE ProductOK(r)'
      <3>1. CacheOK(r)'
        BY <1>1, <1>2, <1>3, <1>4, <2>1, <2>4, SameCache DEF RuleOK, ProductOK, CacheOK
      <3>2. Alive => EnteredOK(r)'
        BY <1>1, <2>1, <2>4 DEF ProductOK, EnteredOK, Entered
      <3>3. SettledOK(r)'
        BY <1>4 DEF SettledOK
      <3>4. NullOK(r)'
        <4>1. CASE null' = FALSE
          BY <4>1 DEF NullOK
        <4>2. CASE null' # FALSE
          <5>1. null' = null /\ ~Alive
            BY <1>1, <4>2 DEF Edit, EditRule, Alive
          <5> QED
            BY <1>1, <1>4, <2>1, <2>4, <5>1 DEF ProductOK, NullOK, Flying
        <4> QED
          BY <4>1, <4>2
      <3> QED
        BY <1>4, <3>1, <3>2, <3>3, <3>4 DEF ProductOK, CacheOK
    <2> QED
      BY <2>2, <2>3, <2>4 DEF RuleOK
  <1>6. WorldOK' /\ DoneOK'
    BY <1>1 DEF KInv, WorldOK, DoneOK
  <1> QED
    BY <1>2, <1>3, <1>5, <1>6 DEF KInv

\* A target is deleted while no tmake runs.
LEMMA DeleteCacheStep == ASSUME IInv, KInv, NEW d \in HasDo, Delete(d) PROVE KInv'
  <1>1. /\ d \in Rules /\ fault = "delete" /\ mode = "exited"
        /\ exists' = [exists EXCEPT ![d] = FALSE] /\ edited' = TRUE
        /\ UNCHANGED <<status, act, child, started, targets, signal, isroot, mode>>
        /\ UNCHANGED <<ver, dephash, cmd, made, reads, text, disk, null, fault>>
    BY EngineAssumption DEF EngineAssumption, Delete, env, cache, files
  <1>2. ITypeOK /\ Products \subseteq Rules /\ exists \in [Rules -> BOOLEAN] /\ Phony \subseteq Rules
    BY ProductsAreRules, EngineAssumption DEF KInv, IInv, TypeOK, EngineAssumption
  <1>3. ITypeOK' /\ ~Alive /\ ~Alive'
    BY <1>1, <1>2 DEF ITypeOK, Alive
  <1>4. ASSUME NEW r \in Rules PROVE RuleOK(r)' /\ (r \in Products => ProductOK(r)')
    <2>1. RuleOK(r) /\ (r \in Products => ProductOK(r)) /\ (exists'[r] => exists[r])
      BY <1>1, <1>2 DEF KInv
    <2>2. RuleOK(r)'
      BY <1>1, <2>1 DEF RuleOK, PastOK, Past, CommandsOK, Flying
    <2>3. ASSUME r \in Products PROVE ProductOK(r)'
      <3>1. Saved(r)' = Saved(r) /\ Inputs(r)' = Inputs(r)
        BY <1>1 DEF Saved, Matches, Inputs, Hash
      <3>2. SavedOK(r)' /\ KillOK(r)'
        BY <1>1, <2>1, <2>3, <3>1 DEF ProductOK, SavedOK, KillOK
      <3>3. NullOK(r)'
        BY <1>1, <1>3, <2>1, <2>3 DEF ProductOK, NullOK, Flying
      <3> QED
        BY <1>3, <3>2, <3>3 DEF ProductOK
    <2> QED
      BY <2>2, <2>3
  <1>5. WorldOK' /\ DoneOK'
    BY <1>1, <1>2 DEF KInv, WorldOK, DoneOK
  <1> QED
    BY <1>2, <1>3, <1>4, <1>5 DEF KInv

\* A rule in flight is not known to the cache on the disk, if tmake may be killed.
LEMMA FlightUnsaved ==
  ASSUME IInv, KInv, Alive, fault = "kill", NEW r \in Products, r \in InFlight PROVE ~Saved(r)
  <1>1. r \in Rules /\ (child[r] # "none" \/ act[r].pc = "run")
    BY ProductsAreRules DEF InFlight
  <1>2. CommandsOK(r) /\ KillOK(r)
    BY <1>1 DEF KInv, RuleOK, ProductOK
  <1> QED
    BY <1>1, <1>2 DEF CommandsOK, KillOK

\* tmake and its children are killed.
LEMMA KillCacheStep ==
  ASSUME CacheSafe, IInv, KInv, NEW torn \in SUBSET InFlight, Kill(torn) PROVE KInv'
  <1>1. /\ fault = "kill" /\ Alive /\ ~Alive' /\ torn \subseteq InFlight \ Phony
        /\ fault' = "killed" /\ edited' = TRUE /\ mode' = "exited"
        /\ exists' = [r \in Rules |-> exists[r] \/ r \in torn]
        /\ ver' = [n \in Node |-> IF n \in torn THEN ver[n] + 1 ELSE ver[n]]
        /\ made' = [r \in Rules |-> IF r \in torn THEN Nothing ELSE made[r]]
        /\ UNCHANGED <<status, act, child, started, targets, signal, isroot>>
        /\ UNCHANGED <<dephash, cmd, reads, text, null>>
    BY DEF Kill, Alive, env, cache
  <1>2. \/ disk' = disk
        \/ mode = "exiting" /\ running = {} /\ disk' = EmptyCache
        \/ mode = "exiting" /\ running = {} /\ disk' = [EmptyCache EXCEPT !.cmd = cmd]
    BY DEF Kill, WaitOver, CacheSafe
  <1>3. ITypeOK /\ Products \subseteq Rules
    BY ProductsAreRules DEF KInv
  <1>4. ITypeOK' /\ Later
    <2>1. disk' \in [dephash : [Rules -> SUBSET Stamps], cmd : [Rules -> Nat]]
      BY <1>2, <1>3 DEF ITypeOK, EmptyCache, NoHash
    <2>2. Nothing \in Origin
      BY DEF Nothing, Origin, NoHash
    <2>3. made' \in [Rules -> Origin] /\ ver' \in [Node -> Nat] /\ \A n \in Node : ver[n] <= ver'[n]
      BY <1>1, <1>3, <2>2 DEF ITypeOK
    <2> QED
      BY <1>1, <1>3, <2>1, <2>3 DEF ITypeOK, Later
  <1>5. /\ mode = "exiting" /\ running = {} => torn = {} /\ ver' = ver
        /\ \A r \in torn : r \in Products
    <2>1. ASSUME NEW r \in torn PROVE Flying(r) /\ r \in Products
      <3>1. r \in Rules /\ Flying(r) /\ r \notin Phony
        BY <1>1 DEF InFlight, Flying
      <3> QED
        BY <3>1 DEF KInv, RuleOK, CommandsOK, Products
    <2>2. mode = "exiting" /\ running = {} => torn = {}
      BY <1>1, <2>1, NothingFlies DEF InFlight
    <2>3. torn = {} => ver' = ver
      BY <1>1, <1>3 DEF ITypeOK
    <2> QED
      BY <2>1, <2>2, <2>3
  <1>6. ASSUME NEW r \in Rules PROVE RuleOK(r)'
    <2>1. PastOK(r) /\ CommandsOK(r)
      BY DEF KInv, RuleOK
    <2>2. dephash[r] \in SUBSET Stamps /\ disk.dephash[r] \in SUBSET Stamps
      BY <1>3 DEF ITypeOK
    <2>3. Past(dephash[r])' /\ cmd'[r] <= text'[r]
      BY <1>1, <1>3, <1>4, <2>1, <2>2, PastStable DEF PastOK
    <2>4. Past(disk.dephash[r])' /\ disk'.cmd[r] <= text'[r]
      <3>1. CASE disk' = disk
        BY <1>1, <1>3, <1>4, <2>1, <2>2, <3>1, PastStable DEF PastOK
      <3>2. CASE disk' # disk
        <4>1. disk'.dephash[r] = {} /\ disk'.cmd[r] \in {0, cmd[r]}
          BY <1>2, <3>2 DEF EmptyCache, NoHash
        <4>2. text[r] \in Nat /\ cmd[r] <= text[r]
          BY <1>3, <2>1 DEF ITypeOK, PastOK
        <4> QED
          BY <1>1, <4>1, <4>2 DEF Past
      <3> QED
        BY <3>1, <3>2
    <2>5. CommandsOK(r)'
      BY <1>1, <2>1 DEF CommandsOK, Flying
    <2> QED
      BY <2>3, <2>4, <2>5 DEF RuleOK, PastOK
  <1>7. ASSUME NEW r \in Rules, r \in Products PROVE ProductOK(r)'
    <2>1. ProductOK(r) /\ PastOK(r)
      BY <1>7 DEF KInv, RuleOK
    <2>2. ASSUME exists'[r], Saved(r)' PROVE made'[r] = Inputs(r)'
      <3>1. CASE disk' = disk
        <4>1. PICK h, t : h = disk.dephash[r] /\ t = disk.cmd[r]
          OBVIOUS
        <4>2. Past(h) /\ t \in Nat /\ t <= text[r] /\ Matches(r, h, t)'
          BY <1>3, <2>1, <2>2, <3>1, <4>1 DEF PastOK, Saved, Matches, ITypeOK
        <4>3. Saved(r) /\ Inputs(r)' = Inputs(r)
          BY <1>3, <1>4, <4>1, <4>2, MatchStable DEF Saved
        <4>4. r \notin torn
          BY <1>1, <1>7, <4>3, FlightUnsaved
        <4> QED
          BY <1>1, <2>1, <2>2, <4>3, <4>4 DEF ProductOK, SavedOK
      <3>2. CASE disk' # disk
        <4>1. mode = "exiting" /\ running = {} /\ ver' = ver /\ torn = {}
          BY <1>2, <1>5, <3>2
        <4>2. text[r] # 0 /\ disk'.dephash[r] = {} /\ disk'.cmd[r] \in {0, cmd[r]}
          BY <1>2, <1>3, <3>2 DEF ITypeOK, EmptyCache, NoHash
        <4>3. disk'.cmd[r] = text[r] /\ (RuleDeps(r) # {} => {} = Hash(r)')
          BY <1>1, <2>2, <4>2 DEF Saved, Matches
        <4>4. RuleDeps(r) = {}
          BY <4>3, FailedDiffers DEF NoHash
        <4>5. Known(r)
          BY <4>2, <4>3, <4>4 DEF Known, Matches
        <4>6. Inputs(r)' = Inputs(r) /\ made'[r] = made[r] /\ exists[r]
          <5>1. Inputs(r)' = Inputs(r)
            BY <1>1, <4>1 DEF Inputs, Hash
          <5> QED
            BY <1>1, <2>2, <4>1, <5>1
        <4>7. ~Flying(r)
          BY <4>1, NothingFlies
        <4> QED
          BY <1>1, <2>1, <2>2, <4>5, <4>6, <4>7 DEF ProductOK, KnownOK
      <3> QED
        BY <3>1, <3>2
    <2>3. SavedOK(r)'
      BY <2>2 DEF SavedOK
    <2>4. KillOK(r)' /\ NullOK(r)'
      BY <1>1, <2>1 DEF ProductOK, KillOK, NullOK, Flying
    <2> QED
      BY <1>1, <2>3, <2>4 DEF ProductOK
  <1>8. WorldOK' /\ DoneOK'
    BY <1>1, EngineAssumption DEF EngineAssumption, KInv, WorldOK, DoneOK
  <1> QED
    BY <1>3, <1>4, <1>6, <1>7, <1>8 DEF KInv

\* tmake starts again from what it left.
LEMMA NextRunCacheStep == ASSUME IInv, KInv, NextRun PROVE KInv'
  <1>1. /\ mode = "exited" /\ mode' = "build" /\ run' = run + 1
        /\ null' = (~edited) /\ edited' = FALSE
        /\ dephash' = disk.dephash /\ cmd' = disk.cmd
        /\ status' = [r \in Rules |-> "unknown"]
        /\ child' = [r \in Rules |-> "none"] /\ started' = [r \in Rules |-> 0]
        /\ isroot' \in Users /\ targets' = targets /\ signal' = FALSE
        /\ UNCHANGED <<exists, ver, made, reads, text, disk, fault>>
    BY DEF NextRun, files
  <1>2. ITypeOK /\ Products \subseteq Rules
    BY ProductsAreRules DEF KInv
  <1>3. ITypeOK' /\ Alive' /\ ~Alive
    BY <1>1, <1>2 DEF ITypeOK, Alive
  <1>4. ASSUME NEW r \in Rules
        PROVE  /\ act'[r].pc = "goal" /\ ~Flying(r)' /\ ~Answers(r)' /\ ~Entered(r)'
               /\ Inputs(r)' = Inputs(r) /\ (Saved(r)' <=> Saved(r)) /\ (Known(r)' <=> Saved(r))
    <2>1. act'[r].pc = "goal"
      BY Names DEF NextRun, Idle
    <2>2. ~Flying(r)' /\ ~Answers(r)' /\ ~Entered(r)'
      BY <1>1, <2>1 DEF Flying, Answers, Entered, Settled, DepLoops
    <2>3. Inputs(r)' = Inputs(r) /\ (Saved(r)' <=> Saved(r)) /\ (Known(r)' <=> Saved(r))
      BY <1>1 DEF Inputs, Hash, Saved, Known, Matches
    <2> QED
      BY <2>1, <2>2, <2>3
  <1>5. ASSUME NEW r \in Rules PROVE RuleOK(r)'
    <2>1. PastOK(r)
      BY DEF KInv, RuleOK
    <2>2. PastOK(r)'
      BY <1>1, <2>1 DEF PastOK, Past
    <2>3. CommandsOK(r)'
      BY <1>1, <1>4 DEF CommandsOK
    <2> QED
      BY <2>2, <2>3 DEF RuleOK
  <1>6. ASSUME NEW r \in Rules, r \in Products PROVE ProductOK(r)'
    <2>1. ProductOK(r)
      BY <1>6 DEF KInv
    <2>2. EnteredOK(r)' /\ ChildOK(r)' /\ SettledOK(r)'
      BY <1>1, <1>4 DEF EnteredOK, ChildOK, SettledOK
    <2>3. KnownOK(r)' /\ SavedOK(r)'
      BY <1>1, <1>4, <2>1 DEF ProductOK, SavedOK, KnownOK
    <2>4. KillOK(r)'
      BY <1>1, <1>4, <2>1 DEF ProductOK, KillOK
    <2>5. NullOK(r)'
      <3>1. ASSUME null', r \in Below PROVE exists[r] /\ Saved(r)
        BY <1>1, <1>6, <3>1 DEF KInv, DoneOK
      <3> QED
        BY <1>1, <1>4, <3>1, BelowKept DEF NullOK
    <2> QED
      BY <2>2, <2>3, <2>4, <2>5 DEF ProductOK
  <1>7. WorldOK' /\ DoneOK'
    BY <1>1 DEF KInv, WorldOK, DoneOK
  <1> QED
    BY <1>2, <1>3, <1>5, <1>6, <1>7 DEF KInv

LEMMA InitCache == IInit => KInv
  <1> SUFFICES ASSUME IInit PROVE KInv
    OBVIOUS
  <1>1. /\ Init /\ exists = [r \in Rules |-> FALSE] /\ ver = [n \in Node |-> 0]
        /\ text = [r \in Rules |-> 1]
        /\ dephash = [r \in Rules |-> {}] /\ cmd = [r \in Rules |-> 0]
        /\ disk = [dephash |-> dephash, cmd |-> cmd]
        /\ made = [r \in Rules |-> Nothing] /\ reads = [r \in Rules |-> Nothing]
        /\ edited = FALSE /\ null = FALSE /\ fault \in Faults
    BY DEF IInit, EmptyCache, NoHash
  <1>2. ITypeOK
    <2>1. Nothing \in Origin
      BY DEF Nothing, Origin, NoHash
    <2>2. /\ dephash \in [Rules -> SUBSET Stamps] /\ cmd \in [Rules -> Nat]
          /\ ver \in [Node -> Nat] /\ text \in [Rules -> Nat \ {0}]
          /\ made \in [Rules -> Origin] /\ reads \in [Rules -> Origin]
      BY <1>1, <2>1
    <2>3. edited \in BOOLEAN /\ null \in BOOLEAN
      BY <1>1
    <2>4. disk \in [dephash : [Rules -> SUBSET Stamps], cmd : [Rules -> Nat]]
      BY <1>1, <2>2
    <2> QED
      BY <1>1, <2>2, <2>3, <2>4 DEF ITypeOK
  <1>3. ASSUME NEW r \in Rules PROVE ~Known(r) /\ ~Saved(r) /\ act[r].pc = "goal" /\ child[r] = "none" /\ started[r] = 0
    <2>1. cmd[r] # text[r] /\ disk.cmd[r] = cmd[r]
      BY <1>1
    <2>2. act[r].pc = "goal" /\ child[r] = "none" /\ started[r] = 0
      BY <1>1, Names DEF Init, Idle
    <2> QED
      BY <2>1, <2>2 DEF Known, Saved, Matches
  <1>4. ASSUME NEW r \in Rules PROVE RuleOK(r)
    BY <1>1, <1>3 DEF RuleOK, PastOK, Past, CommandsOK, Flying
  <1>5. ASSUME NEW r \in Rules, r \in Products PROVE ProductOK(r)
    <2>1. /\ ~exists[r] /\ ~Flying(r) /\ ~Entered(r) /\ ~Answers(r) /\ ~null
          /\ cmd[r] = disk.cmd[r] /\ dephash[r] = disk.dephash[r]
      BY <1>1, <1>3 DEF Flying, Entered, Answers, DepLoops, Init, Settled
    <2> QED
      BY <1>3, <2>1 DEF ProductOK, EnteredOK, KnownOK, ChildOK, SettledOK, SavedOK, KillOK, NullOK
  <1>6. WorldOK /\ DoneOK
    BY <1>1 DEF WorldOK, DoneOK, Init
  <1> QED
    BY <1>2, <1>4, <1>5, <1>6, ProductsAreRules DEF KInv

-----------------------------------------------------------------------------
(* The engine below the cache *)

LEMMA FreshEngine == Init' => IInv' /\ XInv'
  BY InitInvariant, InitExit, PTL

\* A new run begins as the first one did.
LEMMA NextRunFresh == ASSUME IInv, WorldOK, NextRun PROVE Init'
  BY DEF NextRun, Init, IInv, TypeOK, WorldOK

\* Deletions and kills leave the engine as it is, or dead.
LEMMA OutsideEngine ==
  ASSUME IInv, XInv, (\E r \in HasDo : Delete(r)) \/ (\E torn \in SUBSET InFlight : Kill(torn))
  PROVE  IInv' /\ XInv'
  <1>1. /\ UNCHANGED <<status, act, cur, running, pending, child, exitcode, env, started>>
        /\ UNCHANGED <<mode, code>> \/ (mode' = "exited" /\ code' = 2)
    BY DEF Delete, Kill
  <1>2. exists' \in [Rules -> BOOLEAN]
    <2>1. exists \in [Rules -> BOOLEAN]
      BY DEF IInv, TypeOK
    <2>2. CASE \E r \in HasDo : Delete(r)
      BY <2>1, <2>2 DEF Delete
    <2>3. CASE \E torn \in SUBSET InFlight : Kill(torn)
      <3>1. PICK torn \in SUBSET InFlight : exists' = [r \in Rules |-> exists[r] \/ r \in torn]
        BY <2>3 DEF Kill
      <3> QED
        BY <2>1, <3>1
    <2> QED
      BY <2>2, <2>3
  <1>3. TypeOK'
    BY <1>1, <1>2 DEF IInv, TypeOK, env
  <1>4. IInv'
    BY <1>1, <1>3, UnmovedStep
  <1>5. targets' = targets /\ Below' = Below
    BY <1>1, BelowKept DEF env
  <1>6. ForksOK' /\ GoalsOK'
    BY <1>1, <1>5 DEF XInv, ForksOK, GoalsOK, Clean, Ready
  <1>7. LeavingOK'
    BY <1>1, <1>5 DEF XInv, LeavingOK, Ready
  <1>8. ASSUME NEW r \in Rules PROVE ThroughOK(r)' /\ TouchedOK(r)'
    BY <1>1, <1>5 DEF XInv, ThroughOK, TouchedOK, Through, AllReady, Ready, Clean
  <1> QED
    BY <1>4, <1>6, <1>7, <1>8 DEF XInv

LEMMA EngineStep == ASSUME IInv, XInv, WorldOK, INext PROVE IInv' /\ XInv'
  <1>1. CASE IDecide \/ IReap \/ IFork \/ IExit \/ IOther
    <2>1. Next
      BY <1>1 DEF IDecide, Settled, IReap, IFork, IExit, IOther, Next, Tmake
    <2> QED
      BY <2>1, NextInvariant, ExitStep
  <1>2. CASE \E o \in Outcomes, there, fin, touch \in BOOLEAN : IRunSync(o, there, fin, touch)
    <2>1. Next
      BY <1>2 DEF IRunSync, Next, Tmake
    <2> QED
      BY <2>1, NextInvariant, ExitStep
  <1>3. CASE \E r \in Rules, o \in Outcomes, there, touch \in BOOLEAN : IChildExit(r, o, there, touch)
    <2>1. Next
      BY <1>3 DEF IChildExit, Next, Children
    <2> QED
      BY <2>1, NextInvariant, ExitStep
  <1>4. CASE (\E f \in Files : Edit(f)) \/ (\E r \in HasDo : EditRule(r)) \/ LastRun
    <2>1. UNCHANGED vars
      BY <1>4 DEF Edit, EditRule, LastRun, Exited
    <2> QED
      BY <2>1, StutterInvariant, ExitStep
  <1>5. CASE (\E r \in HasDo : Delete(r)) \/ (\E torn \in SUBSET InFlight : Kill(torn))
    BY <1>5, OutsideEngine
  <1>6. CASE NextRun
    BY <1>6, NextRunFresh, FreshEngine
  <1> QED
    BY <1>1, <1>2, <1>3, <1>4, <1>5, <1>6 DEF INext

LEMMA StutterCache == ASSUME KInv, UNCHANGED allvars PROVE KInv'
  <1>1. /\ UNCHANGED <<status, act, child, exists, exitcode, signal, isroot, targets, mode, code, started>>
        /\ UNCHANGED <<dephash, cmd, ver, made, reads, text, disk, run, edited, null, fault>>
    BY DEF allvars, vars, ivars, env, cache, files, world
  <1>2. Below' = Below
    BY <1>1, BelowKept
  <1>3. ASSUME NEW r \in Rules
        PROVE  /\ Hash(r)' = Hash(r) /\ Inputs(r)' = Inputs(r) /\ (Known(r)' <=> Known(r))
               /\ (Saved(r)' <=> Saved(r)) /\ (Flying(r)' <=> Flying(r))
               /\ (Answers(r)' <=> Answers(r)) /\ (Entered(r)' <=> Entered(r))
    BY <1>1 DEF Hash, Inputs, Known, Saved, Matches, Flying, Answers, Entered
  <1>4. (Alive' <=> Alive) /\ (Calm' <=> Calm)
    BY <1>1 DEF Alive, Calm
  <1>5. ASSUME NEW r \in Rules PROVE RuleOK(r)'
    BY <1>1, <1>3 DEF KInv, RuleOK, PastOK, Past, CommandsOK
  <1>6. ASSUME NEW r \in Rules, r \in Products PROVE ProductOK(r)'
    <2>1. ProductOK(r)
      BY <1>6 DEF KInv
    <2>2. /\ EnteredOK(r) => EnteredOK(r)'
          /\ KnownOK(r) => KnownOK(r)'
          /\ ChildOK(r) => ChildOK(r)'
          /\ SettledOK(r) => SettledOK(r)'
      BY <1>1, <1>3, <1>4 DEF EnteredOK, KnownOK, ChildOK, SettledOK
    <2>3. SavedOK(r)' /\ KillOK(r)' /\ NullOK(r)'
      BY <1>1, <1>2, <1>3, <1>4, <2>1 DEF ProductOK, SavedOK, KillOK, NullOK
    <2> QED
      BY <1>4, <2>1, <2>2, <2>3 DEF ProductOK
  <1>7. ITypeOK' /\ WorldOK'
    BY <1>1 DEF KInv, ITypeOK, WorldOK
  <1>8. ASSUME NEW r \in Below \intersect Products, mode' = "exited", ~edited' PROVE exists'[r] /\ Saved(r)'
    BY <1>1, <1>3, <1>8, ProductsAreRules DEF KInv, DoneOK
  <1>9. DoneOK'
    BY <1>2, <1>8 DEF DoneOK
  <1> QED
    BY <1>5, <1>6, <1>7, <1>9, ProductsAreRules DEF KInv

LEMMA CacheStep == ASSUME CacheSafe, IInv, XInv, KInv, INext PROVE KInv'
  <1>1. CASE \E o \in Outcomes, there, fin, touch \in BOOLEAN : IRunSync(o, there, fin, touch)
    BY <1>1, RunSyncCacheStep
  <1>2. CASE \E r \in Rules, o \in Outcomes, there, touch \in BOOLEAN : IChildExit(r, o, there, touch)
    BY <1>2, ChildCacheStep
  <1>3. CASE IReap
    <2>1. CASE running = {}
      <3>1. SyncWait /\ UNCHANGED ivars
        BY <1>3, <2>1 DEF IReap, SlotWait, ExitReap, ivars
      <3> QED
        BY <2>1, <3>1, SpinStep
    <2> QED
      BY <1>3, <2>1, ReapCacheStep
  <1>4. CASE IDecide \/ IFork \/ IExit \/ IOther
    BY <1>4, DecideCacheStep, ForkCacheStep, ExitCacheStep, OtherStep
  <1>5. CASE (\E f \in Files : Edit(f)) \/ (\E r \in HasDo : EditRule(r))
    BY <1>5, EditCacheStep
  <1>6. CASE \E r \in HasDo : Delete(r)
    BY <1>6, DeleteCacheStep
  <1>7. CASE \E torn \in SUBSET InFlight : Kill(torn)
    BY <1>7, KillCacheStep
  <1>8. CASE NextRun
    BY <1>8, NextRunCacheStep
  <1>9. CASE LastRun
    <2>1. UNCHANGED allvars
      BY <1>9 DEF LastRun, Exited, allvars
    <2> QED
      BY <2>1, StutterCache
  <1> QED
    BY <1>1, <1>2, <1>3, <1>4, <1>5, <1>6, <1>7, <1>8, <1>9 DEF INext

-----------------------------------------------------------------------------
(* Theorems *)

\* What the cache, the files and the engine know of each other holds in every
\* state of every sequence of runs.
THEOREM CacheInvariance == ASSUME CacheSafe PROVE ISpec => [](IInv /\ XInv /\ KInv)
  <1>1. IInit => IInv /\ XInv /\ KInv
    BY InitInvariant, InitExit, InitCache DEF IInit
  <1>2. IInv /\ XInv /\ KInv /\ [INext]_allvars => IInv' /\ XInv' /\ KInv'
    <2>1. ASSUME IInv, XInv, KInv, INext PROVE IInv' /\ XInv' /\ KInv'
      BY <2>1, EngineStep, CacheStep DEF KInv
    <2>2. ASSUME IInv, XInv, KInv, UNCHANGED allvars PROVE IInv' /\ XInv' /\ KInv'
      <3>1. UNCHANGED vars
        BY <2>2 DEF allvars
      <3> QED
        BY <2>2, <3>1, StutterInvariant, ExitStep, StutterCache
    <2> QED
      BY <2>1, <2>2
  <1> QED
    BY <1>1, <1>2, PTL DEF ISpec

\* A target that needbuild? will not rebuild in the next run is complete and was
\* made by the present commands from the present dependencies: whatever was
\* edited or deleted when, and wherever tmake and its children were killed.
THEOREM SkipIsSound == ASSUME CacheSafe PROVE ISpec => []SkipSound
  <1>1. IInv /\ XInv /\ KInv => SkipSound
    <2>1. ASSUME KInv, mode = "exited", NEW r \in HasDo \ Phony, WouldSkip(r) PROVE made[r] = Inputs(r)
      BY <2>1 DEF KInv, Products, ProductOK, SavedOK, WouldSkip, Saved
    <2> QED
      BY <2>1 DEF SkipSound
  <1> QED
    BY CacheInvariance, <1>1, PTL

\* A run of tmake that exits with 0 leaves every target below the goals made by
\* the present commands from the present dependencies.
THEOREM BuildsRight == ASSUME CacheSafe PROVE ISpec => []BuiltRight
  <1>1. IInv /\ XInv /\ KInv => BuiltRight
    <2>1. ASSUME KInv, mode = "exited", ~edited, NEW r \in Below \intersect (HasDo \ Phony)
          PROVE  exists[r] /\ made[r] = Inputs(r)
      BY <2>1 DEF KInv, DoneOK, Products, ProductOK, SavedOK
    <2> QED
      BY <2>1 DEF BuiltRight
  <1> QED
    BY CacheInvariance, <1>1, PTL

\* When nothing has changed since a run that exited with 0, needbuild? finds
\* nothing to do: no commands are started.
THEOREM NullBuilds == ASSUME CacheSafe PROVE ISpec => []NullBuild
  <1>1. IInv /\ XInv /\ KInv => NullBuild
    <2>1. ASSUME KInv, null, NEW r \in Rules \ Phony PROVE started[r] = 0
      <3>1. CASE r \in HasDo
        BY <2>1, <3>1 DEF KInv, Products, ProductOK, NullOK
      <3>2. CASE r \notin HasDo
        BY <2>1, <3>2 DEF KInv, RuleOK, CommandsOK
      <3> QED
        BY <3>1, <3>2
    <2> QED
      BY <2>1 DEF NullBuild
  <1> QED
    BY CacheInvariance, <1>1, PTL
=============================================================================
