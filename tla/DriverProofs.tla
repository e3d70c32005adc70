----------------------------- MODULE DriverProofs -----------------------------
(***************************************************************************)
(* Theorems about Driver: what a reload, a cleaning target and the end of  *)
(* tmake leave behind, for any rules, dependencies, Load files, contents   *)
(* and command lines.                                                      *)
(***************************************************************************)
EXTENDS DriverInvariant, RecursionProofs, SequenceTheorems, FiniteSetTheorems, TLAPS

-----------------------------------------------------------------------------
(* What a target needs. *)

\* The rules that are declared are those of a description.
LEMMA DeclaredIn ==
    ASSUME LoopTypeOK
    PROVE  Declared \in Descriptions /\ Declared \subseteq Rules
<1> DEFINE C == {loaded[l] : l \in {k \in LoadFiles : loaded[k] # None}}
<1>1. C \in SUBSET Contents
  BY DEF LoopTypeOK
<1>2. Declared = (Rules \ Optional) \union UNION {Declares[c] : c \in C}
  BY DEF Declared, RulesOf
<1>3. Declared \in Descriptions
  BY <1>1, <1>2 DEF Descriptions
<1>4. \A c \in C : Declares[c] \subseteq Rules
  BY <1>1, DriverAssumption DEF DriverAssumption
<1> QED
  BY <1>2, <1>3, <1>4

\* What a target needs is declared, and is in every closed set with the target.
LEMMA NeededLeast ==
    ASSUME LoopTypeOK, NEW t
    PROVE  /\ Needed(t) \subseteq Declared
           /\ \A S \in SUBSET Declared :
                t \in S /\ (\A q \in S : Deps[q] \intersect Declared \subseteq S) => Needed(t) \subseteq S
<1>1. Declared \in Descriptions
  BY DeclaredIn
<1>2. CASE t \in Declared
  <2>1. Needed(t) = {r \in Declared : \A S \in ClosedIn(Declared) : t \in S => r \in S}
    BY <1>1, <1>2 DEF Needed, Below
  <2> QED
    BY <2>1 DEF ClosedIn
<1>3. CASE t \notin Declared
  BY <1>3 DEF Needed
<1> QED
  BY <1>2, <1>3

\* Cleaning targets are only needed by cleaning targets.
LEMMA NoCleanBelow ==
    ASSUME LoopTypeOK, NEW t, t \notin CleanTargets
    PROVE  Needed(t) \intersect CleanTargets = {}
<1>1. CASE t \in Declared
  <2> DEFINE S == Declared \ CleanTargets
  <2>1. \A q \in S : Deps[q] \intersect Declared \subseteq S
    BY DeclaredIn, DriverAssumption DEF DriverAssumption
  <2>2. S \in SUBSET Declared /\ t \in S
    BY <1>1
  <2>3. Needed(t) \subseteq S
    BY <2>1, <2>2, NeededLeast
  <2> QED
    BY <2>3
<1>2. CASE t \notin Declared
  BY <1>2 DEF Needed
<1> QED
  BY <1>1, <1>2

\* A cleaning target needs phony rules only.
LEMMA CleanNeedsPhony ==
    ASSUME LoopTypeOK, NEW t \in CleanTargets
    PROVE  Needed(t) \subseteq Phony
BY DeclaredIn, DriverAssumption DEF DriverAssumption, Needed

\* The target that build-sync was called for.
LEMMA TargetClean ==
    ASSUME LoopTypeOK, CleaningOK, Calling, ~cleaning
    PROVE  Target \notin CleanTargets
<1>1. CASE pc = "load"
  <2>1. Calling => loadq # <<>>
    BY <1>1 DEF Calling
  <2>2. Target \in LoadFiles
    BY <1>1, <2>1, HeadTailProperties DEF LoopTypeOK, Target
  <2> QED
    BY <2>2, DriverAssumption DEF DriverAssumption
<1>2. CASE pc = "build"
  BY <1>2 DEF CleaningOK, Target
<1> QED
  BY <1>1, <1>2 DEF Calling

\* When the target is settled, all that it needs is, and nothing is running.
LEMMA DoneBelow ==
    ASSUME LoopTypeOK, EngineOK, exitcode = 0 \/ ~loadfailed,
           Calling, Target \in Rules, status[Target] \in Settled
    PROVE  /\ running = {}
           /\ \A r \in Needed(Target) : status[r] \in Settled
<1> DEFINE S == {r \in Declared : status[r] \in Settled}
<1>1. \A r \in Declared : status[r] \in Settled => Ready(r)
  BY DEF EngineOK
<1>2. \A q \in S : Deps[q] \intersect Declared \subseteq S
  BY <1>1 DEF Ready
<1>3. Needed(Target) \subseteq S
  <2>1. CASE Target \in Declared
    BY <1>2, <2>1, NeededLeast
  <2>2. CASE Target \notin Declared
    BY <2>2 DEF Needed
  <2> QED
    BY <2>1, <2>2
<1>4. \A r \in running : status[r] = "running" /\ r \in Needed(Target)
  BY DeclaredIn DEF EngineOK, LoopTypeOK
<1> QED
  BY <1>3, <1>4 DEF Settled

-----------------------------------------------------------------------------
(* Types. *)

\* Making or breaking a target, and reaping and starting jobs, keeps the types.
LEMMA MakeType ==
    ASSUME LoopTypeOK, NEW r \in Rules, NEW o, Make(r, o) \/ Break(r) \/ Clean(r) \/ EditConf(r)
    PROVE  /\ conf' \in [LoadFiles -> Contents \union {None}]
           /\ status' \in [Rules -> {"unknown", "uptodate", "built", "failed", "running"}]
           /\ exitcode' \in {0, 1}
<1>1. CASE Make(r, o)
  <2>1. \A l \in LoadFiles : Writes[l] \subseteq Contents
    BY DriverAssumption DEF DriverAssumption
  <2> QED
    BY <1>1, <2>1 DEF Make, LoopTypeOK
<1>2. CASE Break(r)
  BY <1>2 DEF Break, LoopTypeOK
<1>3. CASE Clean(r)
  BY <1>3 DEF Clean, LoopTypeOK
<1>4. CASE EditConf(r)
  <2>1. \A l \in LoadFiles : Writes[l] \subseteq Contents
    BY DriverAssumption DEF DriverAssumption
  <2> QED
    BY <1>4, <2>1 DEF EditConf, LoopTypeOK, files
<1> QED
  BY <1>1, <1>2, <1>3, <1>4

LEMMA TypeStep == LoopTypeOK /\ [Next]_vars => LoopTypeOK'
<1> SUFFICES ASSUME LoopTypeOK, [Next]_vars PROVE LoopTypeOK'
  OBVIOUS
<1> USE DEF LoopTypeOK
<1>1. ASSUME NEW r \in Rules, UpToDate(r) PROVE LoopTypeOK'
  BY <1>1 DEF UpToDate, spec, flags, loop
<1>2. ASSUME NEW r \in Rules, RunHere(r) PROVE LoopTypeOK'
  <2>1. Make(r, Rehashed(r)) \/ Break(r) \/ Clean(r) \/ EditConf(r)
    BY <1>2 DEF RunHere
  <2>2. resetstatus' \in BOOLEAN
    BY <1>2 DEF RunHere
  <2> QED
    BY <1>2, <2>1, <2>2, MakeType DEF RunHere, loop
<1>3. ASSUME NEW r \in Rules, Fork(r) PROVE LoopTypeOK'
  BY <1>3 DEF Fork, spec, files, flags, loop
<1>4. ASSUME NEW r \in Rules, Reap(r) PROVE LoopTypeOK'
  <2>1. Make(r, stale) \/ Break(r) \/ EditConf(r)
    BY <1>4 DEF Reap
  <2> QED
    BY <1>4, <2>1, MakeType DEF Reap, flags, loop
<1>5. ASSUME NEW r \in Rules, FailDeps(r) PROVE LoopTypeOK'
  BY <1>5 DEF FailDeps, spec, files, flags, loop
<1>6. ASSUME NextTarget PROVE LoopTypeOK'
  BY <1>6, DriverAssumption, ZenonT(30) DEF NextTarget, spec, files, engine, DriverAssumption
<1>7. ASSUME LoadPlain \/ LoadAnswer PROVE LoopTypeOK'
  <2>1. loadq # <<>> /\ loadq' = Tail(loadq)
    BY <1>7 DEF LoadPlain, LoadAnswer, Calling
  <2>2. loadq' \in Seq(LoadFiles)
    BY <2>1, HeadTailProperties
  <2> QED
    BY <1>7, <2>2 DEF LoadPlain, LoadAnswer, spec, files, engine, flags
<1>8. ASSUME LoadFails PROVE LoopTypeOK'
  <2>1. loadq' \in Seq(LoadFiles) /\ exitcode' \in {0, 1} /\ pc' \in {"load", "exit"}
    <3>1. CASE exitcode = 0
      BY <1>8, <3>1 DEF LoadFails
    <3>2. CASE exitcode # 0
      <4>1. loadq' = <<>> /\ exitcode' = exitcode /\ pc' = pc /\ pc = "load"
        BY <1>8, <3>2 DEF LoadFails
      <4> QED
        BY <4>1
    <3> QED
      BY <3>1, <3>2
  <2>2. UNCHANGED <<conf, loaded, status, running, cleaning, resetstatus>> /\ loadfailed' = TRUE
    BY <1>8 DEF LoadFails, spec, flags
  <2>3. loadfailed' \in BOOLEAN /\ cleaning' \in BOOLEAN /\ resetstatus' \in BOOLEAN
    BY <2>2
  <2> QED
    BY <2>1, <2>2, <2>3
<1>9. ASSUME Reload PROVE LoopTypeOK'
  BY <1>9, DriverAssumption DEF Reload, files, DriverAssumption
<1>10. ASSUME GiveUp PROVE LoopTypeOK'
  BY <1>10 DEF GiveUp, spec, files, flags, loop
<1>11. ASSUME DeleteOrphans PROVE LoopTypeOK'
  BY <1>11 DEF DeleteOrphans, spec, engine, flags, loop
<1>12. ASSUME GoalBuilt PROVE LoopTypeOK'
  BY <1>12 DEF GoalBuilt, spec, files, loop
<1>13. ASSUME GoalFails PROVE LoopTypeOK'
  BY <1>13 DEF GoalFails, GoalCode, spec, files, flags, loop
<1>14. ASSUME LoopDone \/ Exit \/ Gone \/ UNCHANGED vars PROVE LoopTypeOK'
  BY <1>14 DEF LoopDone, Exit, Gone, vars, spec, files, engine, flags, loop
<1>15. ASSUME NEW r \in Rules, StrayEnds(r) PROVE LoopTypeOK'
  <2>1. UNCHANGED <<loaded, status, running, exitcode, cleaning, resetstatus, pc, loadq, loadfailed>>
    BY <1>15 DEF StrayEnds, flags, loop
  <2>2. \A l \in LoadFiles : Writes[l] \subseteq Contents
    BY DriverAssumption DEF DriverAssumption
  <2>3. conf' \in [LoadFiles -> Contents \union {None}]
    BY <1>15, <2>2 DEF StrayEnds
  <2> QED
    BY <2>1, <2>3
<1> QED
  BY <1>1, <1>2, <1>3, <1>4, <1>5, <1>6, <1>7, <1>8, <1>9, <1>10, <1>11, <1>12, <1>13,
     <1>14, <1>15 DEF Next, Tmake

-----------------------------------------------------------------------------
(* The engine. *)

\* The status of a rule that is visited, or whose job is reaped, changes.
LEMMA RuleStep ==
    ASSUME LoopTypeOK, EngineOK, FailedOK, EndOK,
           NEW r \in Rules, NEW s \in {"uptodate", "built", "failed", "running"},
           exitcode = 0 \/ ~loadfailed =>
             /\ Visit(r) \/ r \in running
             /\ running' = IF s = "running" THEN running \union {r} ELSE running \ {r},
           s \in Settled \union {"running"} /\ Visit(r) => Ready(r),
           status' = [status EXCEPT ![r] = s],
           exitcode' \in {exitcode, 1},
           UNCHANGED <<loaded, targets, pc, goal, loadq, loadfailed>>
    PROVE  EngineOK' /\ FailedOK' /\ EndOK'
<1> DEFINE G == exitcode = 0 \/ ~loadfailed
<1>1. /\ Declared' = Declared
      /\ (Target)' = Target
      /\ Needed(Target)' = Needed(Target)
      /\ Calling' = Calling
  BY DEF Declared, RulesOf, Target, Needed, Calling
<1>2. (exitcode' = 0 => exitcode = 0) /\ ((exitcode' = 0 \/ ~loadfailed') => G)
  BY DEF LoopTypeOK
<1>3. Declared \subseteq Rules
  BY DeclaredIn
<1>4. ASSUME G, Calling PROVE r \in Needed(Target) /\ r \in Declared
  BY <1>4, NeededLeast DEF Visit, EngineOK
<1>5. ASSUME G PROVE Calling \/ (pc \in {"exit", "gone"} /\ exitcode # 0 /\ r \in running)
  BY <1>5 DEF EngineOK, EndOK, Visit, LoopTypeOK, Calling
<1>6. ASSUME G PROVE r \in Declared /\ status[r] \in {"unknown", "running"}
                     /\ (s \in Settled \union {"running"} => Ready(r))
  BY <1>5, <1>6, <1>4, <1>3 DEF EngineOK, Visit
<1>7. \A q \in Rules : status'[q] = IF q = r THEN s ELSE status[q]
  BY DEF LoopTypeOK
<1>8. ASSUME G, NEW q \in Declared, Ready(q) PROVE Ready(q)'
  <2>1. \A d \in Deps[q] \intersect Declared : status'[d] = status[d]
    BY <1>3, <1>6, <1>7, <1>8 DEF Ready, Settled
  <2> QED
    BY <1>8, <2>1, <1>1 DEF Ready
<1>9. EngineOK'
  <2> SUFFICES ASSUME G PROVE
        /\ \A q \in Rules : status'[q] = "running" <=> q \in running'
        /\ \A q \in Declared' : status'[q] \in Settled \union {"running"} => Ready(q)'
        /\ running' \subseteq Declared'
        /\ Calling' => running' \subseteq Needed(Target)'
        /\ pc' = "next" \/ (pc' = "load" /\ ~Calling') => running' = {}
    BY <1>2 DEF EngineOK
  <2>1. \A q \in Rules : status'[q] = "running" <=> q \in running'
    BY <1>7 DEF EngineOK
  <2>2. ASSUME NEW q \in Declared, status'[q] \in Settled \union {"running"} PROVE Ready(q)'
    <3>1. Ready(q)
      BY <1>3, <1>6, <1>7, <2>2 DEF EngineOK
    <3> QED
      BY <3>1, <1>8
  <2>3. running' \subseteq Declared
    BY <1>6 DEF EngineOK
  <2>4. Calling => running' \subseteq Needed(Target)
    BY <1>4 DEF EngineOK
  <2>5. pc = "next" \/ (pc = "load" /\ ~Calling) => running' = {}
    BY <1>5 DEF Calling
  <2> QED
    BY <2>1, <2>2, <2>3, <2>4, <2>5, <1>1
<1>10. FailedOK'
  BY <1>1, <1>2, <1>3, <1>4, <1>5, <1>7 DEF FailedOK, OnCourse, Calling
<1>11. EndOK'
  BY <1>2, <1>5 DEF EndOK, Calling
<1> QED
  BY <1>9, <1>10, <1>11


\* Rules that are visited are declared, and not cleaning targets unless tmake cleans.
LEMMA VisitOK ==
    ASSUME LoopTypeOK, CleaningOK, NEW r \in Rules, Visit(r)
    PROVE  /\ r \in Declared
           /\ ~cleaning => r \notin CleanTargets
           /\ cleaning => r \in Phony
<1>1. Calling /\ r \in Needed(Target)
  BY DEF Visit
<1>2. r \in Declared
  BY <1>1, NeededLeast
<1>3. ASSUME ~cleaning PROVE r \notin CleanTargets
  BY <1>1, <1>3, TargetClean, NoCleanBelow
<1>4. ASSUME cleaning PROVE r \in Phony
  <2>1. pc = "build" /\ goal \in CleanTargets
    BY <1>1, <1>4 DEF CleaningOK, Calling
  <2> QED
    BY <1>1, <2>1, CleanNeedsPhony DEF Target
<1> QED
  BY <1>2, <1>3, <1>4

\* The record of files after a rule has been made or broken.
LEMMA FilesStep ==
    ASSUME LoopTypeOK, FilesOK, CleaningOK, NEW r \in Rules, NEW o,
           Make(r, o) \/ Break(r) \/ (Clean(r) /\ cleaning) \/ EditConf(r),
           cleaning => r \in Phony,
           UNCHANGED <<loaded, cleaning, pc, loadfailed>>, ~loadfailed => stray' = stray
    PROVE  FilesOK'
<1>1. Declared' = Declared /\ Declared \subseteq Rules
  BY DeclaredIn DEF Declared, RulesOf
<1>2. CASE Make(r, o)
  <2>1. \A q \in Rules \ {r} : status'[q] = status[q]
    BY <1>2 DEF Make, LoopTypeOK
  <2>2. exists' = exists \union ({r} \ Phony) /\ cached' = Record(r)
    BY <1>2 DEF Make
  <2>3. ~loadfailed' => exists' \subseteq cached' /\ stray' = {}
    BY <2>2 DEF Record, FilesOK
  <2>4. {q \in Declared \ Phony : status'[q] \in Settled} \ {r} \subseteq {q \in Declared \ Phony : status[q] \in Settled}
    BY <1>1, <2>1
  <2> QED
    BY <1>1, <2>2, <2>3, <2>4 DEF FilesOK
<1>3. CASE Break(r)
  <2>1. \A q \in Rules : status'[q] = IF q = r THEN "failed" ELSE status[q]
    BY <1>3 DEF Break, LoopTypeOK
  <2>2. exists' = exists \ {r} /\ cached' = cached
    BY <1>3 DEF Break
  <2>3. {q \in Declared \ Phony : status'[q] \in Settled} \subseteq {q \in Declared \ Phony : status[q] \in Settled} \ {r}
    BY <1>1, <2>1 DEF Settled
  <2> QED
    BY <1>1, <2>2, <2>3 DEF FilesOK
<1>4. CASE Clean(r) /\ cleaning
  BY <1>4 DEF Clean, FilesOK
<1>5. CASE EditConf(r)
  <2>1. \A q \in Rules \ {r} : status'[q] = status[q]
    BY <1>5 DEF EditConf, LoopTypeOK
  <2>2. r \in Phony /\ exists' = exists /\ cached' = cached
    BY <1>5, DriverAssumption DEF EditConf, files, DriverAssumption
  <2>3. {q \in Declared \ Phony : status'[q] \in Settled} = {q \in Declared \ Phony : status[q] \in Settled}
    BY <1>1, <2>1, <2>2
  <2> QED
    BY <1>1, <2>2, <2>3 DEF FilesOK
<1> QED
  BY <1>2, <1>3, <1>4, <1>5


\* What tmake does while build-sync is called, and the end of jobs.
LEMMA EngineSteps ==
    ASSUME IInv, NEW r \in Rules, UpToDate(r) \/ RunHere(r) \/ Fork(r) \/ Reap(r) \/ FailDeps(r)
    PROVE  EngineOK' /\ FailedOK' /\ EndOK' /\ CleaningOK' /\ FilesOK'
<1> USE DEF IInv
<1>1. Declared \subseteq Rules /\ Declared' = Declared
  BY DeclaredIn DEF UpToDate, RunHere, Fork, Reap, FailDeps, spec, Declared, RulesOf
<1>2. ASSUME Visit(r), exitcode = 0 \/ ~loadfailed PROVE r \notin running
  BY <1>2 DEF EngineOK, Visit
<1>3. CASE UpToDate(r)
  <2>1. /\ Visit(r) /\ Ready(r) /\ r \in exists
        /\ status' = [status EXCEPT ![r] = "uptodate"]
        /\ UNCHANGED <<loaded, exists, cached, running, stray, exitcode, cleaning, targets, pc, goal, loadq, loadfailed>>
    BY <1>3 DEF UpToDate, spec, files, flags, loop
  <2>2. EngineOK' /\ FailedOK' /\ EndOK'
    <3>1. exitcode = 0 \/ ~loadfailed => running' = running \ {r}
      BY <1>2, <2>1
    <3> QED
      BY <2>1, <3>1, RuleStep
  <2>3. CleaningOK'
    BY <2>1 DEF CleaningOK
  <2>4. FilesOK'
    <3>1. \A q \in Rules \ {r} : status'[q] = status[q]
      BY <2>1 DEF LoopTypeOK
    <3> QED
      BY <1>1, <2>1, <3>1 DEF FilesOK
  <2> QED
    BY <2>2, <2>3, <2>4
<1>4. CASE RunHere(r)
  <2>1. /\ Visit(r) /\ Ready(r)
        /\ Make(r, Rehashed(r)) \/ Break(r) \/ Clean(r) \/ EditConf(r)
        /\ r \in CleanTargets \/ ~Clean(r)
        /\ UNCHANGED <<loaded, running, stray, cleaning, targets, pc, goal, loadq, loadfailed>>
    BY <1>4 DEF RunHere, OutOfDate, loop, Clean
  <2>2. PICK s \in {"built", "failed"} : status' = [status EXCEPT ![r] = s]
    BY <2>1 DEF Make, Break, Clean, EditConf
  <2>3. exitcode' \in {exitcode, 1}
    BY <2>1 DEF Make, Break, Clean, EditConf
  <2>4. EngineOK' /\ FailedOK' /\ EndOK'
    <3>1. exitcode = 0 \/ ~loadfailed => running' = running \ {r}
      BY <1>2, <2>1
    <3> QED
      BY <2>1, <2>2, <2>3, <3>1, RuleStep
  <2>5. CleaningOK'
    BY <2>1 DEF CleaningOK
  <2>6. FilesOK'
    <3>1. (cleaning => r \in Phony) /\ (Clean(r) => cleaning)
      BY <2>1, VisitOK
    <3> QED
      BY <2>1, <3>1, FilesStep
  <2> QED
    BY <2>4, <2>5, <2>6
<1>5. CASE Fork(r)
  <2>1. /\ Visit(r) /\ Ready(r)
        /\ status' = [status EXCEPT ![r] = "running"]
        /\ running' = running \union {r}
        /\ UNCHANGED <<loaded, exists, cached, stray, exitcode, cleaning, targets, pc, goal, loadq, loadfailed>>
    BY <1>5 DEF Fork, OutOfDate, spec, files, flags, loop
  <2>2. EngineOK' /\ FailedOK' /\ EndOK'
    BY <2>1, RuleStep
  <2>3. CleaningOK'
    BY <2>1, VisitOK DEF CleaningOK
  <2>4. FilesOK'
    <3>1. \A q \in Rules : status'[q] = IF q = r THEN "running" ELSE status[q]
      BY <2>1 DEF LoopTypeOK
    <3>2. {q \in Declared \ Phony : status'[q] \in Settled} \subseteq {q \in Declared \ Phony : status[q] \in Settled}
      BY <1>1, <3>1 DEF Settled
    <3> QED
      BY <1>1, <2>1, <3>2 DEF FilesOK
  <2> QED
    BY <2>2, <2>3, <2>4
<1>6. CASE Reap(r)
  <2>1. /\ r \in running /\ running' = running \ {r}
        /\ Make(r, stale) \/ Break(r) \/ EditConf(r)
        /\ UNCHANGED <<loaded, stray, cleaning, targets, pc, goal, loadq, loadfailed>>
    BY <1>6 DEF Reap, flags, loop
  <2>2. PICK s \in {"built", "failed"} : status' = [status EXCEPT ![r] = s]
    BY <2>1 DEF Make, Break, EditConf
  <2>3. exitcode' \in {exitcode, 1}
    BY <2>1 DEF Make, Break, EditConf
  <2>4. EngineOK' /\ FailedOK' /\ EndOK'
    <3>1. CASE Visit(r)
      <4>1. ~(exitcode = 0 \/ ~loadfailed)
        BY <1>2, <2>1, <3>1
      <4> QED
        BY <2>3, <2>1, <4>1 DEF EngineOK, FailedOK, OnCourse, EndOK, LoopTypeOK
    <3>2. CASE ~Visit(r)
      BY <2>1, <2>2, <2>3, <3>2, RuleStep
    <3> QED
      BY <3>1, <3>2
  <2>5. CleaningOK'
    BY <2>1 DEF CleaningOK
  <2>6. FilesOK'
    <3>1. cleaning => r \in Phony
      BY <2>1 DEF CleaningOK
    <3> QED
      BY <2>1, <3>1, FilesStep
  <2> QED
    BY <2>4, <2>5, <2>6
<1>7. CASE FailDeps(r)
  <2>1. /\ Visit(r)
        /\ status' = [status EXCEPT ![r] = "failed"]
        /\ exitcode' \in {exitcode, 1}
        /\ UNCHANGED <<loaded, exists, cached, running, stray, cleaning, targets, pc, goal, loadq, loadfailed>>
    BY <1>7 DEF FailDeps, spec, files, flags, loop
  <2>2. EngineOK' /\ FailedOK' /\ EndOK'
    <3>1. exitcode = 0 \/ ~loadfailed => running' = running \ {r}
      BY <1>2, <2>1
    <3>2. "failed" \notin Settled \union {"running"}
      BY DEF Settled
    <3> QED
      BY <2>1, <3>1, <3>2, RuleStep
  <2>3. CleaningOK'
    BY <2>1 DEF CleaningOK
  <2>4. FilesOK'
    <3>1. \A q \in Rules : status'[q] = IF q = r THEN "failed" ELSE status[q]
      BY <2>1 DEF LoopTypeOK
    <3>2. {q \in Declared \ Phony : status'[q] \in Settled} \subseteq {q \in Declared \ Phony : status[q] \in Settled}
      BY <1>1, <3>1 DEF Settled
    <3> QED
      BY <1>1, <2>1, <3>2 DEF FilesOK
  <2> QED
    BY <2>2, <2>3, <2>4
<1> QED
  BY <1>3, <1>4, <1>5, <1>6, <1>7

-----------------------------------------------------------------------------
(* The loop of make. *)

\* A step that changes neither statuses nor jobs nor what is declared, and is
\* made when there are none that run, or on the way out.
LEMMA QuietStep ==
    ASSUME EngineOK, UNCHANGED <<loaded, status, running>>,
           exitcode' = 0 \/ ~loadfailed' => exitcode = 0 \/ ~loadfailed,
           exitcode' = 0 \/ ~loadfailed' => running = {} \/ pc' \in {"exit", "gone"},
           OnCourse' => \A r \in Declared : status[r] # "failed"
    PROVE  EngineOK' /\ FailedOK'
<1>1. Declared' = Declared
  BY DEF Declared, RulesOf
<1>2. \A q \in Declared : Ready(q) => Ready(q)'
  BY <1>1 DEF Ready
<1>3. FailedOK'
  BY <1>1 DEF FailedOK
<1>4. EngineOK'
  <2> SUFFICES ASSUME exitcode' = 0 \/ ~loadfailed' PROVE
        /\ \A q \in Rules : status[q] = "running" <=> q \in running
        /\ \A q \in Declared : status[q] \in Settled \union {"running"} => Ready(q)'
        /\ running \subseteq Declared
        /\ Calling' => running \subseteq Needed(Target)'
        /\ pc' = "next" \/ (pc' = "load" /\ ~Calling') => running = {}
    BY <1>1 DEF EngineOK
  <2>1. Calling' => running \subseteq Needed(Target)'
    BY DEF Calling
  <2>2. pc' = "next" \/ (pc' = "load" /\ ~Calling') => running = {}
    OBVIOUS
  <2> QED
    BY <1>2, <2>1, <2>2 DEF EngineOK
<1> QED
  BY <1>3, <1>4

\* All statuses are forgotten when nothing runs.
LEMMA ForgetStep ==
    ASSUME status' = [r \in Rules |-> "unknown"], running' = {}, Declared' \subseteq Rules
    PROVE  EngineOK' /\ FailedOK'
<1>1. \A r \in Rules : status'[r] = "unknown"
  OBVIOUS
<1>2. FailedOK'
  BY <1>1 DEF FailedOK
<1>3. EngineOK'
  BY <1>1 DEF EngineOK, Settled
<1> QED
  BY <1>2, <1>3

\* When the target is settled, no rule has failed unless there was an error.
LEMMA NoneFailed ==
    ASSUME LoopTypeOK, EngineOK, FailedOK, OnCourse, Calling => status[Target] \in Settled /\ Target \in Rules
    PROVE  \A r \in Declared : status[r] # "failed"
<1>1. CASE Calling
  <2>1. \A r \in Needed(Target) : status[r] \in Settled
    BY <1>1, DoneBelow DEF OnCourse
  <2> QED
    BY <2>1 DEF FailedOK, Settled
<1>2. CASE ~Calling
  BY <1>2 DEF FailedOK
<1> QED
  BY <1>1, <1>2

LEMMA NextTargetStep ==
    ASSUME IInv, NextTarget PROVE EngineOK' /\ FailedOK' /\ EndOK' /\ CleaningOK' /\ FilesOK'
<1> USE DEF IInv
<1>1. /\ pc = "next" /\ exitcode = 0
      /\ UNCHANGED <<loaded, exists, cached, stray, status, running, exitcode, loadfailed>>
      /\ \/ goal' \in CleanTargets /\ cleaning' = TRUE /\ pc' = "build"
         \/ goal' \notin CleanTargets /\ cleaning' = cleaning /\ pc' = "load"
  BY DEF NextTarget, spec, files, engine
<1>2. running = {} /\ ~cleaning
  BY <1>1 DEF EngineOK, CleaningOK
<1>3. \A r \in Declared : status[r] # "failed"
  BY <1>1, NoneFailed DEF Calling, OnCourse
<1>4. EngineOK' /\ FailedOK'
  BY <1>1, <1>2, <1>3, QuietStep
<1>5. EndOK' /\ CleaningOK'
  BY <1>1, <1>2 DEF EndOK, CleaningOK
<1>6. FilesOK'
  <2>1. Declared' = Declared
    BY <1>1 DEF Declared, RulesOf
  <2> QED
    BY <1>1, <1>2, <2>1 DEF FilesOK
<1> QED
  BY <1>4, <1>5, <1>6

LEMMA LoadSteps ==
    ASSUME IInv, LoadPlain \/ LoadAnswer \/ LoadFails
    PROVE  EngineOK' /\ FailedOK' /\ EndOK' /\ CleaningOK' /\ FilesOK'
<1> USE DEF IInv
<1>1. /\ pc = "load" /\ pc' \in {"load", "exit"}
      /\ UNCHANGED <<loaded, exists, cached, stray, status, running, cleaning, goal>>
  BY DEF LoadPlain, LoadAnswer, LoadFails, spec, files, engine, flags
<1>2. EngineOK' /\ FailedOK' /\ EndOK' /\ (loadfailed => loadfailed')
  <2>1. CASE LoadPlain
    <3>1. ~Calling /\ UNCHANGED <<exitcode, loadfailed, pc>>
      BY <2>1 DEF LoadPlain, Calling, engine
    <3>2. OnCourse => \A r \in Declared : status[r] # "failed"
      BY <3>1, NoneFailed
    <3>3. exitcode = 0 \/ ~loadfailed => running = {}
      BY <1>1, <3>1 DEF EngineOK
    <3>4. EngineOK' /\ FailedOK'
      BY <1>1, <3>1, <3>2, <3>3, QuietStep DEF OnCourse
    <3> QED
      BY <1>1, <3>1, <3>4 DEF EndOK
  <2>2. CASE LoadAnswer
    <3>1. Calling /\ status[Target] \in Settled /\ UNCHANGED <<exitcode, loadfailed, pc>>
      BY <2>2 DEF LoadAnswer, engine
    <3>2. Target \in Rules
      BY <1>1, <3>1 DEF Calling, Target
    <3>3. OnCourse => \A r \in Declared : status[r] # "failed"
      BY <3>1, <3>2, NoneFailed
    <3>4. exitcode = 0 \/ ~loadfailed => running = {}
      BY <3>1, <3>2, DoneBelow
    <3>5. EngineOK' /\ FailedOK'
      BY <1>1, <3>1, <3>3, <3>4, QuietStep DEF OnCourse
    <3> QED
      BY <1>1, <3>1, <3>5 DEF EndOK
  <2>3. CASE LoadFails
    <3>1. loadfailed' = TRUE /\ exitcode' # 0
      <4>1. CASE exitcode = 0
        BY <2>3, <4>1 DEF LoadFails
      <4>2. CASE exitcode # 0
        BY <2>3, <4>2 DEF LoadFails
      <4> QED
        BY <4>1, <4>2
    <3> QED
      BY <3>1 DEF EngineOK, FailedOK, OnCourse, EndOK
  <2> QED
    BY <2>1, <2>2, <2>3
<1>3. CleaningOK'
  BY <1>1 DEF CleaningOK
<1>4. FilesOK'
  <2>1. Declared' = Declared
    BY <1>1 DEF Declared, RulesOf
  <2> QED
    BY <1>1, <1>2, <2>1 DEF FilesOK
<1> QED
  BY <1>2, <1>3, <1>4

LEMMA ReloadStep ==
    ASSUME IInv, Reload PROVE EngineOK' /\ FailedOK' /\ EndOK' /\ CleaningOK' /\ FilesOK'
<1> USE DEF IInv
<1>1. /\ pc = "load" /\ loadq = <<>>
      /\ status' = [r \in Rules |-> "unknown"] /\ running' = {} /\ cleaning' = FALSE
      /\ stray' = stray \union running
      /\ UNCHANGED <<exists, cached, pc, goal, loadfailed>>
  BY DEF Reload, LoadsDone, files
<1>2. LoopTypeOK'
  BY TypeStep DEF Next, Tmake
<1>3. Declared' \subseteq Rules
  BY <1>2, DeclaredIn, DriverAssumption DEF Declared, RulesOf, DriverAssumption, LoopTypeOK
<1>4. EngineOK' /\ FailedOK'
  BY <1>1, <1>3, ForgetStep
<1>5. EndOK' /\ CleaningOK'
  BY <1>1 DEF EndOK, CleaningOK
<1>6. FilesOK'
  <2>1. ~loadfailed => running = {}
    BY <1>1 DEF EngineOK, Calling
  <2>2. {r \in Declared' \ Phony : status'[r] \in Settled} = {}
    BY <1>1, <1>3 DEF Settled
  <2> QED
    BY <1>1, <2>1, <2>2 DEF FilesOK
<1> QED
  BY <1>4, <1>5, <1>6

LEMMA DeleteOrphansStep ==
    ASSUME IInv, DeleteOrphans PROVE EngineOK' /\ FailedOK' /\ EndOK' /\ CleaningOK' /\ FilesOK'
<1> USE DEF IInv
<1>1. /\ pc = "load" /\ ~Calling /\ pc' = "build"
      /\ exists' = exists \ Orphans /\ cached' = cached \ Orphans
      /\ UNCHANGED <<loaded, stray, status, running, exitcode, cleaning, goal, loadfailed>>
  BY DEF DeleteOrphans, LoadsDone, Calling, spec, engine, flags, loop
<1>2. OnCourse => \A r \in Declared : status[r] # "failed"
  BY <1>1, NoneFailed
<1>3. EngineOK' /\ FailedOK'
  BY <1>1, <1>2, QuietStep DEF EngineOK, OnCourse
<1>4. EndOK' /\ CleaningOK'
  BY <1>1 DEF EndOK, CleaningOK
<1>5. FilesOK'
  <2>1. Declared' = Declared
    BY <1>1 DEF Declared, RulesOf
  <2> QED
    BY <1>1, <2>1 DEF FilesOK, Orphans
<1> QED
  BY <1>3, <1>4, <1>5

LEMMA GoalBuiltStep ==
    ASSUME IInv, GoalBuilt PROVE EngineOK' /\ FailedOK' /\ EndOK' /\ CleaningOK' /\ FilesOK'
<1> USE DEF IInv
<1>1. /\ pc = "build" /\ goal \in Declared /\ status[goal] \in Settled
      /\ status' = IF Forgets THEN [r \in Rules |-> "unknown"] ELSE status
      /\ cleaning' = FALSE /\ pc' = "next"
      /\ UNCHANGED <<loaded, exists, cached, stray, running, exitcode, loadfailed>>
  BY DEF GoalBuilt, spec, files, loop
<1>2. Calling /\ Target = goal /\ Target \in Rules
  BY <1>1, DeclaredIn DEF Calling, Target
<1>3. exitcode = 0 \/ ~loadfailed => running = {}
  BY <1>1, <1>2, DoneBelow
<1>4. OnCourse => \A r \in Declared : status[r] # "failed"
  BY <1>1, <1>2, NoneFailed
<1>5. EngineOK' /\ FailedOK'
  <2>1. CASE ~Forgets
    <3>1. status' = status
      BY <1>1, <2>1
    <3> QED
      BY <1>1, <1>3, <1>4, <3>1, QuietStep DEF OnCourse
  <2>2. CASE Forgets
    <3>1. status' = [r \in Rules |-> "unknown"]
      BY <1>1, <2>2
    <3>2. Declared' \subseteq Rules
      BY <1>1, DeclaredIn DEF Declared, RulesOf
    <3>3. CASE exitcode = 0 \/ ~loadfailed
      BY <1>1, <1>3, <3>1, <3>2, <3>3, ForgetStep
    <3>4. CASE ~(exitcode = 0 \/ ~loadfailed)
      BY <1>1, <3>4 DEF EngineOK, FailedOK, OnCourse
    <3> QED
      BY <3>3, <3>4
  <2> QED
    BY <2>1, <2>2
<1>6. EndOK' /\ CleaningOK'
  BY <1>1 DEF EndOK, CleaningOK
<1>7. FilesOK'
  <2>1. Declared' = Declared /\ Declared \subseteq Rules
    BY <1>1, DeclaredIn DEF Declared, RulesOf
  <2>2. CASE Forgets
    BY <1>1, <2>1, <2>2 DEF FilesOK, Settled
  <2>3. CASE ~Forgets
    BY <1>1, <2>1, <2>3 DEF FilesOK, Forgets
  <2> QED
    BY <2>2, <2>3
<1> QED
  BY <1>5, <1>6, <1>7

LEMMA EndSteps ==
    ASSUME IInv, GiveUp \/ GoalFails \/ LoopDone \/ Exit
    PROVE  EngineOK' /\ FailedOK' /\ EndOK' /\ CleaningOK' /\ FilesOK'
<1> USE DEF IInv
<1>1. /\ pc' \in {"exit", "gone"}
      /\ UNCHANGED <<loaded, exists, cached, stray, status, running, cleaning, targets, loadfailed>>
  BY DEF GiveUp, GoalFails, LoopDone, Exit, spec, files, engine, flags, loop
<1>2. exitcode' = 0 => exitcode = 0 /\ ~Calling /\ targets = <<>> /\ running = {}
  BY DEF GiveUp, GoalFails, GoalCode, LoopDone, Exit, engine, Calling, EngineOK, EndOK
<1>3. OnCourse' => \A r \in Declared : status[r] # "failed"
  BY <1>1, <1>2, NoneFailed DEF OnCourse
<1>4. EngineOK' /\ FailedOK'
  BY <1>1, <1>2, <1>3, QuietStep
<1>5. EndOK' /\ CleaningOK' /\ FilesOK'
  BY <1>1, <1>2 DEF EndOK, CleaningOK, FilesOK
<1> QED
  BY <1>4, <1>5

\* Children that are forgotten, and steps that change nothing.
LEMMA StrayStep ==
    ASSUME IInv, (\E r \in Rules : StrayEnds(r)) \/ Gone \/ UNCHANGED vars
    PROVE  EngineOK' /\ FailedOK' /\ EndOK' /\ CleaningOK' /\ FilesOK'
<1> USE DEF IInv
<1>1. /\ UNCHANGED <<loaded, cached, status, running, exitcode, cleaning, targets, pc, goal, loadq, loadfailed>>
      /\ exists \subseteq exists'
      /\ ~loadfailed => UNCHANGED <<exists, stray>>
  BY DEF StrayEnds, Gone, vars, spec, files, engine, flags, loop, FilesOK
<1>2. /\ Declared' = Declared
      /\ Needed(Target)' = Needed(Target)
      /\ Calling' = Calling
  BY <1>1 DEF Declared, RulesOf, Target, Needed, Calling
<1>3. \A q \in Rules : Ready(q)' <=> Ready(q)
  BY <1>1, <1>2 DEF Ready
<1>4. EngineOK'
  BY <1>1, <1>2, <1>3, DeclaredIn DEF EngineOK
<1>5. FailedOK' /\ EndOK' /\ CleaningOK' /\ FilesOK'
  BY <1>1, <1>2 DEF FailedOK, OnCourse, EndOK, CleaningOK, FilesOK
<1> QED
  BY <1>4, <1>5

-----------------------------------------------------------------------------
(* The theorems. *)

LEMMA InitIInv == Init => IInv
<1> SUFFICES ASSUME Init PROVE IInv
  OBVIOUS
<1>1. LoopTypeOK
  <2>1. conf \in [LoadFiles -> Contents \union {None}] /\ loaded = conf
    BY DriverAssumption DEF Init, DriverAssumption
  <2>2. /\ status = [r \in Rules |-> "unknown"] /\ running = {} /\ loadq = <<>>
        /\ exitcode = 0 /\ pc = "next"
        /\ cleaning = FALSE /\ resetstatus = FALSE /\ loadfailed = FALSE
    BY DEF Init
  <2>3. loadq \in Seq(LoadFiles)
    BY <2>2
  <2>4. cleaning \in BOOLEAN /\ resetstatus \in BOOLEAN /\ loadfailed \in BOOLEAN
    BY <2>2
  <2> QED
    BY <2>1, <2>2, <2>3, <2>4 DEF LoopTypeOK
<1>2. Declared \subseteq Rules
  BY <1>1, DeclaredIn
<1>3. \A r \in Rules : status[r] = "unknown"
  BY DEF Init
<1>4. EngineOK /\ FailedOK /\ EndOK /\ CleaningOK /\ FilesOK
  BY <1>2, <1>3 DEF Init, EngineOK, FailedOK, EndOK, CleaningOK, FilesOK, Calling, Settled
<1> QED
  BY <1>1, <1>4 DEF IInv

\* The invariant holds in every state that tmake can be in.
THEOREM LoopInvariance == Spec => []IInv
<1>1. ASSUME IInv, [Next]_vars PROVE IInv'
  <2>1. LoopTypeOK'
    BY <1>1, TypeStep DEF IInv
  <2>2. EngineOK' /\ FailedOK' /\ EndOK' /\ CleaningOK' /\ FilesOK'
    BY <1>1, EngineSteps, NextTargetStep, LoadSteps, ReloadStep, DeleteOrphansStep,
       GoalBuiltStep, EndSteps, StrayStep DEF Next, Tmake
  <2> QED
    BY <2>1, <2>2 DEF IInv
<1> QED
  BY InitIInv, <1>1, PTL DEF Spec

\* Reloading restores the array tmake as it was saved (565-568), the list of jobs
\* with it; when it does, no job is running unless a Load file had failed.
THEOREM ReloadKeepsJobs == Spec => []JobsKept
<1>1. IInv => JobsKept
  BY DEF IInv, FilesOK, JobsKept
<1> QED
  BY LoopInvariance, <1>1, PTL

\* Files that are left of rules no longer declared are recorded (1357-1368,
\* 3135), so that they are deleted as orphans, however often tmake reloads.
THEOREM OrphansAreKnown == Spec => []KnownFiles
<1>1. IInv => KnownFiles
  BY DEF IInv, FilesOK, KnownFiles
<1> QED
  BY LoopInvariance, <1>1, PTL

\* While anything but a cleaning target is built, the files of the rules that
\* count as done are there: cleaning resets every status (605-612).
THEOREM CleaningForgets == Spec => []CleanForgets
<1>1. IInv => CleanForgets
  BY DEF IInv, FilesOK, CleanForgets
<1> QED
  BY LoopInvariance, <1>1, PTL

\* tmake exits with 0 only when all targets, also those that were added, are
\* built and no rule has failed (587-596, 614-623).
THEOREM ExitIsHonest == Spec => []HonestExit
<1>1. IInv => HonestExit
  BY DEF IInv, FailedOK, OnCourse, EndOK, HonestExit, Calling
<1> QED
  BY LoopInvariance, <1>1, PTL

-----------------------------------------------------------------------------
(* The types of all variables. *)

\* The targets that are added are rules, like those that are left.
LEMMA MergedType ==
    ASSUME added \in Seq(Rules), targets \in Seq(Rules)
    PROVE  Merged \in Seq(Rules)
<1>1. PICK T : T = Seq(Rules)
  OBVIOUS
<1>2. PICK n \in Nat : n = Len(added) /\ \A i \in 1 .. n : added[i] \in Rules
  BY LenProperties
<1>3. PICK e \in T : e = <<>>
  BY <1>1, EmptySeq
<1> DEFINE Known(x) == {targets[k] : k \in DOMAIN targets} \union {x[k] : k \in DOMAIN x}
           After(x, i) == IF added[i] \in Known(x) THEN x ELSE Append(x, added[i])
           F == [i \in 1 .. n |-> [x \in T |-> After(x, i)]]
           E(g) == [i \in 0 .. n |-> IF i = 0 THEN e ELSE After(g[i - 1], i)]
<1>4. \A i \in 1 .. n : \A x \in T : After(x, i) \in T
  BY <1>1, <1>2, AppendProperties
<1>5. F \in [1 .. n -> [T -> T]]
  <2> HIDE DEF After
  <2> QED
    BY <1>4
<1>6. PICK f \in [0 .. n -> T] : Recursive(f, n, e, F)
  <2> HIDE DEF F
  <2> QED
    BY <1>3, <1>5, RecursionExists
<1>7. ASSUME NEW i \in 0 .. n PROVE f[i] = IF i = 0 THEN e ELSE After(f[i - 1], i)
  <2> HIDE DEF After
  <2>1. CASE i = 0
    BY <1>6, <2>1 DEF Recursive
  <2>2. CASE i # 0
    <3>1. i \in 1 .. n /\ i - 1 \in 0 .. n
      BY <2>2
    <3>2. f[i] = F[i][f[i - 1]] /\ f[i - 1] \in T
      BY <1>6, <3>1 DEF Recursive
    <3> QED
      BY <2>2, <3>1, <3>2
  <2> QED
    BY <2>1, <2>2
<1>8. f = E(f)
  <2> HIDE DEF After
  <2>1. f = [i \in 0 .. n |-> f[i]]
    BY <1>6
  <2> QED
    BY <1>7, <2>1
<1>9. PICK g : g = CHOOSE h : h = E(h)
  OBVIOUS
<1>10. g = E(g)
  <2> HIDE DEF E
  <2> QED
    BY <1>8, <1>9
<1>11. Merged = g[n] \o targets
  BY <1>2, <1>3, <1>9 DEF Merged
<1>12. g[0] = e /\ \A i \in 1 .. n : g[i] = After(g[i - 1], i)
  <2>1. \A i \in 1 .. n : i \in 0 .. n /\ i # 0
    OBVIOUS
  <2> HIDE DEF After
  <2> QED
    BY <1>10, <2>1
<1>13. ASSUME NEW i \in 1 .. n, g[i - 1] \in T PROVE g[i] = F[i][g[i - 1]]
  <2> HIDE DEF After
  <2> QED
    BY <1>12, <1>13
<1>14. g[n] \in T
  <2>1. RecursiveIn(T, g, n, e, F)
    <3> HIDE DEF F
    <3> QED
      BY <1>12, <1>13 DEF RecursiveIn
  <2> HIDE DEF F
  <2>2. \A i \in 0 .. n : f[i] = g[i] /\ f[i] \in T
    <3>1. PICK H : H = F
      OBVIOUS
    <3>2. H \in [1 .. n -> [T -> T]] /\ Recursive(f, n, e, H) /\ RecursiveIn(T, g, n, e, H)
      BY <1>5, <1>6, <2>1, <3>1
    <3> HIDE DEF E, After, Known
    <3>3. PICK h : h = f
      OBVIOUS
    <3>4. Recursive(h, n, e, H)
      BY <3>2, <3>3
    <3>5. \A i \in 0 .. n : h[i] = g[i] /\ h[i] \in T
      BY <3>2, <3>4, RecursionUnique
    <3> QED
      BY <3>3, <3>5
  <2>3. n \in 0 .. n
    OBVIOUS
  <2> QED
    BY <2>2, <2>3
<1> QED
  BY <1>1, <1>11, <1>14, ConcatProperties

\* What a step of the engine does to the files.
LEMMA MakeFiles ==
    ASSUME TypeOK, NEW r \in Rules, NEW o \in SUBSET Rules,
           Make(r, o) \/ Break(r) \/ Clean(r) \/ EditConf(r)
    PROVE  /\ exists' \subseteq Rules \ Phony /\ cached' \subseteq Rules \ Phony /\ stale' \subseteq Rules
           /\ cmd' \in [Rules -> AllCommands \union {None}]
<1>1. Commands[r][loaded] \in AllCommands
  BY DEF TypeOK, AllCommands, AllTexts
<1>2. CASE Make(r, o)
  <2>1. cmd' = cmd \/ cmd' = [cmd EXCEPT ![r] = Commands[r][loaded]]
    BY <1>2 DEF Make
  <2>2. cmd' \in [Rules -> AllCommands \union {None}]
    BY <1>1, <2>1 DEF TypeOK
  <2> QED
    BY <1>2, <2>2 DEF Make, Record, Touched, Dependents, TypeOK
<1>3. CASE Break(r) \/ EditConf(r)
  BY <1>3 DEF Break, EditConf, TypeOK, files
<1>4. CASE Clean(r)
  <2>1. Discarded \in [Rules -> AllCommands \union {None}]
    BY DEF TypeOK, Discarded
  <2> QED
    BY <1>4, <2>1 DEF Clean, TypeOK
<1> QED
  BY <1>2, <1>3, <1>4

\* The hash of a rule lists rules.
LEMMA StoredType ==
    ASSUME TypeOK, NEW r \in Rules, StoreHash(r) PROVE hashed' \in [Rules -> SUBSET Rules]
<1>1. Deps[r] \intersect Declared \in SUBSET Rules
  BY DriverAssumption DEF DriverAssumption
<1> QED
  BY <1>1 DEF StoreHash, TypeOK

LEMMA AllTypesStep == TypeOK /\ LoopTypeOK /\ [Next]_vars => TypeOK'
<1> SUFFICES ASSUME TypeOK, LoopTypeOK, [Next]_vars PROVE TypeOK'
  OBVIOUS
<1>1. LoopTypeOK'
  BY TypeStep
<1>2. SUFFICES /\ force' \in BOOLEAN /\ unsettled' \in SUBSET MayUnsettle
               /\ hashed' \in [Rules -> SUBSET Rules] /\ cmd' \in [Rules -> AllCommands \union {None}]
               /\ stale' \subseteq Rules /\ exists' \subseteq Rules \ Phony /\ cached' \subseteq Rules \ Phony
               /\ running' \subseteq Forks /\ stray' \subseteq Forks
               /\ targets' \in Seq(Rules) /\ added' \in Seq(Rules)
               /\ goal' \in Rules \union {None}
               /\ reload' \in BOOLEAN /\ reloads' \in 0 .. MaxReload
  BY <1>1 DEF TypeOK, LoopTypeOK
<1> USE DEF TypeOK
<1>3. CASE \E r \in Rules : UpToDate(r) \/ Fork(r) \/ FailDeps(r)
  <2>1. stale' \subseteq Rules /\ hashed' \in [Rules -> SUBSET Rules]
    BY <1>3, StoredType DEF UpToDate, Fork, FailDeps, Rehashed, cache
  <2> QED
    BY <1>3, <2>1 DEF UpToDate, Fork, FailDeps, config, spec, files, cache, flags, loop
<1>4. CASE \E r \in Rules : RunHere(r)
  <2>1. PICK r \in Rules : RunHere(r)
    BY <1>4
  <2>2. Make(r, Rehashed(r)) \/ Break(r) \/ Clean(r) \/ EditConf(r)
    BY <2>1 DEF RunHere
  <2>3. added' \in Seq(Rules)
    <3>1. added' = added \o Adds[r] /\ Adds[r] \in Seq(Rules)
      BY <2>1, DriverAssumption DEF RunHere, DriverAssumption
    <3> QED
      BY <3>1, ConcatProperties
  <2>4. Rehashed(r) \in SUBSET Rules /\ hashed' \in [Rules -> SUBSET Rules]
    BY <2>1, StoredType DEF RunHere, Rehashed
  <2> QED
    BY <2>1, <2>2, <2>3, <2>4, MakeFiles DEF RunHere, config, loop
<1>5. CASE \E r \in Rules : Reap(r)
  <2>1. PICK r \in Rules : Reap(r)
    BY <1>5
  <2>2. Make(r, stale) \/ Break(r) \/ EditConf(r)
    BY <2>1 DEF Reap
  <2> QED
    BY <2>1, <2>2, MakeFiles DEF Reap, config, flags, loop
<1>6. CASE NextTarget
  <2>1. targets # <<>> /\ goal' = Head(targets) /\ targets' = Tail(targets) /\ added' = <<>>
    BY <1>6 DEF NextTarget
  <2>2. goal' \in Rules /\ targets' \in Seq(Rules)
    BY <2>1, HeadTailProperties
  <2>3. added' \in Seq(Rules)
    BY <2>1, EmptySeq
  <2>4. reload' \in BOOLEAN /\ reloads' \in 0 .. MaxReload
    <3>1. CASE goal' \in CleanTargets
      BY <1>6, <3>1 DEF NextTarget
    <3>2. CASE goal' \notin CleanTargets
      <4>1. reload' = FALSE /\ reloads' = 0
        BY <1>6, <3>2 DEF NextTarget
      <4>2. reload' \in BOOLEAN
        BY <4>1
      <4>3. reloads' \in 0 .. MaxReload
        BY <4>1 DEF MaxReload
      <4> QED
        BY <4>2, <4>3
    <3> QED
      BY <3>1, <3>2
  <2> QED
    BY <1>6, <2>2, <2>3, <2>4 DEF NextTarget, config, spec, files, cache, engine
<1>7. CASE LoadPlain \/ LoadAnswer \/ LoadFails
  BY <1>7 DEF LoadPlain, LoadAnswer, LoadFails, config, spec, files, cache, engine, flags
<1>8. CASE Reload
  <2>1. reloads' \in 0 .. MaxReload
    BY <1>8 DEF Reload, ReloadsNow, Limit, MaxReload
  <2>2. added' \in Seq(Rules)
    BY <1>8, EmptySeq DEF Reload
  <2> QED
    BY <1>8, <2>1, <2>2 DEF Reload, config, files, cache
<1>9. CASE GiveUp \/ GoalFails \/ LoopDone \/ Exit \/ Gone \/ UNCHANGED vars
  BY <1>9 DEF GiveUp, GoalFails, LoopDone, Exit, Gone, vars, config, spec, files, cache, engine, flags, loop
<1>10. CASE DeleteOrphans
  <2>1. cmd' \in [Rules -> AllCommands \union {None}]
    BY <1>10 DEF DeleteOrphans, Discarded
  <2> QED
    BY <1>10, <2>1 DEF DeleteOrphans, config, engine, flags, loop
<1>11. CASE GoalBuilt
  BY <1>11, MergedType DEF GoalBuilt, config, spec, files, cache, loop
<1>12. CASE \E r \in Rules : StrayEnds(r)
  BY <1>12 DEF StrayEnds, Dependents, config, flags, loop
<1> QED
  BY <1>3, <1>4, <1>5, <1>6, <1>7, <1>8, <1>9, <1>10, <1>11, <1>12 DEF Next, Tmake

LEMMA InitTypes == Init => TypeOK
<1> SUFFICES ASSUME Init PROVE TypeOK
  OBVIOUS
<1>1. LoopTypeOK
  BY InitIInv DEF IInv
<1>2. exists \subseteq Rules \ Phony /\ stale \subseteq Rules /\ cached = exists
  <2>1. exists \subseteq Rules \ Phony /\ cached = exists /\ unsettled \subseteq Rules
    BY DriverAssumption DEF Init, DriverAssumption
  <2>2. stale \subseteq exists \union unsettled
    BY DEF Init
  <2> QED
    BY <2>1, <2>2
<1>3. targets \in Seq(Rules) /\ added \in Seq(Rules)
  BY DriverAssumption, EmptySeq DEF Init, DriverAssumption
<1>4. /\ running = {} /\ stray = {} /\ goal = None /\ reload = FALSE /\ reloads = 0
      /\ force \in BOOLEAN /\ unsettled \in SUBSET MayUnsettle
  BY DEF Init
<1>5. reload \in BOOLEAN
  BY <1>4
<1>6. reloads \in 0 .. MaxReload
  BY <1>4 DEF MaxReload
<1>7. hashed \in [Rules -> SUBSET Rules] /\ cmd \in [Rules -> AllCommands \union {None}]
  <2>1. PICK t \in Texts :
           /\ hashed = [r \in Rules |-> IF r \in exists THEN Deps[r] \intersect RulesOf(t) ELSE {}]
           /\ cmd = [r \in Rules |-> IF r \in exists THEN Commands[r][t] ELSE None]
    BY DEF Init
  <2>2. \A r \in Rules : Deps[r] \subseteq Rules
    BY DriverAssumption DEF DriverAssumption
  <2>3. t \in AllTexts
    BY DriverAssumption DEF DriverAssumption, AllTexts
  <2>4. \A r \in Rules : Commands[r][t] \in AllCommands
    BY <2>3 DEF AllCommands
  <2> QED
    BY <2>1, <2>2, <2>4
<1> QED
  BY <1>1, <1>2, <1>3, <1>4, <1>5, <1>6, <1>7 DEF TypeOK, LoopTypeOK

\* The variables of the loop have their types, and there are at most five reloads.
THEOREM DriverType == Spec => []TypeOK
<1>1. ASSUME TypeOK, IInv, [Next]_vars PROVE TypeOK'
  BY <1>1, AllTypesStep DEF IInv
<1> QED
  BY InitTypes, <1>1, LoopInvariance, PTL DEF Spec

-----------------------------------------------------------------------------
(* Targets are built by the descriptions that are on disk. *)

\* What a step of the engine leaves alone.
LEMMA EngineKeeps ==
    ASSUME LoopTypeOK, NEW r \in Rules,
           UpToDate(r) \/ RunHere(r) \/ Fork(r) \/ Reap(r) \/ FailDeps(r)
    PROVE  /\ UNCHANGED <<loaded, stray, pc, cleaning, loadq, reload, reloads, loadfailed>>
           /\ pc \in {"load", "build", "exit"}
           /\ exitcode' = 0 => exitcode = 0
BY DEF UpToDate, RunHere, Fork, Reap, FailDeps, OutOfDate, Visit, Calling, Make, Break, Clean, EditConf,
       config, spec, flags, loop, LoopTypeOK

\* The status that a step of the engine gives to its rule.
LEMMA Turns ==
    ASSUME LoopTypeOK, NEW r \in Rules, Visit(r) => r \notin running,
           UpToDate(r) \/ RunHere(r) \/ Fork(r) \/ Reap(r) \/ FailDeps(r)
    PROVE  \E s \in {"uptodate", "built", "failed", "running"} :
              /\ Visit(r) \/ r \in running
              /\ s # "failed" /\ Visit(r) => Ready(r)
              /\ status' = [status EXCEPT ![r] = s]
              /\ running' = (IF s = "running" THEN running \union {r} ELSE running \ {r})
<1>1. CASE UpToDate(r)
  BY <1>1 DEF UpToDate
<1>2. CASE RunHere(r)
  <2>1. PICK s \in {"built", "failed"} : status' = [status EXCEPT ![r] = s]
    BY <1>2 DEF RunHere, Make, Break, Clean, EditConf
  <2> QED
    BY <1>2, <2>1 DEF RunHere, OutOfDate
<1>3. CASE Fork(r)
  BY <1>3 DEF Fork, OutOfDate
<1>4. CASE Reap(r)
  <2>1. PICK s \in {"built", "failed"} : status' = [status EXCEPT ![r] = s]
    BY <1>4 DEF Reap, Make, Break, EditConf
  <2> QED
    BY <1>4, <2>1 DEF Reap
<1>5. CASE FailDeps(r)
  BY <1>5 DEF FailDeps
<1> QED
  BY <1>1, <1>2, <1>3, <1>4, <1>5

\* As long as no Load file has failed, or nothing has been reported, the engine changes
\* the status of rules that it has not been through.
LEMMA SettledStay ==
    ASSUME LoopTypeOK, EngineOK, exitcode = 0 \/ ~loadfailed, NEW r \in Rules,
           UpToDate(r) \/ RunHere(r) \/ Fork(r) \/ Reap(r) \/ FailDeps(r)
    PROVE  /\ status[r] \in {"unknown", "running"}
           /\ Visit(r) \/ r \in running
           /\ \A q \in Rules : q # r => status'[q] = status[q]
<1>1. \A q \in Rules : status[q] = "running" <=> q \in running
  BY DEF EngineOK
<1>2. PICK s \in {"uptodate", "built", "failed", "running"} :
         (Visit(r) \/ r \in running) /\ status' = [status EXCEPT ![r] = s]
  BY <1>1, Turns DEF Visit
<1> QED
  BY <1>1, <1>2 DEF Visit, LoopTypeOK

\* A member of a list is its head or a member of its tail.
LEMMA HeadOrTail ==
    ASSUME loadq \in Seq(LoadFiles), NEW i \in DOMAIN loadq
    PROVE  loadq # <<>> /\ (loadq[i] = Head(loadq) \/ \E j \in DOMAIN Tail(loadq) : Tail(loadq)[j] = loadq[i])
<1>1. CASE i = 1
  BY <1>1, HeadTailProperties
<1>2. CASE i # 1
  <2>1. i - 1 \in DOMAIN Tail(loadq) /\ Tail(loadq)[i - 1] = loadq[i]
    BY <1>2
  <2> QED
    BY <2>1
<1> QED
  BY <1>1, <1>2

LEMMA CalmLoads ==
    ASSUME IInv, CalmOK, LoadPlain \/ LoadAnswer PROVE CalmOK'
<1>1. /\ pc = "load" /\ pc' = "load" /\ loadq # <<>> /\ loadq' = Tail(loadq)
      /\ UNCHANGED <<status, exitcode, loadfailed>>
  BY DEF LoadPlain, LoadAnswer, Calling, engine
<1>2. /\ LoadPlain => Head(loadq) \notin Rules /\ reload' = reload
      /\ LoadAnswer => status[Head(loadq)] \in Settled /\ reload' = (reload \/ status[Head(loadq)] = "built")
  BY <1>1 DEF LoadPlain, LoadAnswer, Target
<1>3. SUFFICES ASSUME exitcode = 0 \/ ~loadfailed, NEW l \in LoadRules
               PROVE  \/ \E i \in DOMAIN loadq' : loadq'[i] = l
                      \/ status[l] = "uptodate"
                      \/ status[l] = "built" /\ reload'
  BY <1>1 DEF CalmOK
<1>4. \/ \E i \in DOMAIN loadq : loadq[i] = l
      \/ status[l] = "uptodate"
      \/ status[l] = "built" /\ reload
  BY <1>1, <1>3 DEF CalmOK
<1>5. reload => reload'
  BY <1>2
<1>6. CASE l = Head(loadq)
  <2>1. status[l] \in Settled /\ (status[l] = "built" => reload')
    BY <1>2, <1>6 DEF LoadRules
  <2> QED
    BY <2>1 DEF Settled
<1>7. CASE l # Head(loadq)
  BY <1>1, <1>4, <1>5, <1>7, HeadOrTail DEF IInv, LoopTypeOK
<1> QED
  BY <1>6, <1>7

LEMMA CalmStep ==
    ASSUME IInv, CalmOK, [Next]_vars PROVE CalmOK'
<1> USE DEF IInv
<1>1. ASSUME NEW r \in Rules, UpToDate(r) \/ RunHere(r) \/ Fork(r) \/ Reap(r) \/ FailDeps(r) PROVE CalmOK'
  <2>1. /\ UNCHANGED <<pc, cleaning, loadq, reload, loadfailed>> /\ pc \in {"load", "build", "exit"}
        /\ exitcode' = 0 => exitcode = 0
    BY <1>1, EngineKeeps
  <2>2. ASSUME exitcode = 0 \/ ~loadfailed, NEW l \in LoadRules, status[l] \in {"uptodate", "built"} PROVE status'[l] = status[l]
    BY <1>1, <2>2, SettledStay DEF LoadRules
  <2>3. (exitcode = 0 \/ ~loadfailed) /\ Calm => Calm'
    BY <2>2 DEF Calm
  <2> QED
    BY <2>1, <2>2, <2>3 DEF CalmOK
<1>2. ASSUME NextTarget \/ Reload PROVE CalmOK'
  <2>1. \A l \in LoadRules : \E i \in DOMAIN Loads : Loads[i] = l
    BY DEF LoadRules, LoadFiles
  <2>2. CASE NextTarget
    BY <2>1, <2>2 DEF NextTarget, CalmOK
  <2>3. CASE Reload
    BY <2>1, <2>3 DEF Reload, LoadsDone, CalmOK
  <2> QED
    BY <1>2, <2>2, <2>3
<1>3. ASSUME LoadFails PROVE CalmOK'
  <2>1. loadfailed' = TRUE /\ exitcode' # 0
    <3>1. CASE exitcode = 0
      BY <1>3, <3>1 DEF LoadFails
    <3>2. CASE exitcode # 0
      BY <1>3, <3>2 DEF LoadFails
    <3> QED
      BY <3>1, <3>2
  <2> QED
    BY <2>1 DEF CalmOK
<1>4. ASSUME DeleteOrphans PROVE CalmOK'
  <2>1. /\ pc = "load" /\ pc' = "build" /\ loadq = <<>> /\ ~reload
        /\ UNCHANGED <<status, exitcode, loadfailed>>
    BY <1>4 DEF DeleteOrphans, LoadsDone, MustReload, engine, loop
  <2>2. exitcode = 0 \/ ~loadfailed => Calm
    BY <2>1 DEF CalmOK, Calm
  <2> QED
    BY <2>1, <2>2 DEF CalmOK, Calm
<1>5. ASSUME GoalBuilt PROVE CalmOK'
  <2>1. /\ pc = "build" /\ pc' = "next" /\ UNCHANGED <<exitcode, loadfailed>>
        /\ status' = IF Forgets THEN [r \in Rules |-> "unknown"] ELSE status
    BY <1>5 DEF GoalBuilt, loop
  <2>2. CASE Forgets
    BY <2>1, <2>2 DEF CalmOK
  <2>3. CASE ~Forgets
    BY <2>1, <2>3 DEF CalmOK, Calm, Forgets
  <2> QED
    BY <2>2, <2>3
<1>6. ASSUME GiveUp \/ GoalFails \/ LoopDone \/ Exit PROVE CalmOK'
  <2>1. pc' \in {"exit", "gone"}
    BY <1>6 DEF GiveUp, GoalFails, LoopDone, Exit
  <2> QED
    BY <2>1 DEF CalmOK
<1>7. ASSUME (\E r \in Rules : StrayEnds(r)) \/ Gone \/ UNCHANGED vars PROVE CalmOK'
  <2>1. UNCHANGED <<status, cleaning, exitcode, pc, loadq, reload, loadfailed>>
    BY <1>7 DEF StrayEnds, Gone, vars, spec, files, engine, flags, loop
  <2> QED
    BY <2>1 DEF CalmOK, Calm
<1> QED
  BY <1>1, <1>2, <1>3, <1>4, <1>5, <1>6, <1>7, CalmLoads DEF Next, Tmake

LEMMA PhonyStep ==
    ASSUME TypeOK, PhonyOK, [Next]_vars PROVE PhonyOK'
<1> SUFFICES ASSUME NEW q \in Rules \intersect Phony PROVE status'[q] # "uptodate"
  BY DEF PhonyOK
<1>1. status[q] # "uptodate" /\ q \notin exists /\ status \in [Rules -> {"unknown", "uptodate", "built", "failed", "running"}]
  BY DEF PhonyOK, TypeOK
<1>2. ASSUME NEW r \in Rules, UpToDate(r) PROVE status'[q] # "uptodate"
  <2>1. q # r
    BY <1>1, <1>2 DEF UpToDate
  <2> QED
    BY <1>1, <1>2, <2>1 DEF UpToDate
<1>3. ASSUME NEW r \in Rules, RunHere(r) \/ Reap(r) PROVE status'[q] # "uptodate"
  <2>1. PICK s \in {"built", "failed"} : status' = [status EXCEPT ![r] = s]
    BY <1>3 DEF RunHere, Reap, Make, Break, Clean, EditConf
  <2> QED
    BY <1>1, <2>1
<1>4. ASSUME NEW r \in Rules, Fork(r) \/ FailDeps(r) PROVE status'[q] # "uptodate"
  BY <1>1, <1>4 DEF Fork, FailDeps
<1>5. ASSUME Reload \/ GoalBuilt PROVE status'[q] # "uptodate"
  BY <1>1, <1>5 DEF Reload, GoalBuilt
<1>6. ASSUME \/ NextTarget \/ LoadPlain \/ LoadAnswer \/ LoadFails \/ GiveUp \/ DeleteOrphans \/ GoalFails
             \/ LoopDone \/ Exit \/ (\E r \in Rules : StrayEnds(r)) \/ Gone \/ UNCHANGED vars
      PROVE  status'[q] # "uptodate"
  <2>1. status' = status
    BY <1>6 DEF NextTarget, LoadPlain, LoadAnswer, LoadFails, GiveUp, DeleteOrphans, GoalFails, LoopDone, Exit,
                StrayEnds, Gone, vars, engine
  <2> QED
    BY <1>1, <2>1
<1> QED
  BY <1>2, <1>3, <1>4, <1>5, <1>6 DEF Next, Tmake

\* Nothing but its commands, its rule and those for cleaning change a Load file.
LEMMA ConfSteps ==
    ASSUME TypeOK, NEW r \in Rules, UpToDate(r) \/ RunHere(r) \/ Fork(r) \/ Reap(r) \/ FailDeps(r)
    PROVE  /\ \A l \in LoadFiles \ Rules : conf'[l] # conf[l] => Edits # {}
           /\ \A l \in LoadRules :
                 \/ conf'[l] = conf[l] /\ (l \notin exists => l \notin exists')
                 \/ r = l /\ status'[r] \in {"built", "failed"} /\ exists' \subseteq exists \union ({r} \ Phony)
                 \/ exists' = exists \ (Declared \union cached)
<1> USE DEF TypeOK, LoadRules
<1>1. CASE UpToDate(r) \/ Fork(r) \/ FailDeps(r)
  BY <1>1 DEF UpToDate, Fork, FailDeps, spec, files
<1>2. ASSUME NEW o, Make(r, o) PROVE \A l \in LoadFiles \ {r} : conf'[l] = conf[l]
  BY <1>2 DEF Make
<1>3. CASE Make(r, Rehashed(r)) \/ Make(r, stale)
  <2>1. exists' = exists \union ({r} \ Phony) /\ status'[r] = "built"
    BY <1>3 DEF Make
  <2> QED
    BY <1>2, <1>3, <2>1
<1>4. CASE Break(r)
  <2>1. exists' = exists \ {r} /\ status'[r] = "failed" /\ \A l \in LoadFiles \ {r} : conf'[l] = conf[l]
    BY <1>4 DEF Break
  <2> QED
    BY <2>1
<1>5. CASE Clean(r)
  BY <1>5 DEF Clean
<1>6. CASE EditConf(r)
  <2>1. exists' = exists /\ Edits # {} /\ \A l \in LoadRules : conf'[l] = conf[l]
    BY <1>6 DEF EditConf, files
  <2> QED
    BY <2>1
<1> QED
  BY <1>1, <1>3, <1>4, <1>5, <1>6 DEF RunHere, Reap

\* With all Load files up to date nothing has changed them.
LEMMA CalmCurrent ==
    ASSUME Edits = {}, TypeOK, IInv, PhonyOK, CurrentOK, PlainOK, Calm, exitcode = 0, OwnLoads, ~cleaning,
           pc \in {"load", "build"}
    PROVE  loaded = conf
<1>1. \A l \in LoadRules : l \in Declared \ Phony /\ l \in Rules
  <2>1. \A l \in LoadRules : l \in Rules /\ l \notin Optional
    BY DriverAssumption DEF DriverAssumption, Optional, LoadRules
  <2>2. \A l \in LoadRules : l \notin Phony
    BY <2>1 DEF Calm, PhonyOK
  <2> QED
    BY <2>1, <2>2 DEF Declared, RulesOf
<1>2. \A l \in LoadRules : status[l] = "uptodate"
  BY DEF Calm
<1>3. \A l \in LoadRules : l \in exists
  BY <1>1, <1>2 DEF IInv, FilesOK, Settled
<1>4. \A l \in LoadRules : loaded[l] = conf[l]
  BY <1>2, <1>3 DEF CurrentOK, MustMake
<1>5. \A l \in LoadFiles : loaded[l] = conf[l]
  BY <1>4 DEF PlainOK, LoadRules
<1> QED
  BY <1>5 DEF TypeOK

\* A step of the engine while nothing has been reported.
LEMMA EngineCurrent ==
    ASSUME TypeOK, IInv, CalmOK, CurrentOK, exitcode = 0, OwnLoads,
           NEW r \in Rules, UpToDate(r) \/ RunHere(r) \/ Fork(r) \/ Reap(r) \/ FailDeps(r)
    PROVE  CurrentOK'
<1> USE DEF IInv
<1>1. /\ UNCHANGED <<loaded, pc, cleaning>> /\ pc \in {"load", "build", "exit"}
  BY EngineKeeps
<1>2. /\ status[r] \in {"unknown", "running"} /\ (Visit(r) \/ r \in running)
      /\ \A q \in Rules : q # r => status'[q] = status[q]
  BY SettledStay
<1> SUFFICES ASSUME pc \in {"load", "build"}, NEW l \in LoadRules PROVE loaded[l] = conf'[l] \/ MustMake(l)'
  BY <1>1 DEF CurrentOK
<1>3. loaded[l] = conf[l] \/ MustMake(l)
  BY DEF CurrentOK
<1>4. l \in Rules /\ l \in Declared
  BY DriverAssumption DEF DriverAssumption, Declared, RulesOf, Optional, LoadRules
<1>5. CASE conf'[l] = conf[l] /\ (l \notin exists => l \notin exists')
  <2>1. status[l] \in {"built", "failed"} => status'[l] = status[l]
    BY <1>2, <1>4
  <2> QED
    BY <1>1, <1>3, <1>5, <2>1 DEF MustMake
<1>6. CASE r = l /\ status'[r] \in {"built", "failed"} /\ exists' \subseteq exists \union ({r} \ Phony)
  <2>1. CASE pc = "load"
    BY <1>1, <1>6, <2>1 DEF MustMake
  <2>2. CASE pc = "build"
    <3>1. cleaning
      BY <1>2, <1>6, <2>2 DEF CalmOK, Calm
    <3>2. r \in Phony
      BY <1>2, <3>1, VisitOK DEF CleaningOK
    <3>3. r \notin exists'
      BY <1>6, <3>2 DEF TypeOK
    <3> QED
      BY <1>6, <3>3 DEF MustMake
  <2> QED
    BY <2>1, <2>2
<1>7. CASE exists' = exists \ (Declared \union cached)
  BY <1>4, <1>7 DEF MustMake
<1> QED
  BY <1>5, <1>6, <1>7, ConfSteps

LEMMA CurrentStep ==
    ASSUME TypeOK, IInv, CalmOK, CurrentOK, [Next]_vars PROVE CurrentOK'
<1> USE DEF IInv
<1>1. ASSUME NEW r \in Rules, UpToDate(r) \/ RunHere(r) \/ Fork(r) \/ Reap(r) \/ FailDeps(r) PROVE CurrentOK'
  <2>1. CASE exitcode = 0 /\ OwnLoads
    BY <1>1, <2>1, EngineCurrent
  <2>2. CASE ~(exitcode = 0 /\ OwnLoads)
    BY <1>1, <2>2, EngineKeeps DEF CurrentOK, OwnLoads
  <2> QED
    BY <2>1, <2>2
<1>2. ASSUME NextTarget \/ GoalBuilt PROVE CurrentOK'
  <2>1. /\ UNCHANGED <<conf, loaded, exists, exitcode, loadfailed>> /\ pc \in {"next", "build"}
    BY <1>2 DEF NextTarget, GoalBuilt, spec, files, engine, loop
  <2>2. \A l \in LoadRules : MustMake(l) => MustMake(l)'
    BY <2>1 DEF MustMake
  <2> QED
    BY <2>1, <2>2 DEF CurrentOK, OwnLoads
<1>3. ASSUME LoadPlain \/ LoadAnswer PROVE CurrentOK'
  <2>1. UNCHANGED <<conf, loaded, exists, status, exitcode, pc, loadfailed>>
    BY <1>3 DEF LoadPlain, LoadAnswer, spec, files, engine
  <2> QED
    BY <2>1 DEF CurrentOK, OwnLoads, MustMake
<1>4. ASSUME LoadFails PROVE CurrentOK'
  <2>1. (exitcode = 0 => pc' = "exit") /\ (exitcode # 0 => exitcode' # 0)
    BY <1>4 DEF LoadFails
  <2> QED
    BY <2>1 DEF CurrentOK
<1>5. ASSUME Reload PROVE CurrentOK'
  BY <1>5 DEF Reload, CurrentOK
<1>6. ASSUME DeleteOrphans PROVE CurrentOK'
  <2>1. /\ pc = "load" /\ loadq = <<>> /\ ~reload /\ exists' \subseteq exists
        /\ UNCHANGED <<conf, loaded, exitcode, loadfailed>>
    BY <1>6 DEF DeleteOrphans, LoadsDone, MustReload, spec, engine, loop
  <2>2. exitcode = 0 => \A l \in LoadRules : status[l] = "uptodate"
    BY <2>1 DEF CalmOK
  <2>3. exitcode = 0 => \A l \in LoadRules : MustMake(l) => MustMake(l)'
    BY <2>1, <2>2 DEF MustMake
  <2> QED
    BY <2>1, <2>3 DEF CurrentOK, OwnLoads
<1>7. ASSUME GiveUp \/ GoalFails \/ LoopDone \/ Exit PROVE CurrentOK'
  <2>1. pc' \in {"exit", "gone"}
    BY <1>7 DEF GiveUp, GoalFails, LoopDone, Exit
  <2> QED
    BY <2>1 DEF CurrentOK
<1>8. ASSUME NEW r \in Rules, StrayEnds(r) PROVE CurrentOK'
  <2>1. UNCHANGED <<loaded, status, exitcode, pc, loadfailed>> /\ r \in stray
    BY <1>8 DEF StrayEnds, loop
  <2>2. loadfailed /\ r \in Forks
    BY <2>1 DEF FilesOK, TypeOK
  <2>3. OwnLoads => r \notin LoadFiles
    BY <2>2 DEF OwnLoads
  <2>4. ASSUME OwnLoads, NEW l \in LoadRules PROVE conf'[l] = conf[l] /\ (l \notin exists => l \notin exists')
    <3>1. l \in Rules /\ l \in LoadFiles /\ l # r
      BY <2>3, <2>4 DEF LoadRules
    <3>2. exists' \subseteq exists \union {r}
      BY <1>8 DEF StrayEnds
    <3>3. conf'[l] = conf[l]
      BY <1>8, <2>3, <2>4, <3>1 DEF StrayEnds, TypeOK
    <3> QED
      BY <3>1, <3>2, <3>3
  <2>5. OwnLoads => \A l \in LoadRules : MustMake(l) => MustMake(l)'
    BY <2>1, <2>4 DEF MustMake
  <2> QED
    BY <2>1, <2>4, <2>5 DEF CurrentOK, OwnLoads
<1>9. ASSUME Gone \/ UNCHANGED vars PROVE CurrentOK'
  <2>1. UNCHANGED <<conf, loaded, exists, status, exitcode, pc, loadfailed>>
    BY <1>9 DEF Gone, vars, spec, files, engine, loop
  <2> QED
    BY <2>1 DEF CurrentOK, OwnLoads, MustMake
<1> QED
  BY <1>1, <1>2, <1>3, <1>4, <1>5, <1>6, <1>7, <1>8, <1>9 DEF Next, Tmake

LEMMA PlainStep ==
    ASSUME TypeOK, LoopTypeOK, PlainOK, [Next]_vars PROVE PlainOK'
<1> SUFFICES ASSUME Edits = {}, NEW l \in LoadFiles \ Rules PROVE loaded'[l] = conf'[l]
  BY DEF PlainOK
<1>1. loaded[l] = conf[l]
  BY DEF PlainOK
<1>2. ASSUME NEW r \in Rules, UpToDate(r) \/ RunHere(r) \/ Fork(r) \/ Reap(r) \/ FailDeps(r)
      PROVE  loaded'[l] = conf'[l]
  <2>1. loaded' = loaded
    BY <1>1, <1>2, EngineKeeps
  <2>2. conf'[l] = conf[l]
    BY <1>2, ConfSteps
  <2> QED
    BY <1>1, <2>1, <2>2
<1>3. ASSUME NEW r \in Rules, StrayEnds(r) PROVE loaded'[l] = conf'[l]
  <2>1. l # r /\ loaded' = loaded
    BY <1>3 DEF StrayEnds
  <2>2. conf'[l] = conf[l]
    BY <1>3, <2>1 DEF StrayEnds, TypeOK
  <2> QED
    BY <1>1, <2>1, <2>2
<1>4. ASSUME Reload PROVE loaded'[l] = conf'[l]
  BY <1>4 DEF Reload
<1>5. ASSUME \/ NextTarget \/ LoadPlain \/ LoadAnswer \/ LoadFails \/ GiveUp \/ DeleteOrphans \/ GoalBuilt \/ GoalFails
             \/ LoopDone \/ Exit \/ Gone \/ UNCHANGED vars
      PROVE  loaded'[l] = conf'[l]
  <2>1. UNCHANGED <<conf, loaded>>
    BY <1>5 DEF NextTarget, LoadPlain, LoadAnswer, LoadFails, GiveUp, DeleteOrphans, GoalBuilt, GoalFails,
                LoopDone, Exit, Gone, vars, spec
  <2> QED
    BY <1>1, <2>1
<1> QED
  BY <1>2, <1>3, <1>4, <1>5 DEF Next, Tmake

\* Targets are only built when no Load file has been, whatever the commands do.
THEOREM CalmInvariance == Spec => []CalmOK
<1>1. Init => CalmOK
  BY DEF Init, CalmOK
<1>2. IInv /\ CalmOK /\ [Next]_vars => CalmOK'
  BY CalmStep
<1> QED
  BY <1>1, <1>2, LoopInvariance, PTL DEF Spec

\* What the descriptions were read from is on disk, or the loop over the Load files is
\* going to see that it is not.
CurrentInv == CalmOK /\ PhonyOK /\ CurrentOK /\ PlainOK
LEMMA CurrentInvariance == Spec => []CurrentInv
<1>1. Init => CurrentInv
  <2> SUFFICES ASSUME Init PROVE CurrentInv
    OBVIOUS
  <2>1. CalmOK /\ PhonyOK
    BY DEF Init, CalmOK, PhonyOK
  <2>2. loaded = conf
    BY DEF Init
  <2> QED
    BY <2>1, <2>2 DEF CurrentInv, CurrentOK, PlainOK
<1>2. TypeOK /\ IInv /\ CurrentInv /\ [Next]_vars => CurrentInv'
  BY CalmStep, PhonyStep, CurrentStep, PlainStep DEF CurrentInv, IInv
<1> QED
  BY <1>1, <1>2, LoopInvariance, DriverType, PTL DEF Spec

\* Commands for a target are started by the descriptions that are on disk (541-546),
\* in projects where Load files are written by their rules only.
THEOREM GoalsAreCurrent ==
    ASSUME Edits = {} PROVE Spec => GoalsCurrent
<1>1. TypeOK /\ IInv /\ CurrentInv
        => ((pc = "build" /\ ~cleaning /\ exitcode = 0 /\ OwnLoads /\ \E r \in Rules : Starts(r)) => loaded = conf)
  <2> SUFFICES ASSUME TypeOK, IInv, CurrentInv, pc = "build", ~cleaning, exitcode = 0, OwnLoads PROVE loaded = conf
    OBVIOUS
  <2>1. Calm
    BY DEF CurrentInv, CalmOK
  <2> QED
    BY <2>1, CalmCurrent DEF CurrentInv
<1> QED
  BY <1>1, CurrentInvariance, LoopInvariance, DriverType, PTL DEF GoalsCurrent

\* What is deleted as an orphan (584-585) is declared by no description that is on
\* disk, in the same projects.
THEOREM OrphansAreReal ==
    ASSUME Edits = {} PROVE Spec => OrphansOnly
<1>1. ASSUME TypeOK, IInv, CurrentInv, [Next]_vars, LoadsDone, exitcode = 0, OwnLoads
      PROVE  (exists \ exists') \intersect RulesOf(conf) = {}
  <2>1. pc = "load" /\ loadq = <<>> /\ ~Calling
    BY <1>1 DEF LoadsDone, Calling
  <2>2. CASE DeleteOrphans
    <3>1. ~reload /\ exists' = exists \ Orphans
      BY <2>2 DEF DeleteOrphans, MustReload
    <3>2. Calm /\ ~cleaning
      BY <1>1, <2>1, <3>1 DEF CurrentInv, CalmOK, Calm, IInv, CleaningOK
    <3>3. loaded = conf
      BY <1>1, <2>1, <3>1, <3>2, CalmCurrent DEF CurrentInv
    <3> QED
      BY <3>1, <3>3 DEF Orphans, Declared
  <2>3. CASE Reload \/ GiveUp \/ (\E r \in Rules : StrayEnds(r)) \/ Gone \/ UNCHANGED vars
    <3>1. exists \subseteq exists'
      BY <2>3 DEF Reload, GiveUp, StrayEnds, Gone, vars, files
    <3> QED
      BY <3>1
  <2> QED
    BY <1>1, <2>1, <2>2, <2>3
       DEF Next, Tmake, UpToDate, RunHere, Fork, Reap, FailDeps, OutOfDate, Visit, NextTarget, LoadPlain, LoadAnswer,
           LoadFails, GoalBuilt, GoalFails, LoopDone, Exit
<1> QED
  BY <1>1, CurrentInvariance, LoopInvariance, DriverType, PTL DEF OrphansOnly, Spec

-----------------------------------------------------------------------------
(* Load files settle. *)

\* What a Load file needs is what some Load file needs, with all that it depends
\* on, and every description declares it.
LEMMA UnderProps ==
    ASSUME LoadsSettle
    PROVE  /\ \A l \in LoadRules : l \in Under(l) /\ Under(l) \subseteq ForLoads
           /\ \A l \in LoadRules : \A q \in Under(l) : Deps[q] \subseteq Under(l)
           /\ \A l \in LoadRules : \A S \in SUBSET Rules :
                 l \in S /\ (\A q \in S : Deps[q] \subseteq S) => Under(l) \subseteq S
           /\ ForLoads \subseteq Rules \ (Phony \union Optional \union Resets)
           /\ \A q \in ForLoads : Deps[q] \subseteq ForLoads
           /\ \A q \in ForLoads : \E l \in LoadRules : q \in Under(l)
<1>1. Optional \subseteq Rules /\ \A l \in LoadRules : l \in Rules
  BY DriverAssumption DEF DriverAssumption, Optional, LoadRules
<1>2. Rules \in Descriptions
  <2>1. Rules = (Rules \ Optional) \union UNION {Declares[c] : c \in Contents}
    BY <1>1 DEF Optional
  <2>2. Contents \in SUBSET Contents
    OBVIOUS
  <2> QED
    BY <2>1, <2>2 DEF Descriptions
<1>3. \A l \in LoadRules : Under(l) = {r \in Rules : \A S \in ClosedIn(Rules) : l \in S => r \in S}
  BY <1>1, <1>2 DEF Under, Below
<1>4. \A q \in Rules : Deps[q] \subseteq Rules
  BY DriverAssumption DEF DriverAssumption
<1>5. \A l \in LoadRules : l \in Under(l) /\ Under(l) \subseteq ForLoads
  BY <1>1, <1>2, <1>3 DEF ForLoads, Under, LoadRules
<1>6. ASSUME NEW l \in LoadRules, NEW q \in Under(l) PROVE Deps[q] \subseteq Under(l)
  BY <1>3, <1>4, <1>6 DEF ClosedIn
<1>7. ASSUME NEW l \in LoadRules, NEW S \in SUBSET Rules, l \in S, \A q \in S : Deps[q] \subseteq S
      PROVE  Under(l) \subseteq S
  BY <1>3, <1>7 DEF ClosedIn
<1>8. ASSUME NEW D \in Descriptions, NEW l \in LoadRules PROVE Below[D][l] \subseteq Under(l)
  <2>1. D \subseteq Rules
    BY DriverAssumption DEF DriverAssumption, Descriptions
  <2>2. l \in D
    BY <1>1, DriverAssumption DEF DriverAssumption, Descriptions, Optional, LoadRules
  <2>3. Below[D][l] = {r \in D : \A S \in ClosedIn(D) : l \in S => r \in S}
    BY <2>2 DEF Below
  <2>4. ASSUME NEW S \in ClosedIn(Rules), l \in S PROVE S \intersect D \in ClosedIn(D) /\ l \in S \intersect D
    BY <2>1, <2>2, <2>4 DEF ClosedIn
  <2>5. ASSUME NEW r \in Below[D][l], NEW S \in ClosedIn(Rules), l \in S PROVE r \in S
    BY <2>3, <2>4, <2>5
  <2>6. Below[D][l] \subseteq Rules
    BY <2>1, <2>3
  <2> QED
    BY <1>3, <2>5, <2>6
<1>9. ASSUME NEW q \in ForLoads PROVE q \in Rules /\ Deps[q] \subseteq ForLoads /\ \E l \in LoadRules : q \in Under(l)
  <2>1. PICK D \in Descriptions, l \in LoadRules : q \in Below[D][l]
    BY DEF ForLoads, LoadRules
  <2>2. q \in Under(l)
    BY <1>8, <2>1
  <2> QED
    BY <1>3, <1>5, <1>6, <2>2
<1> QED
  BY <1>5, <1>6, <1>7, <1>9 DEF LoadsSettle

\* The rules that Load files need are declared, and are all that is visited for them.
LEMMA LoadNeeds ==
    ASSUME LoadsSettle, LoopTypeOK
    PROVE  /\ ForLoads \subseteq Declared
           /\ pc = "load" /\ Calling => Target \in LoadRules /\ Needed(Target) \subseteq ForLoads
<1>1. ForLoads \subseteq Declared
  BY UnderProps DEF Declared, RulesOf
<1>2. ASSUME pc = "load", Calling PROVE Target \in LoadRules /\ Needed(Target) \subseteq ForLoads
  <2>1. loadq # <<>> /\ Target = Head(loadq) /\ Target \in Rules
    BY <1>2 DEF Calling, Target
  <2>2. Target \in LoadRules
    BY <2>1, HeadTailProperties DEF LoopTypeOK, LoadRules
  <2> QED
    BY <2>2, DeclaredIn DEF Needed, ForLoads, LoadRules
<1> QED
  BY <1>1, <1>2

\* When all Load files are done, so is all that they need, and it is there.
LEMMA LoadsSettled ==
    ASSUME LoadsSettle, IInv, ~loadfailed, pc = "load", \A l \in LoadRules : status[l] \in Settled
    PROVE  (\A q \in ForLoads : status[q] \in Settled /\ q \in exists) /\ \A r \in Rules : ~Visit(r) /\ r \notin running
<1> USE DEF IInv
<1>1. ForLoads \subseteq Declared /\ ForLoads \subseteq Rules \ Phony
  BY LoadNeeds, UnderProps
<1> DEFINE S == {q \in ForLoads : status[q] \in Settled}
<1>2. \A q \in S : Deps[q] \subseteq S
  BY <1>1, UnderProps DEF EngineOK, Ready
<1>3. \A l \in LoadRules : l \in S
  BY UnderProps
<1>4. \A l \in LoadRules : Under(l) \subseteq S
  BY <1>1, <1>2, <1>3, UnderProps
<1>5. \A q \in ForLoads : status[q] \in Settled
  BY <1>4, UnderProps
<1>6. \A q \in ForLoads : q \in exists
  BY <1>1, <1>5 DEF FilesOK, CleaningOK
<1>7. \A r \in Rules : ~Visit(r)
  BY <1>5, LoadNeeds DEF Visit, Settled
<1>8. \A r \in Rules : r \notin running
  <2>1. CASE Calling
    BY <1>5, <2>1, LoadNeeds DEF EngineOK, Settled
  <2>2. CASE ~Calling
    BY <2>2 DEF EngineOK
  <2> QED
    BY <2>1, <2>2
<1> QED
  BY <1>5, <1>6, <1>7, <1>8

\* How many Load files there can be.
LEMMA LoadsFinite ==
    ASSUME NEW A \in SUBSET LoadRules, NEW B \in SUBSET LoadRules
    PROVE  /\ Cardinality(LoadRules) \in Nat /\ Cardinality(A) \in Nat
           /\ Cardinality(A) <= Cardinality(LoadRules)
           /\ A \subseteq B => Cardinality(A) <= Cardinality(B)
           /\ A \subseteq B /\ A # B => Cardinality(A) + 1 <= Cardinality(B)
           /\ A # {} => 1 <= Cardinality(A)
<1>1. IsFiniteSet(LoadRules)
  BY FS_Subset, DriverAssumption DEF DriverAssumption, LoadRules
<1>2. IsFiniteSet(A) /\ IsFiniteSet(B)
  BY <1>1, FS_Subset
<1>3. /\ Cardinality(LoadRules) \in Nat /\ Cardinality(A) \in Nat /\ Cardinality(B) \in Nat
      /\ Cardinality(A) <= Cardinality(LoadRules)
  BY <1>1, <1>2, FS_CardinalityType, FS_Subset
<1>4. A \subseteq B => Cardinality(A) <= Cardinality(B)
  BY <1>2, FS_Subset
<1>5. ASSUME A \subseteq B, A # B PROVE Cardinality(A) + 1 <= Cardinality(B)
  <2>1. Cardinality(A) <= Cardinality(B) /\ (Cardinality(A) = Cardinality(B) => A = B)
    BY <1>2, <1>5, FS_Subset
  <2> QED
    BY <1>3, <1>5, <2>1
<1>6. A # {} => Cardinality(A) # 0
  BY <1>2, FS_EmptySet
<1> QED
  BY <1>3, <1>4, <1>5, <1>6

\* A rule turns while Load files are built: nothing that is settled or runs needs it.
LEMMA TurnsForLoads ==
    ASSUME LoadsSettle, LoopTypeOK, EngineOK, ~loadfailed, pc = "load",
           NEW r \in Rules, UpToDate(r) \/ RunHere(r) \/ Fork(r) \/ Reap(r) \/ FailDeps(r)
    PROVE  /\ r \in ForLoads /\ (Visit(r) \/ r \in running) /\ status[r] \in {"unknown", "running"}
           /\ \A q \in Rules : q # r => status'[q] = status[q]
           /\ \A q \in ForLoads : status[q] \in Settled \union {"running"} => r \notin Deps[q]
           /\ status'[r] # "failed" => r \notin Deps[r]
<1>1. /\ status[r] \in {"unknown", "running"} /\ (Visit(r) \/ r \in running)
      /\ \A q \in Rules : q # r => status'[q] = status[q]
  BY SettledStay
<1>2. Calling
  <2>1. CASE Reap(r)
    BY <2>1 DEF Reap
  <2>2. CASE ~Reap(r)
    BY <2>2 DEF UpToDate, RunHere, Fork, FailDeps, OutOfDate, Visit
  <2> QED
    BY <2>1, <2>2
<1>3. r \in ForLoads
  BY <1>1, <1>2, LoadNeeds DEF Visit, EngineOK
<1>4. ForLoads \subseteq Declared
  BY LoadNeeds
<1>5. \A q \in ForLoads : Ready(q) => r \notin Deps[q]
  BY <1>1, <1>3, <1>4 DEF Ready, Settled
<1>6. \A q \in ForLoads : status[q] \in Settled \union {"running"} => r \notin Deps[q]
  BY <1>4, <1>5 DEF EngineOK
<1>7. status'[r] # "failed" => Ready(r)
  <2>1. Visit(r) => r \notin running
    BY DEF Visit, EngineOK
  <2>2. PICK s \in {"uptodate", "built", "failed", "running"} :
           /\ s # "failed" /\ Visit(r) => Ready(r)
           /\ status' = [status EXCEPT ![r] = s]
    BY <2>1, Turns
  <2>3. r \in running => Ready(r)
    BY DEF EngineOK
  <2> QED
    BY <1>1, <2>2, <2>3 DEF LoopTypeOK
<1> QED
  BY <1>1, <1>3, <1>5, <1>6, <1>7

\* Commands that a Load file needs either work or do not.
LEMMA LoadCommands ==
    ASSUME LoadsSettle, LoopTypeOK, CleaningOK, pc = "load", NEW r \in ForLoads,
           RunHere(r) \/ Reap(r)
    PROVE  /\ (RunHere(r) /\ Make(r, Rehashed(r))) \/ (Reap(r) /\ Make(r, stale)) \/ Break(r)
           /\ ~cleaning /\ r \notin Phony /\ Touched(r) = {{}}
<1>1. r \in Rules /\ r \notin Phony \union Resets /\ ~cleaning
  BY UnderProps DEF CleaningOK
<1>2. Touched(r) = {{}}
  BY <1>1 DEF Touched
<1>3. ~EditConf(r)
  BY <1>1, DriverAssumption DEF EditConf, DriverAssumption
<1>4. CASE Reap(r)
  BY <1>1, <1>2, <1>3, <1>4 DEF Reap
<1>5. CASE RunHere(r)
  <2>1. ~Clean(r)
    BY <1>1, <1>5, VisitOK DEF RunHere, OutOfDate, Clean
  <2> QED
    BY <1>1, <1>2, <1>3, <1>5, <2>1 DEF RunHere
<1> QED
  BY <1>4, <1>5

\* What a rule that turns while Load files are built leaves alone.
LEMMA TurnKeeps ==
    ASSUME LoadsSettle, TypeOK, IInv, ~loadfailed, pc = "load",
           NEW r \in Rules, UpToDate(r) \/ RunHere(r) \/ Fork(r) \/ Reap(r) \/ FailDeps(r)
    PROVE  /\ exists \ {r} \subseteq exists' /\ running' \subseteq running \union {r}
           /\ \A l \in LoadFiles : l # r => conf'[l] = conf[l]
           /\ \A q \in Rules : q # r => hashed'[q] = hashed[q] /\ cmd'[q] = cmd[q]
           /\ \A q \in Rules : q # r /\ q \notin stale /\ r \notin hashed[q] => q \notin stale'
<1> USE DEF IInv
<1>1. r \in ForLoads
  BY TurnsForLoads
<1>2. CASE UpToDate(r) \/ FailDeps(r)
  BY <1>2 DEF UpToDate, FailDeps, spec, files, cache
<1>3. CASE Fork(r)
  BY <1>3 DEF Fork, StoreHash, Rehashed, spec, files, TypeOK
<1>4. CASE RunHere(r) \/ Reap(r)
  <2>1. running' \subseteq running /\ \A q \in Rules : q # r => hashed'[q] = hashed[q]
    BY <1>4 DEF RunHere, Reap, StoreHash, TypeOK
  <2>2. ASSUME NEW o \in {Rehashed(r), stale}, Make(r, o), Touched(r) = {{}}
        PROVE  /\ exists' = exists \union ({r} \ Phony)
               /\ \A l \in LoadFiles : l # r => conf'[l] = conf[l]
               /\ \A q \in Rules : q # r => cmd'[q] = cmd[q]
               /\ stale' \subseteq stale \union Dependents(r)
    BY <2>2 DEF Make, Rehashed, TypeOK
  <2>3. CASE Break(r)
    <3>1. /\ exists' = exists \ {r} /\ cmd' = cmd /\ stale' = stale \union {r}
          /\ \A l \in LoadFiles : l # r => conf'[l] = conf[l]
      BY <2>3 DEF Break
    <3> QED
      BY <2>1, <3>1
  <2>4. CASE ~Break(r)
    <3>1. (Make(r, Rehashed(r)) \/ Make(r, stale)) /\ Touched(r) = {{}}
      BY <1>1, <1>4, <2>4, LoadCommands
    <3> QED
      BY <2>1, <2>2, <3>1 DEF Dependents
  <2> QED
    BY <2>3, <2>4
<1> QED
  BY <1>2, <1>3, <1>4

\* What has been settled or started is recorded as it is.
LEMMA TurnSettles ==
    ASSUME LoadsSettle, TypeOK, IInv, HashedOK, SettledOK, ~loadfailed, unsettled = {}, pc = "load",
           NEW r \in Rules, UpToDate(r) \/ RunHere(r) \/ Fork(r) \/ Reap(r) \/ FailDeps(r)
    PROVE  SettledOK'
<1> USE DEF IInv
<1>1. loaded' = loaded
  BY EngineKeeps
<1>2. /\ r \in ForLoads /\ (Visit(r) \/ r \in running) /\ status[r] \in {"unknown", "running"}
      /\ \A q \in Rules : q # r => status'[q] = status[q]
      /\ \A q \in ForLoads : status[q] \in Settled \union {"running"} => r \notin Deps[q]
      /\ status'[r] # "failed" => r \notin Deps[r]
  BY TurnsForLoads
<1>3. ForLoads \subseteq Rules \ Phony /\ Deps[r] \intersect Declared = Deps[r]
  BY <1>2, UnderProps, LoadNeeds
<1>4. ~Calm
  <2>1. Calm => \A l \in LoadRules : status[l] \in Settled
    BY DEF Calm, Settled
  <2> QED
    BY <1>2, <2>1, LoadsSettled
<1>5. \A q \in ForLoads : /\ status[q] = "running" => Hashed(q)
                          /\ status[q] \in Settled => Recorded(q)
  BY <1>4 DEF SettledOK
<1>6. ASSUME NEW q \in ForLoads, q # r
      PROVE  /\ status'[q] = "running" => Hashed(q)'
             /\ status'[q] \in Settled => Recorded(q)'
  <2>1. q \in Rules /\ status'[q] = status[q]
    BY <1>2, <1>3, <1>6
  <2>2. ASSUME status[q] \in Settled \union {"running"}, Hashed(q)
        PROVE  Hashed(q)' /\ hashed'[q] = hashed[q] /\ cmd'[q] = cmd[q]
    <3>1. r \notin Deps[q] /\ q \notin stale /\ hashed[q] = Deps[q]
      BY <1>2, <2>2 DEF Hashed
    <3> QED
      BY <1>6, <2>1, <3>1, TurnKeeps DEF Hashed
  <2> QED
    BY <1>1, <1>5, <2>1, <2>2 DEF Recorded
<1>7. /\ status'[r] = "running" => Hashed(r)'
      /\ status'[r] \in Settled => Recorded(r)'
  <2>1. CASE UpToDate(r)
    <3>1. Unchanged(r) /\ UNCHANGED cache /\ status'[r] = "uptodate"
      BY <2>1 DEF UpToDate, LoopTypeOK
    <3> QED
      BY <1>1, <1>3, <3>1 DEF Unchanged, Recorded, Hashed, cache
  <2>2. CASE Fork(r)
    <3>1. status'[r] = "running" /\ stale' = stale \ {r} /\ hashed'[r] = Deps[r]
      BY <1>3, <2>2 DEF Fork, Rehashed, StoreHash, TypeOK
    <3> QED
      BY <3>1 DEF Hashed, Settled
  <2>3. CASE FailDeps(r) \/ Break(r)
    <3>1. status'[r] = "failed"
      BY <2>3 DEF FailDeps, Break, LoopTypeOK
    <3> QED
      BY <3>1 DEF Settled
  <2>4. CASE (RunHere(r) \/ Reap(r)) /\ ~Break(r)
    <3>1. /\ (RunHere(r) /\ Make(r, Rehashed(r))) \/ (Reap(r) /\ Make(r, stale))
          /\ ~cleaning /\ r \notin Phony /\ Touched(r) = {{}}
      BY <1>2, <2>4, LoadCommands
    <3>2. status'[r] = "built" /\ cmd'[r] = Commands[r][loaded]
      BY <3>1 DEF Make, TypeOK
    <3>3. r \notin Dependents(r)
      BY <1>2, <3>2 DEF Dependents, HashedOK
    <3>4. Hashed(r)'
      <4>1. CASE RunHere(r) /\ Make(r, Rehashed(r))
        <5>1. stale' = (stale \ {r}) \union Dependents(r) /\ hashed'[r] = Deps[r]
          BY <1>3, <3>1, <4>1 DEF RunHere, Make, Rehashed, StoreHash, TypeOK
        <5> QED
          BY <3>3, <5>1 DEF Hashed
      <4>2. CASE Reap(r) /\ Make(r, stale)
        <5>1. stale' = stale \union Dependents(r) /\ hashed' = hashed /\ r \in running
          BY <3>1, <4>2 DEF Reap, Make
        <5>2. Hashed(r)
          BY <1>2, <1>5, <5>1 DEF EngineOK
        <5> QED
          BY <3>3, <5>1, <5>2 DEF Hashed
      <4> QED
        BY <3>1, <4>1, <4>2
    <3> QED
      BY <1>1, <3>2, <3>4 DEF Recorded
  <2> QED
    BY <2>1, <2>2, <2>3, <2>4
<1>8. \A q \in ForLoads : /\ status'[q] = "running" => Hashed(q)'
                          /\ status'[q] \in Settled => Recorded(q)'
  BY <1>6, <1>7
<1> QED
  BY <1>8 DEF SettledOK

\* Load files that will not be made again stay so.
LEMMA TurnKept ==
    ASSUME LoadsSettle, TypeOK, IInv, ~loadfailed, pc = "load",
           NEW r \in Rules, UpToDate(r) \/ RunHere(r) \/ Fork(r) \/ Reap(r) \/ FailDeps(r),
           NEW T \in SUBSET LoadRules, Kept(T)
    PROVE  Kept(T)'
<1> USE DEF IInv
<1>1. loaded' = loaded
  BY EngineKeeps
<1>2. /\ r \in ForLoads /\ (Visit(r) \/ r \in running)
      /\ \A q \in Rules : q # r => status'[q] = status[q]
  BY TurnsForLoads
<1>3. \A l \in T : l \in LoadRules /\ l \in LoadFiles /\ l \in Rules
  BY DEF LoadRules
<1>4. CASE UpToDate(r) \/ FailDeps(r)
  <2>1. UNCHANGED <<conf, exists, running, cache>> /\ status'[r] # "built"
    BY <1>4 DEF UpToDate, FailDeps, spec, files, LoopTypeOK
  <2>2. \A l \in T : status[l] # "built" => status'[l] # "built"
    BY <1>2, <1>3, <2>1
  <2>3. \A q \in Rules : Recorded(q)' <=> Recorded(q)
    BY <1>1, <2>1 DEF Recorded, Hashed, cache
  <2>4. \A l \in T : Under(l) \subseteq Rules
    BY UnderProps
  <2> QED
    BY <1>1, <2>1, <2>2, <2>3, <2>4 DEF Kept
<1>5. CASE RunHere(r) \/ Fork(r) \/ Reap(r)
  <2>1. ASSUME NEW l \in T PROVE r \notin Under(l)
    <3> SUFFICES ASSUME r \in Under(l) PROVE FALSE
      OBVIOUS
    <3>1. r \in exists \ running /\ Recorded(r)
      BY <2>1 DEF Kept
    <3>2. OutOfDate(r)
      BY <1>5, <3>1 DEF RunHere, Fork, Reap
    <3>3. r \notin Phony /\ Deps[r] \intersect Declared = Deps[r]
      BY <1>2, UnderProps, LoadNeeds
    <3> QED
      BY <3>1, <3>2, <3>3 DEF OutOfDate, Unchanged, Recorded, Hashed, Forced
  <2>2. ASSUME NEW l \in T, NEW q \in Under(l)
        PROVE  q \in exists' \ running' /\ Recorded(q)'
    <3>1. q # r /\ r \notin Deps[q] /\ q \in Rules
      BY <1>3, <2>1, <2>2, UnderProps
    <3>2. q \in exists \ running /\ q \notin stale /\ hashed[q] = Deps[q] /\ cmd[q] = Commands[q][loaded]
      BY <2>2 DEF Kept, Recorded, Hashed
    <3> QED
      BY <1>1, <3>1, <3>2, TurnKeeps DEF Recorded, Hashed
  <2>3. ASSUME NEW l \in T PROVE status'[l] # "built" /\ conf'[l] = loaded'[l]
    <3>1. l # r
      BY <1>3, <2>1, UnderProps
    <3>2. conf'[l] = conf[l]
      BY <1>3, <3>1, TurnKeeps
    <3> QED
      BY <1>1, <1>2, <1>3, <3>1, <3>2 DEF Kept
  <2> QED
    BY <2>2, <2>3 DEF Kept
<1> QED
  BY <1>4, <1>5

\* What one step keeps; the bound on reloads only changes while Load files are built.
ReloadGoal == SettledOK' /\ BuiltOK' /\ ReloadsOK' /\ (pc' # "load" => reloads' = reloads)

LEMMA SettleTurn ==
    ASSUME LoadsSettle, TypeOK, IInv, HashedOK, ~loadfailed, unsettled = {}, SettledOK, BuiltOK, ReloadsOK,
           NEW r \in Rules, UpToDate(r) \/ RunHere(r) \/ Fork(r) \/ Reap(r) \/ FailDeps(r)
    PROVE  ReloadGoal
<1>1. UNCHANGED <<pc, reload, reloads>>
  BY EngineKeeps DEF IInv
<1>2. CASE pc # "load"
  BY <1>1, <1>2 DEF ReloadGoal, SettledOK, BuiltOK, ReloadsOK
<1>3. CASE pc = "load"
  <2>1. SettledOK'
    BY <1>3, TurnSettles
  <2>2. BuiltOK'
    <3>1. status[r] \in {"unknown", "running"} /\ \A q \in Rules : q # r => status'[q] = status[q]
      BY <1>3, TurnsForLoads DEF IInv
    <3> QED
      BY <1>1, <3>1 DEF BuiltOK, LoadRules
  <2>3. PICK T \in SUBSET LoadRules : Kept(T) /\ reloads <= Cardinality(T)
    BY <1>3 DEF ReloadsOK
  <2>4. Kept(T)'
    BY <1>3, <2>3, TurnKept
  <2> QED
    BY <1>1, <1>3, <2>1, <2>2, <2>3, <2>4 DEF ReloadGoal, ReloadsOK
<1> QED
  BY <1>2, <1>3

\* A step that changes nothing that is recorded.
LEMMA SettleQuiet ==
    ASSUME SettledOK, ReloadsOK, UNCHANGED <<conf, loaded, exists, cache, status, running, reloads>>,
           pc = "load" /\ pc' = "load", reload' => reload \/ ~Calm
    PROVE  SettledOK' /\ ReloadsOK'
<1>1. \A q : (Hashed(q)' <=> Hashed(q)) /\ (Recorded(q)' <=> Recorded(q))
  BY DEF Hashed, Recorded, cache
<1>2. SettledOK'
  BY <1>1 DEF SettledOK, Calm
<1>3. ASSUME NEW T \in SUBSET LoadRules, Kept(T) PROVE Kept(T)'
  BY <1>1, <1>3 DEF Kept
<1> QED
  BY <1>2, <1>3 DEF ReloadsOK

LEMMA SettleNextTarget ==
    ASSUME LoadsSettle, IInv, CalmOK, NextTarget PROVE ReloadGoal
<1>1. /\ pc = "next" /\ exitcode = 0
      /\ UNCHANGED <<loaded, cache, status>>
  BY DEF NextTarget, spec, engine
<1>2. CASE goal' \in CleanTargets
  <2>1. pc' = "build" /\ reloads' = reloads
    BY <1>2 DEF NextTarget
  <2> QED
    BY <2>1 DEF ReloadGoal, SettledOK, BuiltOK, ReloadsOK
<1>3. CASE goal' \notin CleanTargets
  <2>1. pc' = "load" /\ reload' = FALSE /\ reloads' = 0
    BY <1>3 DEF NextTarget
  <2>2. ASSUME Calm PROVE SettledOK'
    BY <1>1, <2>1, <2>2 DEF SettledOK, Calm
  <2>3. ASSUME \A r \in Rules : status[r] = "unknown" PROVE SettledOK'
    <3>1. \A r \in ForLoads : r \in Rules
      BY UnderProps
    <3> QED
      BY <1>1, <2>3, <3>1 DEF SettledOK, Settled
  <2>4. SettledOK'
    BY <1>1, <2>2, <2>3 DEF CalmOK
  <2>5. PICK T \in SUBSET LoadRules : T = {}
    OBVIOUS
  <2>6. Kept(T)'
    BY <2>5 DEF Kept
  <2>7. 0 <= Cardinality(T)
    BY LoadsFinite
  <2>8. ReloadsOK'
    BY <2>1, <2>6, <2>7 DEF ReloadsOK
  <2> QED
    BY <2>1, <2>4, <2>8 DEF ReloadGoal, BuiltOK
<1> QED
  BY <1>2, <1>3

LEMMA SettleLoads ==
    ASSUME LoadsSettle, IInv, SettledOK, BuiltOK, ReloadsOK, LoadPlain \/ LoadAnswer
    PROVE  ReloadGoal
<1>1. /\ pc = "load" /\ pc' = "load"
      /\ UNCHANGED <<conf, loaded, exists, cache, status, running, reloads>>
  BY DEF LoadPlain, LoadAnswer, spec, files, engine
<1>2. reload' => reload \/ \E l \in LoadRules : status[l] = "built"
  <2>1. CASE LoadPlain
    BY <2>1 DEF LoadPlain
  <2>2. CASE LoadAnswer
    <3>1. Target \in LoadRules /\ reload' = (reload \/ status[Target] = "built")
      BY <2>2, LoadNeeds DEF LoadAnswer, IInv
    <3> QED
      BY <3>1
  <2> QED
    BY <2>1, <2>2
<1>3. SettledOK' /\ ReloadsOK'
  BY <1>1, <1>2, SettleQuiet DEF Calm
<1>4. BuiltOK'
  BY <1>1, <1>2 DEF BuiltOK
<1> QED
  BY <1>1, <1>3, <1>4 DEF ReloadGoal

\* Commands that ignore some Load files ignore fewer of them.
LEMMA IgnoresLess ==
    ASSUME NEW q, NEW A, NEW B, B \subseteq A, Ignores(q, A) PROVE Ignores(q, B)
BY DEF Ignores

\* When the descriptions are read again, one more Load file has been made for good: one
\* that needs nothing from those that are left.
LEMMA SettleReload ==
    ASSUME LoadsSettle, TypeOK, IInv, CalmOK, PlainOK, ~loadfailed, SettledOK, BuiltOK, ReloadsOK, Reload
    PROVE  ReloadGoal
<1> USE DEF IInv
<1>1. /\ pc = "load" /\ pc' = "load" /\ loadq = <<>> /\ reload = TRUE /\ reload' = FALSE
      /\ status' = [r \in Rules |-> "unknown"] /\ running' = {} /\ reloads' = reloads + 1
      /\ conf' = conf /\ loaded' = conf /\ UNCHANGED <<exists, cache>>
  BY DEF Reload, LoadsDone, MustReload, ReloadsNow, files
<1>2. PICK T \in SUBSET LoadRules : Kept(T) /\ reloads <= Cardinality(T)
  BY <1>1 DEF ReloadsOK
<1>3. \A l \in LoadRules : status[l] \in Settled
  BY <1>1 DEF CalmOK, Settled
<1>4. \A q \in ForLoads : status[q] \in Settled /\ q \in exists
  BY <1>1, <1>3, LoadsSettled
<1>5. \A q \in ForLoads : Recorded(q)
  BY <1>1, <1>4 DEF SettledOK
<1> DEFINE S == LoadRules \ T
<1>6. S # {}
  <2>1. PICK l \in LoadRules : status[l] = "built"
    BY <1>1 DEF BuiltOK
  <2> QED
    BY <1>2, <2>1 DEF Kept
<1>7. PICK l \in S : \A q \in Under(l) : Ignores(q, S \union Edited)
  <2>1. S \in SUBSET LoadRules
    OBVIOUS
  <2> QED
    BY <1>6, <2>1 DEF LoadsSettle
<1>8. PICK U \in SUBSET LoadRules : U = T \union {l}
  OBVIOUS
<1>9. \A k \in LoadFiles \ (S \union Edited) : conf[k] = loaded[k]
  <2> SUFFICES ASSUME NEW k \in LoadFiles, k \notin S, k \notin Edited PROVE conf[k] = loaded[k]
    OBVIOUS
  <2>1. CASE k \in T
    BY <1>2, <2>1 DEF Kept
  <2>2. CASE k \notin T
    <3>1. k \in LoadFiles \ Rules
      BY <2>2 DEF LoadRules
    <3>2. Edits = {}
      BY <3>1 DEF Edited
    <3> QED
      BY <3>1, <3>2 DEF PlainOK
  <2> QED
    BY <2>1, <2>2
<1>10. conf \in AllTexts /\ loaded \in AllTexts
  BY DEF TypeOK, AllTexts
<1>11. ASSUME NEW q \in ForLoads, Ignores(q, S \union Edited)
       PROVE  Recorded(q)' /\ Ignores(q, (LoadRules \ U) \union Edited)
  <2>1. Commands[q][conf] = Commands[q][loaded]
    BY <1>9, <1>10, <1>11 DEF Ignores
  <2>2. Recorded(q)'
    BY <1>1, <1>5, <2>1 DEF Recorded, Hashed, cache
  <2>3. (LoadRules \ U) \union Edited \subseteq S \union Edited
    BY <1>8
  <2>4. Ignores(q, (LoadRules \ U) \union Edited)
    BY <1>11, <2>3, IgnoresLess
  <2> QED
    BY <2>2, <2>4
<1>12. Kept(U)'
  <2> SUFFICES ASSUME NEW k \in U
               PROVE  /\ status'[k] # "built" /\ conf'[k] = loaded'[k]
                      /\ \A q \in Under(k) : /\ q \in exists' \ running' /\ Recorded(q)'
                                             /\ Ignores(q, (LoadRules \ U) \union Edited)
    BY DEF Kept
  <2>1. status'[k] # "built" /\ conf'[k] = loaded'[k]
    BY <1>1 DEF LoadRules
  <2>2. \A q \in Under(k) : q \in ForLoads /\ Ignores(q, S \union Edited)
    BY <1>2, <1>7, <1>8, UnderProps DEF Kept
  <2> QED
    BY <1>1, <1>4, <1>11, <2>1, <2>2
<1>13. reloads' <= Cardinality(U)
  <2>1. Cardinality(T) \in Nat /\ Cardinality(U) \in Nat
    BY LoadsFinite
  <2>2. T \subseteq U /\ T # U
    BY <1>8
  <2>3. Cardinality(T) + 1 <= Cardinality(U)
    BY <2>2, LoadsFinite
  <2>4. reloads \in Nat
    BY DEF TypeOK, MaxReload
  <2> QED
    BY <1>1, <1>2, <2>1, <2>3, <2>4
<1>14. \A q \in ForLoads : status'[q] = "unknown"
  BY <1>1, UnderProps
<1>15. SettledOK' /\ BuiltOK' /\ ReloadsOK'
  BY <1>1, <1>12, <1>13, <1>14 DEF SettledOK, BuiltOK, ReloadsOK, Settled
<1> QED
  BY <1>1, <1>15 DEF ReloadGoal

LEMMA SettleOthers ==
    ASSUME IInv, SettledOK, BuiltOK, ReloadsOK, ~loadfailed,
           \/ GiveUp \/ DeleteOrphans \/ GoalBuilt \/ GoalFails \/ LoopDone \/ Exit
           \/ (\E r \in Rules : StrayEnds(r)) \/ Gone \/ UNCHANGED vars
    PROVE  ReloadGoal
<1>1. CASE GiveUp \/ DeleteOrphans \/ GoalBuilt \/ GoalFails \/ LoopDone \/ Exit
  <2>1. pc' # "load" /\ reloads' = reloads
    BY <1>1 DEF GiveUp, DeleteOrphans, GoalBuilt, GoalFails, LoopDone, Exit, loop
  <2> QED
    BY <2>1 DEF ReloadGoal, SettledOK, BuiltOK, ReloadsOK
<1>2. ~\E r \in Rules : StrayEnds(r)
  BY DEF IInv, FilesOK, StrayEnds
<1>3. CASE Gone \/ UNCHANGED vars
  <2>1. UNCHANGED <<conf, loaded, exists, cache, status, running, pc, reload, reloads>>
    BY <1>3 DEF Gone, vars, spec, files, engine, loop
  <2>2. CASE pc = "load"
    BY <2>1, <2>2, SettleQuiet DEF ReloadGoal, BuiltOK
  <2>3. CASE pc # "load"
    BY <2>1, <2>3 DEF ReloadGoal, SettledOK, BuiltOK, ReloadsOK
  <2> QED
    BY <2>2, <2>3
<1> QED
  BY <1>1, <1>2, <1>3

\* A hash lists dependencies, by whatever description.
LEMMA HashedStep == HashedOK /\ TypeOK /\ [Next]_vars => HashedOK'
<1> SUFFICES ASSUME HashedOK, TypeOK, [Next]_vars PROVE HashedOK'
  OBVIOUS
<1>1. ASSUME NEW r \in Rules, StoreHash(r) PROVE HashedOK'
  BY <1>1 DEF HashedOK, StoreHash, TypeOK
<1>2. ASSUME hashed' = hashed PROVE HashedOK'
  BY <1>2 DEF HashedOK
<1>3. (\E r \in Rules : StoreHash(r)) \/ hashed' = hashed
  BY DEF Next, Tmake, UpToDate, RunHere, Fork, Reap, FailDeps, NextTarget, LoadPlain, LoadAnswer, LoadFails,
         Reload, GiveUp, DeleteOrphans, GoalBuilt, GoalFails, LoopDone, Exit, StrayEnds, Gone, vars, cache
<1> QED
  BY <1>1, <1>2, <1>3

LEMMA ReloadInvStep ==
    ASSUME LoadsSettle, TypeOK, TypeOK', IInv, CalmOK, PlainOK, ReloadInv, [Next]_vars
    PROVE  ReloadInv'
<1>1. HashedOK'
  BY HashedStep DEF ReloadInv
<1> SUFFICES ASSUME unsettled' = {}, ~loadfailed' PROVE ReloadParts'
  BY <1>1 DEF ReloadInv
<1>2. unsettled = {}
  BY DEF Next, Tmake, UpToDate, RunHere, Fork, Reap, FailDeps, NextTarget, LoadPlain, LoadAnswer, LoadFails,
         Reload, GiveUp, DeleteOrphans, GoalBuilt, GoalFails, LoopDone, Exit, StrayEnds, Gone, vars, config
<1>3. ~loadfailed /\ ~LoadFails
  BY DEF Next, Tmake, UpToDate, RunHere, Fork, Reap, FailDeps, NextTarget, LoadPlain, LoadAnswer, LoadFails,
         Reload, GiveUp, DeleteOrphans, GoalBuilt, GoalFails, LoopDone, Exit, StrayEnds, Gone, vars, loop
<1>4. HashedOK /\ SettledOK /\ BuiltOK /\ ReloadsOK /\ Stabilises
  BY <1>2, <1>3 DEF ReloadInv, ReloadParts
<1>5. ReloadGoal
  BY <1>2, <1>3, <1>4, SettleTurn, SettleNextTarget, SettleLoads, SettleReload, SettleOthers DEF Next, Tmake
<1>6. ~(reloads' > Cardinality(LoadRules))
  <2>1. CASE pc' # "load"
    BY <1>2, <1>3, <1>4, <1>5, <2>1 DEF ReloadGoal, Stabilises, LoadRules
  <2>2. CASE pc' = "load"
    <3>1. PICK T \in SUBSET LoadRules : reloads' <= Cardinality(T)
      BY <1>5, <2>2 DEF ReloadGoal, ReloadsOK
    <3>2. /\ Cardinality(T) \in Nat /\ Cardinality(LoadRules) \in Nat
          /\ Cardinality(T) <= Cardinality(LoadRules)
      BY LoadsFinite
    <3>3. reloads' \in Nat
      BY DEF TypeOK, MaxReload
    <3> QED
      BY <3>1, <3>2, <3>3
  <2> QED
    BY <2>1, <2>2
<1> QED
  BY <1>5, <1>6 DEF ReloadGoal, ReloadParts, Stabilises, LoadRules

LEMMA InitReloadInv == Init => ReloadInv
<1> SUFFICES ASSUME Init PROVE ReloadInv
  OBVIOUS
<1>1. pc = "next" /\ reloads = 0
  BY DEF Init
<1>2. Cardinality(LoadRules) \in Nat
  BY LoadsFinite
<1>3. Stabilises
  BY <1>1, <1>2 DEF Stabilises, LoadRules
<1>4. HashedOK
  BY DEF Init, HashedOK
<1> QED
  BY <1>1, <1>3, <1>4 DEF ReloadInv, ReloadParts, SettledOK, BuiltOK, ReloadsOK

\* Load files settle (561-570): as long as none fails, tmake loads the descriptions
\* again at most once for every Load file that a rule makes, unless what they are made
\* from is always out of date, or what they contain goes into the commands that make
\* them, one through the other.
THEOREM LoadFilesSettle ==
    ASSUME LoadsSettle PROVE Spec => []Stabilises
<1>1. ASSUME TypeOK, IInv, CurrentInv, TypeOK', ReloadInv, [Next]_vars PROVE ReloadInv'
  BY <1>1, ReloadInvStep DEF CurrentInv
<1>2. ReloadInv => Stabilises
  BY DEF ReloadInv, ReloadParts, Stabilises
<1> QED
  BY InitReloadInv, <1>1, <1>2, LoopInvariance, DriverType, CurrentInvariance, PTL DEF Spec
=============================================================================
