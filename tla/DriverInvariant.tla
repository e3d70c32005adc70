--------------------------- MODULE DriverInvariant ---------------------------
(* The inductive invariant of Driver. *)
EXTENDS Driver

\* The variables that the rest speaks of have their types.
LoopTypeOK ==
    /\ conf \in [LoadFiles -> Contents \union {None}]
    /\ loaded \in [LoadFiles -> Contents \union {None}]
    /\ status \in [Rules -> {"unknown", "uptodate", "built", "failed", "running"}]
    /\ running \subseteq Rules
    /\ loadq \in Seq(LoadFiles)
    /\ exitcode \in {0, 1}
    /\ pc \in {"next", "load", "build", "exit", "gone"}
    /\ cleaning \in BOOLEAN /\ resetstatus \in BOOLEAN /\ loadfailed \in BOOLEAN

\* As long as no Load file has failed, or since the descriptions were read
\* again, the statuses and the jobs are those of the calls of build-sync so far:
\* what is settled, or runs, has what it needs, and jobs run only below the target
\* that is being built.
EngineOK ==
    exitcode = 0 \/ ~loadfailed =>
        /\ \A r \in Rules : status[r] = "running" <=> r \in running
        /\ \A r \in Declared : status[r] \in Settled \union {"running"} => Ready(r)
        /\ running \subseteq Declared
        /\ Calling => running \subseteq Needed(Target)
        /\ pc = "next" \/ (pc = "load" /\ ~Calling) => running = {}

\* Rules have failed then, until tmake gives up, only below that target.
OnCourse == exitcode = 0 \/ (~loadfailed /\ pc \in {"next", "load", "build"})
FailedOK ==
    OnCourse =>
        \A r \in Declared : status[r] = "failed" => Calling /\ r \in Needed(Target)

\* The end without an error.
EndOK == pc \in {"exit", "gone"} /\ exitcode = 0 => targets = <<>> /\ running = {}

\* tmake(cleaning) says whether the target is a cleaning one, and only phony
\* rules run meanwhile.
CleaningOK ==
    /\ pc \in {"next", "load"} => ~cleaning
    /\ pc = "build" => (cleaning <=> goal \in CleanTargets)
    /\ pc = "load" => goal \notin CleanTargets
    /\ cleaning => running \subseteq Phony

\* Target files are recorded, and those of settled rules are there.
FilesOK ==
    /\ ~loadfailed => exists \subseteq cached /\ stray = {}
    /\ pc \in {"next", "load", "build"} /\ ~cleaning
         => {r \in Declared \ Phony : status[r] \in Settled} \subseteq exists

\* The Load files that are made by a rule.  Targets are only built when none of them
\* has been; the loop over the Load files knows which of those it has come past was.
LoadRules == LoadFiles \intersect Rules
Calm      == \A l \in LoadRules : status[l] = "uptodate"
CalmOK ==
    exitcode = 0 \/ ~loadfailed =>
        /\ pc = "next" => Calm \/ \A r \in Rules : status[r] = "unknown"
        /\ pc = "build" /\ ~cleaning => Calm
        /\ pc = "load" => \A l \in LoadRules : \/ \E i \in DOMAIN loadq : loadq[i] = l
                                               \/ status[l] = "uptodate"
                                               \/ status[l] = "built" /\ reload

\* A phony rule is never up to date.
PhonyOK == \A r \in Rules \intersect Phony : status[r] # "uptodate"

\* A Load file that a rule makes is what it was when the descriptions were read, unless
\* it still has to be made, or has been, or could not be; without commands that write
\* them themselves, the other ones always are.
MustMake(l) == l \notin exists \/ (pc = "load" /\ status[l] \in {"built", "failed"})
CurrentOK ==
    exitcode = 0 /\ OwnLoads /\ pc \in {"next", "load", "build"} =>
        \A l \in LoadRules : loaded[l] = conf[l] \/ MustMake(l)
PlainOK == Edits = {} => \A l \in LoadFiles \ Rules : loaded[l] = conf[l]

\* The commands of r are the same whatever the Load files in S contain.
Ignores(r, S) ==
    \A t1, t2 \in AllTexts : (\A k \in LoadFiles \ S : t1[k] = t2[k]) => Commands[r][t1] = Commands[r][t2]

\* What a Load file needs, and the Load files that commands may write by themselves.
Under(l) == Below[Rules][l]
Edited   == IF Edits = {} THEN {} ELSE LoadFiles \ Rules

\* Load files settle if what they are made from does: no phony rule, none that only
\* some descriptions declare, none that calls reset-target-status; and if there is an
\* order of them in which nothing that one needs is made by commands that use
\* variables of that one, of a later one, or of one that is edited.
LoadsSettle ==
    /\ ForLoads \intersect (Phony \union Optional \union Resets) = {}
    /\ \A S \in SUBSET LoadRules :
          S # {} => \E l \in S : \A q \in Under(l) : Ignores(q, S \union Edited)

\* What the cache lists are dependencies.
HashedOK == \A r \in Rules : hashed[r] \subseteq Deps[r]

\* While Load files are built, what counts as done is recorded as it is now, unless
\* all Load files are up to date and nothing will be built.
Hashed(r)   == r \notin stale /\ hashed[r] = Deps[r]
Recorded(r) == Hashed(r) /\ cmd[r] = Commands[r][loaded]
SettledOK ==
    pc = "load" => \/ \A r \in ForLoads : /\ status[r] = "running" => Hashed(r)
                                          /\ status[r] \in Settled => Recorded(r)
                   \/ Calm /\ ~reload /\ reloads = 0

\* A reload is due to a Load file.
BuiltOK == pc = "load" /\ reload => \E l \in LoadRules : status[l] = "built"

\* Load files that will not be made again: all that they need is there as recorded,
\* and no commands below them use what the other Load files contain.
Kept(T) ==
    \A l \in T :
       /\ status[l] # "built" /\ conf[l] = loaded[l]
       /\ \A q \in Under(l) : /\ q \in exists \ running
                              /\ Recorded(q)
                              /\ Ignores(q, (LoadRules \ T) \union Edited)

\* Every reload is due to another Load file that is built for good.
ReloadsOK == pc = "load" => \E T \in SUBSET LoadRules : Kept(T) /\ reloads <= Cardinality(T)

ReloadParts == SettledOK /\ BuiltOK /\ ReloadsOK /\ Stabilises
ReloadInv   == HashedOK /\ (unsettled = {} /\ ~loadfailed => ReloadParts)

IInv == LoopTypeOK /\ EngineOK /\ FailedOK /\ EndOK /\ CleaningOK /\ FilesOK
=============================================================================
