------------------------- MODULE IncrementalInvariant -------------------------
(***************************************************************************)
(* What the cache, the files and the engine know of each other, during a   *)
(* run of tmake and between two runs: the inductive invariant behind the   *)
(* soundness of skipping a target.                                         *)
(***************************************************************************)
EXTENDS Incremental, ExitInvariant

\* Where the cache can be trusted.  Each part excludes a way of leaving tmake,
\* or a kind of rule, after which the cache vouches for a target that is not
\* right: a signal, or -q, ends tmake when the hash of the dependencies is
\* stored already and the commands have not finished; so does the refusal to run
\* commands as root; and commands that succeeded without leaving a target are
\* remembered, so that with nothing else to compare a part of the target is
\* taken for the whole when tmake is killed while making it again.  And no rule
\* has -dyndep: what a scan finds may grow from run to run, and a target is then
\* made again though nothing has changed.
CacheSafe ==
    /\ NoDyndeps
    /\ ~Signals
    /\ QuickStop => MaxJobs = 1
    /\ TRUE \in Users => HasDo \subseteq RootOk
    /\ "kill" \in Faults => \A r \in (HasDo \intersect MayMiss) \ Phony : RuleDeps(r) # {}

\* The rules whose targets are files made by commands.
Products == HasDo \ Phony

Stamps == (Node \union {None}) \X Nat
Origin == [from : SUBSET Stamps, text : Nat, whole : BOOLEAN]

ITypeOK ==
    /\ ver \in [Node -> Nat]
    /\ text \in [Rules -> Nat \ {0}]
    /\ dephash \in [Rules -> SUBSET Stamps]
    /\ cmd \in [Rules -> Nat]
    /\ disk \in [dephash : [Rules -> SUBSET Stamps], cmd : [Rules -> Nat]]
    /\ made \in [Rules -> Origin]
    /\ reads \in [Rules -> Origin]
    /\ edited \in BOOLEAN /\ null \in BOOLEAN
    /\ fault \in Faults \union {"killed"}

\* What the world outside of tmake is like.
WorldOK == /\ Signals \/ ~signal
           /\ isroot \in Users
           /\ \A r \in Phony : ~exists[r]

\* What is remembered is about the past.
Past(hash) == \A s \in hash : s[1] \in Node => s[2] <= ver[s[1]]

PastOK(r) ==
    /\ Past(dephash[r]) /\ Past(disk.dephash[r])
    /\ cmd[r] <= text[r] /\ disk.cmd[r] <= text[r]

\* The cache of the running tmake knows r as it is.
Known(r) == Matches(r, dephash[r], cmd[r])

\* The cache on the disk does.
Saved(r) == Matches(r, disk.dephash[r], disk.cmd[r])

Alive == mode # "exited"

\* The commands of r are about to run, or run, or wait to be reaped.
Flying(r) == child[r] # "none" \/ act[r].pc = "run"

\* Only rules with commands run, and while they do so they are counted.
CommandsOK(r) ==
    /\ Flying(r) \/ started[r] # 0 => r \in HasDo
    /\ child[r] # "none" => started[r] # 0
    /\ mode = "exiting" => act[r].pc # "run"


\* build has entered r and has not decided about it.
Entered(r) == act[r].pc \in DepLoops \union {"sync", "wait", "decide"}

\* build has answered, or is about to answer, that r is built or up to date.
Answers(r) == \/ status[r] \in Settled
              \/ act[r].pc = "return" /\ act[r].st \in Settled

\* A target that is not there has been noticed.
EnteredOK(r) ==
    Entered(r) => (act[r].st = "built" <=> ~exists[r])

\* A target that the cache knows as it is, is right.
KnownOK(r) == ~Flying(r) /\ exists[r] /\ Known(r) => made[r] = Inputs(r)

\* Commands in a child have read what the cache says, or the cache is behind.
ChildOK(r) ==
    child[r] # "none" =>
        /\ reads[r].text = text[r] /\ reads[r].whole
        /\ (RuleDeps(r) # {} => dephash[r] = Hash(r)) => reads[r].from = Hash(r)
        /\ child[r] = "ok" => IF exists[r] THEN made[r] = reads[r] ELSE r \in MayMiss

\* Whatever would be skipped, if this tmake were gone, is right.
SavedOK(r) == mode = "exited" \/ fault = "kill" => (exists[r] /\ Saved(r) => made[r] = Inputs(r))

\* As long as tmake may be killed, a target that may get lost or torn is not
\* known as it is to the cache on the disk.
KillOK(r) ==
    fault = "kill" =>
        /\ ~exists[r] => ~Saved(r)
        /\ Alive =>
             /\ started[r] # 0 \/ act[r].pc = "run" => ~Saved(r)
             /\ started[r] = 0 /\ act[r].pc # "run" =>
                  /\ RuleDeps(r) # {} => dephash[r] = disk.dephash[r]
                  /\ cmd[r] = disk.cmd[r]
             /\ Flying(r) => cmd[r] = disk.cmd[r]
             /\ ~Flying(r) /\ ~exists[r] => ~Known(r)

\* Nothing was edited, and nothing has been reported.
Calm == /\ ~edited
        /\ (mode = "build" /\ exitcode = 0) \/ (mode = "exiting" /\ code = 0)

\* Then rules that are settled are known as they are.
SettledOK(r) ==
    Calm =>
        /\ Answers(r) => exists[r] /\ Known(r)
        /\ Flying(r) => (RuleDeps(r) # {} => dephash[r] = Hash(r))

\* Afterwards the cache on the disk knows all that was needed.
DoneOK == mode = "exited" /\ ~edited => \A r \in Below \intersect Products : exists[r] /\ Saved(r)

\* And in the next run there is nothing to do.
NullOK(r) ==
    null => /\ started[r] = 0 /\ ~Flying(r)
            /\ Alive /\ r \in Below => exists[r] /\ Known(r)

RuleOK(r) == PastOK(r) /\ CommandsOK(r)

ProductOK(r) ==
    /\ Alive => EnteredOK(r) /\ KnownOK(r) /\ ChildOK(r) /\ SettledOK(r)
    /\ SavedOK(r) /\ KillOK(r) /\ NullOK(r)

\* Inductive together with IInv and XInv.
KInv ==
    /\ ITypeOK /\ WorldOK /\ DoneOK
    /\ \A r \in Rules : RuleOK(r)
    /\ \A r \in Products : ProductOK(r)
=============================================================================
