---------------------------- MODULE Descriptions ----------------------------
(***************************************************************************)
(* How tmake reads the descriptions of a project: project.spec, then the   *)
(* build.spec files of the directories, by load-build-description and      *)
(* process-build-spec-file, with the commands that matter to others: the   *)
(* define family, Scope, VirtualSubDir, SubDirs, AutoSubDirs, ifconfig and *)
(* the declarations of rules.                                              *)
(*                                                                         *)
(* What the descriptions contain is chosen while they are read.  The value *)
(* of a variable is the list of the scopes (project.spec is 0) that have   *)
(* contributed to it, empty when it is not set.                            *)
(***************************************************************************)
EXTENDS RuleBase, FiniteSets, SequencesExt

CONSTANTS
    Dirs,       \* the directories of the project; d also stands for the rule d/all
    Top,        \* "."
    Parent,     \* Parent[d]: file dirname
    Name,       \* Name[d]: file tail
    Listing,    \* Listing[d]: the subdirectories of d with a build.spec, in the order of readdir
    Virtual,    \* the directories that are given to VirtualSubDir
    ScopeDirs,  \* those that are given to Scope, None for none
    Vars,       \* variables
    Shared,     \* rule targets that descriptions declare
    Decls,      \* and how
    Words,      \* commands and files in the declarations
    Projects,   \* the commands that the descriptions of a project use
    MaxCommands,\* bound on the commands of all descriptions together
    None

\* Those of the elements of list, in its order, that are in set.
Those(list, set) ==
    LET those[i \in 0 .. Len(list)] ==
            IF i = 0 THEN <<>>
            ELSE IF list[i] \in set THEN Append(those[i - 1], list[i]) ELSE those[i - 1]
    IN  those[Len(list)]

WithSpec == {Top} \union UNION {Range(Listing[d]) : d \in Dirs}

ASSUME DescriptionsAssumption ==
    /\ Top \in Dirs /\ None \notin Dirs
    /\ Parent \in [Dirs -> Dirs]
    /\ Listing \in [Dirs -> Seq(Dirs)]
    /\ \A d \in Dirs : \A c \in Range(Listing[d]) : Parent[c] = d /\ c # Top
    /\ Virtual \subseteq Dirs \ WithSpec
    /\ ScopeDirs \subseteq Dirs \union {None}
    /\ Shared \intersect Dirs = {}
    /\ \A c, d \in WithSpec : Parent[c] = Parent[d] /\ Name[c] = Name[d] => c = d
    /\ Decls \subseteq Declarations(Words)
    /\ MaxCommands \in Nat

VARIABLES
    uses,       \* the commands that the descriptions use: a member of Projects
    pc,         \* "body" of a description, its "epilog", "walk" between them; "done" or "failed"
    open,       \* the descriptions and scopes that are being read, the innermost last
    rc,         \* how the description that is in its epilog has ended
    defines,    \* tmake(defines)
    fixed,      \* tmake(fixedvars)
    frame,      \* the variables of stack frame #1
    localdir,   \* tmake(localdir)
    todo,       \* the directories still to be read
    subdirs,    \* tmake(subdirs)
    auto,       \* tmake(autosubdirs)
    skip,       \* tmake(skipsubdirs)
    rules,      \* tmake(rules)
    count,      \* the number of commands so far
    ids,        \* the number of scopes so far
    log,        \* history: the define commands of the scopes that are still open
    escaped,    \* history: the descriptions in which a scope was left before its end
    entered,    \* history: the directories read
    listed,     \* history: the directories whose subdirectories were due
    nested,     \* history: SubDirs was used below the top directory
    erred,      \* history: a description had an error
    declared    \* history: the declarations of each shared rule

scope   == <<defines, fixed, frame, log>>
place   == <<open, localdir, ids, escaped>>
walk    == <<todo, subdirs, auto, skip, entered, listed, nested>>
base    == <<rules, declared>>
control == <<uses, pc, rc, count, erred>>
vars    == <<scope, place, walk, base, control>>

Unset == [v \in Vars |-> <<>>]

Init ==
    /\ uses \in Projects
    /\ pc = "body" /\ rc = "ok"
    /\ open = <<[kind |-> "project", id |-> 0, dir |-> Top, within |-> FALSE,
                 defines |-> Unset, localdir |-> Top]>>
    /\ defines = Unset /\ fixed = {} /\ frame = Unset
    /\ localdir = Top
    /\ todo = <<Top>> /\ subdirs = <<>> /\ auto = TRUE /\ skip = {}
    /\ rules = Target(<<>>, Top, [Plain EXCEPT !.phony = TRUE])
    /\ count = 0 /\ ids = 0
    /\ log = <<>> /\ escaped = {} /\ entered = {} /\ listed = {} /\ nested = FALSE
    /\ erred = FALSE /\ declared = [t \in Shared |-> <<>>]

Here == Last(open)

\* The commands of a description; their number is bounded.
Command(name) ==
    /\ pc = "body" /\ name \in uses
    /\ count < MaxCommands /\ count' = count + 1
    /\ UNCHANGED <<uses, pc, rc, erred>>

-----------------------------------------------------------------------------
(* The define family. *)

Mine == <<Here.id>>

Logged(op, v) == log' = Append(log, [id |-> Here.id, op |-> op, var |-> v])

\* define-var: in frame #1 the variable changes with the definition.
DefineVar(v, value, force) ==
    /\ defines' = IF v \in fixed /\ ~force THEN defines ELSE [defines EXCEPT ![v] = value]
    /\ frame'   = IF v \in fixed /\ ~force THEN frame   ELSE [frame   EXCEPT ![v] = value]

Define(v) ==
    /\ Command("define")
    /\ DefineVar(v, Mine, FALSE)
    /\ Logged("define", v)
    /\ UNCHANGED <<fixed, place, walk, base>>

DefineFixed(v) ==
    /\ Command("define!")
    /\ fixed' = fixed \union {v}
    /\ DefineVar(v, Mine, TRUE)
    /\ Logged("define!", v)
    /\ UNCHANGED <<place, walk, base>>

DefineDefault(v) ==
    /\ Command("define?")
    /\ IF defines[v] = <<>> THEN DefineVar(v, Mine, FALSE) ELSE UNCHANGED <<defines, frame>>
    /\ Logged("define?", v)
    /\ UNCHANGED <<fixed, place, walk, base>>

DefineAppend(v) ==
    /\ Command("define-append")
    /\ DefineVar(v, defines[v] \o Mine, FALSE)
    /\ Logged("define-append", v)
    /\ UNCHANGED <<fixed, place, walk, base>>

-----------------------------------------------------------------------------
(* Scopes and descriptions begin and end. *)

\* Mutant: the local directory is changed even when none is given.
EnterAlways(kind, dir) ==
    /\ ids' = ids + 1
    /\ open' = Append(open, [kind |-> kind, id |-> ids', within |-> TRUE,
                             dir |-> IF dir = None THEN Here.dir ELSE dir,
                             defines |-> defines, localdir |-> localdir])
    /\ localdir' = dir

\* Scope, up to its script: dir is None when none is given.
Enter(kind, dir) ==
    /\ ids' = ids + 1
    /\ open' = Append(open, [kind |-> kind, id |-> ids', within |-> dir # None,
                             dir |-> IF dir = None THEN Here.dir ELSE dir,
                             defines |-> defines, localdir |-> localdir])
    /\ localdir' = IF dir = None THEN localdir ELSE dir

\* Mutant: the variables of the scope stay behind.
LeaveNoReset(scopes, saved) ==
    /\ open' = scopes
    /\ defines' = saved.defines
    /\ localdir' = IF saved.within THEN saved.localdir ELSE localdir
    /\ UNCHANGED frame

\* Mutant: what was defined in the scope stays defined.
LeaveNoRestore(scopes, saved) ==
    /\ open' = scopes
    /\ localdir' = IF saved.within THEN saved.localdir ELSE localdir
    /\ UNCHANGED <<defines, frame>>

\* Scope, after its script: tmake-reset-defines makes frame #1 agree.
Leave(scopes, saved) ==
    /\ open' = scopes
    /\ defines' = saved.defines
    /\ localdir' = IF saved.within THEN saved.localdir ELSE localdir
    /\ frame' = saved.defines

\* The scopes that are open are those of scopes: what the others did is over.
Forget(scopes) ==
    log' = Those(log, {c \in Range(log) : \E i \in DOMAIN scopes : scopes[i].id = c.id})

\* rulebase-prolog: d/all, and that the all of its parent depends on it.
Prolog(d) ==
    IF d = Top THEN rules
    ELSE Target(Target(rules, d, [Plain EXCEPT !.phony = TRUE]),
                Parent[d], [Plain EXCEPT !.phony = TRUE, !.depends = <<d>>])

\* Frame #1 is that of run-do for a new description.
Begin(kind, d) ==
    /\ Enter(kind, d)
    /\ rules' = Prolog(d)
    /\ frame' = defines
    /\ entered' = entered \union {d}
    /\ UNCHANGED <<defines, fixed, log, escaped, declared>>

OpenScope(dir) ==
    /\ Command("Scope")
    /\ Enter("scope", dir)
    /\ UNCHANGED <<scope, escaped, walk, base>>

CloseScope ==
    /\ pc = "body" /\ Here.kind = "scope"
    /\ Leave(Front(open), Here)
    /\ Forget(open')
    /\ UNCHANGED <<fixed, ids, escaped, walk, base, control>>

\* A directory below this one.
Above == [d \in Dirs |-> {a \in Dirs : \E n \in 1 .. Cardinality(Dirs) :
    LET up[i \in 0 .. n] == IF i = 0 THEN d ELSE Parent[up[i - 1]] IN up[n] = a /\ d # Top}]

VirtualSubDir(d) ==
    /\ Command("VirtualSubDir")
    /\ d \in Virtual /\ localdir \in Above[d]
    /\ IF Parent[d] \in skip
         THEN skip' = skip \union {d} /\ UNCHANGED <<scope, place, base, entered>>
         ELSE Begin("virtual", d) /\ UNCHANGED skip
    /\ UNCHANGED <<todo, subdirs, auto, listed, nested>>

ReadSpec ==
    /\ pc = "walk" /\ todo # <<>>
    /\ pc' = "body"
    /\ Begin("spec", Head(todo))
    /\ todo' = Tail(todo)
    /\ UNCHANGED <<subdirs, auto, skip, listed, nested, uses, rc, count, erred>>

\* The innermost description among these scopes.
Innermost(scopes) ==
    CHOOSE k \in DOMAIN scopes :
        scopes[k].kind # "scope" /\ \A i \in DOMAIN scopes : i > k => scopes[i].kind = "scope"

\* A description ends, on its way out leaving the scopes that it is in as they
\* are.  The rest of scopes is what is open then.
Ends(result, scopes) ==
    LET k == Innermost(scopes) IN
    /\ rc' = result
    /\ erred' = (erred \/ result = "error")
    /\ pc' = IF scopes[k].kind # "project" THEN "epilog"
             ELSE IF result = "error" THEN "failed" ELSE "walk"
    /\ open' = SubSeq(scopes, 1, k)
    /\ escaped' = IF k < Len(scopes) THEN escaped \union {scopes[k].id} ELSE escaped
    /\ Forget(open')

\* The end of the description, ifconfig with a condition that does not hold,
\* or an error.
EndDescription(result) ==
    /\ pc = "body"
    /\ CASE result = "ok"    -> Here.kind # "scope"
         [] result = "skip"  -> "ifconfig" \in uses
         [] result = "error" -> "error" \in uses
    /\ Ends(result, open)
    /\ UNCHANGED <<uses, count, defines, fixed, frame, localdir, ids, walk, base>>

\* The command return in a scope ends proc Scope, and no more.
ReturnFromScope ==
    /\ pc = "body" /\ "return" \in uses /\ Here.kind = "scope"
    /\ open' = Front(open)
    /\ escaped' = escaped \union {open[Innermost(open)].id}
    /\ Forget(open')
    /\ UNCHANGED <<defines, fixed, frame, localdir, ids, walk, base, control>>

\* Mutant: subdirectories are looked for only when none was named.
SubdirsEither(d) ==
    IF subdirs # <<>> THEN subdirs ELSE IF auto THEN Listing[d] ELSE <<>>

\* The subdirectories that a description leads to: those named, and those
\* found unless a directory named, relative to the top, is called the same.
Subdirs(d) ==
    LET Unnamed == {c \in Range(Listing[d]) :
            \A i \in DOMAIN subdirs : ~(Parent[subdirs[i]] = Top /\ Name[subdirs[i]] = Name[c])}
    IN  subdirs \o (IF auto THEN Those(Listing[d], Unnamed) ELSE <<>>)

\* rulebase-epilog needs the rule for all of the local directory.
EpilogFails ==
    /\ pc = "epilog" /\ localdir \notin DOMAIN rules
    /\ IF Here.kind = "virtual"
         THEN Ends("error", Front(open))
         ELSE pc' = "failed" /\ erred' = TRUE /\ UNCHANGED <<rc, open, escaped, log>>
    /\ UNCHANGED <<uses, count, defines, fixed, frame, localdir, ids, walk, base>>

Epilog ==
    /\ pc = "epilog" /\ localdir \in DOMAIN rules
    /\ Leave(Front(open), Here)
    /\ Forget(open')
    /\ escaped' = escaped \ {Here.id}
    /\ UNCHANGED <<ids, fixed, base, uses, count, erred, auto, entered, nested>>

\* The end of VirtualSubDir: an error is nobody's business.
EpilogVirtual ==
    /\ Epilog /\ Here.kind = "virtual"
    /\ pc' = "body" /\ rc' = "ok"
    /\ skip' = IF rc = "skip" THEN skip \union {Here.dir} ELSE skip
    /\ UNCHANGED <<todo, subdirs, listed>>

\* The end of process-build-spec-file, up to the directories below.
EpilogSpec ==
    /\ Epilog /\ Here.kind = "spec"
    /\ rc' = "ok"
    /\ pc' = IF rc = "error" THEN "failed" ELSE "walk"
    /\ IF rc # "ok" THEN UNCHANGED <<todo, subdirs, listed>>
       ELSE /\ todo' = Subdirs(Here.dir) \o todo
            /\ subdirs' = <<>>
            /\ listed' = IF auto THEN listed \union {Here.dir} ELSE listed
    /\ UNCHANGED skip

-----------------------------------------------------------------------------
(* Other commands of descriptions. *)

SubDirs(d) ==
    /\ Command("SubDirs")
    /\ d \in WithSpec \ {Top}
    /\ subdirs' = Append(subdirs, d)
    /\ nested' = (nested \/ open[Innermost(open)].dir # Top)
    /\ UNCHANGED <<scope, place, base, todo, auto, skip, entered, listed>>

AutoSubDirs(onoff) ==
    /\ Command("AutoSubDirs")
    /\ auto' = onoff
    /\ UNCHANGED <<scope, place, base, todo, subdirs, skip, entered, listed, nested>>

\* A rule is declared.  An error ends tmake.
Declare(t, decl) ==
    /\ pc = "body" /\ "target" \in uses /\ count < MaxCommands /\ count' = count + 1
    /\ IF Valid(rules, t, decl)
         THEN /\ rules' = Target(rules, t, decl)
              /\ declared' = [declared EXCEPT ![t] = Append(@, decl)]
              /\ UNCHANGED <<pc, erred>>
         ELSE pc' = "failed" /\ erred' = TRUE /\ UNCHANGED base
    /\ UNCHANGED <<scope, place, walk, uses, rc>>

\* load-build-description ends with a last check of the rules.
Finish ==
    /\ pc = "walk" /\ todo = <<>>
    /\ pc' = IF PhonyBelowFile(rules) THEN "failed" ELSE "done"
    /\ UNCHANGED <<scope, place, walk, base, uses, rc, count, erred>>

Finished == pc \in {"done", "failed"} /\ UNCHANGED vars

Next ==
    \/ \E v \in Vars : Define(v) \/ DefineFixed(v) \/ DefineDefault(v) \/ DefineAppend(v)
    \/ \E dir \in ScopeDirs : OpenScope(dir)
    \/ CloseScope
    \/ \E d \in Dirs : VirtualSubDir(d) \/ SubDirs(d)
    \/ \E onoff \in BOOLEAN : AutoSubDirs(onoff)
    \/ \E t \in Shared, decl \in Decls : Declare(t, decl)
    \/ ReadSpec
    \/ \E result \in {"ok", "skip", "error"} : EndDescription(result)
    \/ ReturnFromScope
    \/ EpilogFails
    \/ EpilogVirtual
    \/ EpilogSpec
    \/ Finish
    \/ Finished

Spec == Init /\ [][Next]_vars

-----------------------------------------------------------------------------
Ops    == {"define", "define!", "define?", "define-append"}

TypeOK ==
    /\ uses \in Projects
    /\ pc \in {"body", "epilog", "walk", "done", "failed"} /\ rc \in {"ok", "skip", "error"}
    /\ open \in Seq([kind : {"project", "spec", "virtual", "scope"}, id : Nat, dir : Dirs,
                     within : BOOLEAN, defines : [Vars -> Seq(Nat)], localdir : Dirs])
    /\ defines \in [Vars -> Seq(Nat)] /\ frame \in [Vars -> Seq(Nat)] /\ fixed \subseteq Vars
    /\ localdir \in Dirs /\ todo \in Seq(Dirs) /\ subdirs \in Seq(Dirs)
    /\ auto \in BOOLEAN /\ skip \subseteq Virtual
    /\ count \in 0 .. MaxCommands /\ ids \in Nat
    /\ log \in Seq([id : Nat, op : Ops, var : Vars])
    /\ escaped \subseteq Nat /\ entered \subseteq Dirs /\ listed \subseteq Dirs
    /\ nested \in BOOLEAN /\ erred \in BOOLEAN
    /\ declared \in [Shared -> Seq(Decls)]

\* What a command of the define family does when there are no scopes.
Effect(env, c) ==
    LET free == c.var \notin env.fixed
        old  == env.defines[c.var]
        Set(value) == [env EXCEPT !.defines[c.var] = value]
    IN  CASE c.op = "define!" -> [Set(<<c.id>>) EXCEPT !.fixed = @ \union {c.var}]
          [] c.op = "define" /\ free -> Set(<<c.id>>)
          [] c.op = "define?" /\ free /\ old = <<>> -> Set(<<c.id>>)
          [] c.op = "define-append" /\ free -> Set(old \o <<c.id>>)
          [] OTHER -> env

\* What the first i of the commands of list do.
Effects(list) ==
    LET env[i \in 0 .. Len(list)] ==
            IF i = 0 THEN [defines |-> Unset, fixed |-> {}] ELSE Effect(env[i - 1], list[i])
    IN  env
Replay(list) == Effects(list)[Len(list)]

\* Descriptions are read as though the scopes that have ended, whatever they
\* contained and however they were nested, had never been.  A variable fixed in
\* such a scope stays fixed, and a scope that return or ifconfig leaves is not
\* undone, until the description that it is in ends.
LexicalScoping ==
    pc = "body" /\ escaped = {} /\ fixed = Replay(log).fixed => defines = Replay(log).defines

\* The commands of a description see the definitions as variables of frame #1,
\* and run in the directory of the innermost scope.
InPlace ==
    pc = "body" => frame = defines /\ (escaped = {} => localdir = Here.dir)

\* With AutoSubDirs, each subdirectory with a build.spec is read, unless
\* descriptions below the top use SubDirs, whose names are taken for theirs.
EntersAll ==
    pc = "done" /\ ~nested => \A d \in listed : Range(Listing[d]) \subseteq entered

\* An error in a description ends tmake with an error.
ErrorsStop == pc = "done" => ~erred

\* A rule depends on all that any of its declarations, accepted in whatever
\* order, gives as -depends or -inputs, and on nothing else.
DependsKept ==
    \A t \in Shared : declared[t] # <<>> =>
        Range(rules[t].depends) =
            UNION {Range(decl.depends) \union Range(decl.inputs) : decl \in Range(declared[t])}

\* What the first i of these declarations give with -add.
Added(decls) ==
    LET do[i \in 0 .. Len(decls)] ==
            IF i = 0 THEN <<>> ELSE IF decls[i].add THEN do[i - 1] \o decls[i].do ELSE do[i - 1]
    IN  do

\* The commands of a rule are those of its first -do and, in order, all that -add
\* has given, provided that no -add came before that.
CommandsKept ==
    \A t \in Shared : \A i \in DOMAIN declared[t] :
        LET decls == declared[t] IN
        decls[i].do # <<>> /\ ~decls[i].add /\ (\A j \in 1 .. i - 1 : decls[j].do = <<>>)
            => rules[t].do = decls[i].do \o Added(decls)[Len(decls)]
=============================================================================
