------------------------ MODULE DescriptionsInvariant ------------------------
(* The inductive invariant of Descriptions. *)
EXTENDS Descriptions

\* Outside these is project.spec, build.spec files are read one at a time, and
\* every scope is in a description.
NestingOK ==
    /\ open # <<>> /\ open[1].kind = "project" /\ open[1].dir = Top
    /\ \A k \in DOMAIN open :
          /\ open[k].kind = "project" => k = 1
          /\ open[k].kind = "spec" => k = 2
          /\ open[k].kind = "virtual" => open[k].dir \in Virtual
          /\ \E m \in 1 .. k : open[m].kind # "scope"
                                 /\ \A i \in m + 1 .. k : open[i].kind = "scope"
    /\ pc = "epilog" => Here.kind \in {"spec", "virtual"}
    /\ pc = "walk" => Len(open) = 1

\* Scopes are numbered in the order in which they are opened, and only
\* descriptions are left early.
IdsOK ==
    /\ \A k \in DOMAIN open : open[k].id <= ids
    /\ \A j, k \in DOMAIN open : j < k => open[j].id < open[k].id
    /\ \A id \in escaped : id <= ids
    /\ \A k \in DOMAIN open : open[k].kind = "scope" => open[k].id \notin escaped

\* None of the outermost k of the descriptions and scopes that are open was left
\* by a command in it.
Clean(k) == \A j \in 1 .. k : open[j].id \notin escaped

\* What is saved of the directory is that of the scope around it.
PlaceOK ==
    \A k \in 2 .. Len(open) :
        /\ Clean(k - 1) => open[k].localdir = open[k - 1].dir
        /\ ~open[k].within => open[k].kind = "scope" /\ open[k].dir = open[k - 1].dir

\* These definitions are those of the commands of list, but for the variables
\* that were fixed, of those in fixedvars, in a scope that has ended.
Agree(fixedvars, definitions, list) ==
    /\ Replay(list).fixed \subseteq fixedvars
    /\ \A v \in Vars : (v \in fixedvars => v \in Replay(list).fixed)
                         => definitions[v] = Replay(list).defines[v]

\* The commands of what is open; those before a scope was opened come first,
\* and the definitions that are saved in it are what they have done.
LogOK ==
    /\ \A i \in DOMAIN log : \E k \in DOMAIN open : log[i].id = open[k].id
    /\ \A k \in DOMAIN open : \E n \in 0 .. Len(log) :
          /\ \A i \in DOMAIN log : i <= n <=> log[i].id < open[k].id
          /\ k > 1 /\ Clean(k - 1) => Agree(fixed, open[k].defines, SubSeq(log, 1, n))

\* Nothing that has ended is left of in what the commands see.
CurrentOK ==
    /\ pc = "body" => frame = defines
    /\ pc \in {"body", "walk"} /\ Clean(Len(open)) => localdir = Here.dir /\ Agree(fixed, defines, log)

StackOK == NestingOK /\ IdsOK /\ PlaceOK /\ LogOK /\ CurrentOK

\* The build.spec of the top directory is read first, and only once.
SpecOpen == Len(open) > 1 /\ open[2].kind = "spec"
TopFirst ==
    /\ Range(subdirs) \subseteq WithSpec \ {Top}
    /\ Top \in Range(todo) => todo = <<Top>> /\ ~SpecOpen
    /\ pc \in {"body", "epilog"} /\ ~SpecOpen => todo = <<Top>>
    /\ SpecOpen /\ open[2].dir = Top => todo = <<>>

\* Directories that are due are read or will be; those that SubDirs has named, at
\* the top only, are dealt with when the build.spec of the top directory ends.
WalkOK ==
    ~nested =>
        /\ \A d \in listed : Range(Listing[d]) \subseteq entered \union Range(todo)
        /\ subdirs # <<>> =>
              /\ SpecOpen => open[2].dir = Top
              /\ pc = "walk" => todo \in {<<>>, <<Top>>}

\* This rule is made of these declarations.
Rule == [do : Seq(Words), adddo : Seq(Words), inputs : Seq(Words), depends : Seq(Words), phony : Nat]
MadeOf(rule, decls) ==
    /\ rule \in Rule
    /\ Range(rule.depends) = UNION {Range(decl.depends) \union Range(decl.inputs) : decl \in Range(decls)}
    /\ (\A i \in DOMAIN decls : decls[i].do = <<>>)
         => rule.do = <<>> /\ Added(decls)[Len(decls)] = <<>>
    /\ \A i \in DOMAIN decls :
          decls[i].do # <<>> /\ ~decls[i].add /\ (\A j \in 1 .. i - 1 : decls[j].do = <<>>)
            => rule.do = decls[i].do \o Added(decls)[Len(decls)]

RulesOK ==
    \A t \in Shared :
        /\ t \in DOMAIN rules <=> declared[t] # <<>>
        /\ t \in DOMAIN rules => MadeOf(rules[t], declared[t])

IInv == TypeOK /\ StackOK /\ TopFirst /\ WalkOK /\ EntersAll /\ RulesOK
=============================================================================
