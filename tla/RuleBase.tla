------------------------------ MODULE RuleBase ------------------------------
(***************************************************************************)
(* The rule base, tmake(rules): what proc target does with the declaration *)
(* of a rule.  A target may be declared any number of times, in any        *)
(* description; the declarations are merged into one rule.                 *)
(*                                                                         *)
(* The rule base is a function from the rule targets that are known.  The  *)
(* options -do, -add, -inputs, -depends and -phony stand for all of them:  *)
(* the other flags are merged like -phony, and -msg goes with -do.         *)
(***************************************************************************)
EXTENDS Integers, Sequences

\* A declaration of a rule with no options.
Plain == [do |-> <<>>, add |-> FALSE, inputs |-> <<>>, depends |-> <<>>, phony |-> FALSE]

\* The declarations that name these; an option -add needs a -do.
Declarations(words) ==
    {decl \in [do : Seq(words), add : BOOLEAN, inputs : Seq(words), depends : Seq(words), phony : BOOLEAN] :
        decl.add => decl.do # <<>>}

\* parse-rule: with -add the commands are set apart.  Inputs are dependencies.
ParseRule(decl) ==
    [do      |-> IF decl.add THEN <<>> ELSE decl.do,
     adddo   |-> IF decl.add THEN decl.do ELSE <<>>,
     inputs  |-> decl.inputs,
     depends |-> decl.depends \o decl.inputs,
     phony   |-> IF decl.phony THEN 1 ELSE 0]

\* The fields that are compared to find a duplicate: adddo is not one of them.
Identical(info, orig) ==
    \A field \in {"do", "inputs", "depends", "phony"} : info[field] = orig[field]

\* Mutant: the dependencies of a later declaration are lost.
MergeNoDepends(orig, info) ==
    LET do == orig.do \o info.adddo IN
    IF do # <<>>
      THEN [orig EXCEPT !.do = do, !.inputs = @ \o info.inputs, !.phony = @ + info.phony]
      ELSE [orig EXCEPT !.do = info.do, !.inputs = info.inputs, !.phony = @ + info.phony]

\* Mutant: the last -do wins.
MergeLastDo(orig, info) ==
    [orig EXCEPT !.do = IF info.do # <<>> THEN info.do ELSE @ \o info.adddo,
                 !.inputs = @ \o info.inputs,
                 !.depends = @ \o info.depends,
                 !.phony = @ + info.phony]

\* The merging of a declaration into a rule: the first -do stays, what -add
\* gives follows it, and the commands that set a rule's -do set its inputs.
Merge(orig, info) ==
    LET do   == orig.do \o info.adddo
        both == [orig EXCEPT !.depends = @ \o info.depends, !.phony = @ + info.phony]
    IN  IF do # <<>>
          THEN [both EXCEPT !.do = do, !.inputs = @ \o info.inputs]
          ELSE [both EXCEPT !.do = info.do, !.inputs = info.inputs]

\* target: the rule of t after a declaration.
Declared(rules, t, decl) ==
    LET info == ParseRule(decl) IN
    IF t \notin DOMAIN rules THEN info
    ELSE IF Identical(info, rules[t]) THEN rules[t]
    ELSE Merge(rules[t], info)

\* A merged rule with inputs has to have commands.
Valid(rules, t, decl) ==
    LET info == ParseRule(decl)
        rule == Merge(rules[t], info)
    IN  \/ t \notin DOMAIN rules
        \/ Identical(info, rules[t])
        \/ rule.do # <<>> \/ rule.inputs = <<>>

\* The rule base after a declaration.
Target(rules, t, decl) ==
    [x \in DOMAIN rules \union {t} |-> IF x = t THEN Declared(rules, t, decl) ELSE rules[x]]

\* A file rule that depends on a phony rule is not accepted.
PhonyBelowFile(rules) ==
    \E t \in DOMAIN rules : \E i \in DOMAIN rules[t].depends :
        LET dep == rules[t].depends[i] IN
        rules[t].phony = 0 /\ dep \in DOMAIN rules /\ rules[dep].phony > 0
=============================================================================
