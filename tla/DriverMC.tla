------------------------------ MODULE DriverMC ------------------------------
(* Instances of Driver for TLC. *)
EXTENDS DriverInvariant

CONSTANTS all, clean, again, edit, conf1, conf2, job, other, extra, user, x, y

\* Two generated Load files, the second made from the output of a job and of
\* commands in tmake itself.  The target extra is declared only if a
\* Load file contains x.
ProjectDeps == [r \in Rules |-> CASE r = all   -> {extra, job}
                                  [] r = conf2 -> {job, other}
                                  [] r = again -> {extra}
                                  [] OTHER     -> {}]
ProjectLoads == <<conf1, user, conf2>>

\* README.md 697-705: a Load file that no rule makes, and a rule that writes it.
EditLoads == <<user>>
EditDeps == [r \in Rules |-> IF r = all THEN {extra} ELSE {}]

\* The commands of other, which conf2 needs, use a variable that conf1 defines.
ProjectCommands == [r \in Rules |-> [t \in AllTexts |-> IF r = other THEN <<t[conf1]>> ELSE <<>>]]
EditCommands == [r \in Rules |-> [t \in AllTexts |-> <<>>]]

ProjectDeclares == [c \in Contents |-> IF c = x THEN {extra} ELSE {}]
ProjectWrites == [l \in LoadFiles |-> IF l = conf2 THEN {y} ELSE {x, y}]
ProjectTexts == {[l \in LoadFiles |-> IF l = conf1 THEN x ELSE y]}
ProjectLines == {<<all, clean, all>>, <<again>>, <<edit>>}
EditLines == {<<edit, all>>}

\* Everything built but extra; cleaning leads to nothing built.
ProjectTrees == {Rules \ (Phony \union {extra})}

\* again is README.md 729-736: commands that add all.
ProjectAdds == [r \in Rules |-> IF r = again THEN <<all>> ELSE <<>>]
=============================================================================
