--------------------------- MODULE DescriptionsMC ---------------------------
(* An instance of Descriptions for TLC. *)
EXTENDS DescriptionsInvariant

CONSTANTS top, a, b, ab, v, vw,     \* ".", "a", "b", "a/b", "v", "v/w"
          prog, cc, ld, x, y        \* a rule target, commands, files

ProjectParent  == [d \in Dirs |-> CASE d = ab -> a [] d = vw -> v [] OTHER -> top]
ProjectName    == [d \in Dirs |-> IF d = ab THEN b ELSE d]
ProjectListing == [d \in Dirs |-> CASE d = top -> <<a, b>> [] d = a -> <<ab>> [] OTHER -> <<>>]

\* What is declared of prog, perhaps that it is phony, or that it depends on a/all.
ProjectDecls ==
    {[Plain EXCEPT !.do = <<cc>>, !.inputs = <<x>>],
     [Plain EXCEPT !.do = <<ld>>],
     [Plain EXCEPT !.do = <<ld>>, !.add = TRUE, !.depends = <<y>>],
     [Plain EXCEPT !.inputs = <<y>>],
     [Plain EXCEPT !.depends = <<a>>],
     [Plain EXCEPT !.phony = TRUE, !.depends = <<x>>]}

\* Kinds of projects, by the commands that they use.
Kinds ==
    {{"define", "define!", "define?", "define-append", "Scope", "return"},
     {"define", "define-append", "Scope", "VirtualSubDir", "ifconfig", "error"},
     {"SubDirs", "AutoSubDirs", "VirtualSubDir", "ifconfig"},
     {"target"}}

\* Descriptions with errors.
Faulty == {{"VirtualSubDir", "error"}}
=============================================================================
