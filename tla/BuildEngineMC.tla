---------------------------- MODULE BuildEngineMC ----------------------------
(* Instances of BuildEngine for TLC. *)
EXTENDS ScheduleInvariant, CycleInvariant

CONSTANTS goal, prog, obj, lib, hdr, gen, loop, mid, src

NoDeps == [r \in Rules |-> <<>>]

\* A phony goal over a library, an object and a program.  The scan of the
\* object finds a generated header, which needs a generator first.
ProjectDeps == [NoDeps EXCEPT ![goal] = <<lib, obj, prog>>,
                              ![lib]  = <<src>>,
                              ![obj]  = <<src>>,
                              ![hdr]  = <<gen>>,
                              ![prog] = <<obj, lib>>]
ProjectScan == [NoDeps EXCEPT ![obj] = <<hdr>>]
ProjectCmdLines == {<<goal>>}

\* The same, and next to it two cycles: the scan of loop finds a header that
\* cannot be made without loop, and that header needs itself.
LoopDeps == [ProjectDeps EXCEPT ![loop] = <<src, lib>>, ![mid] = <<lib, loop, mid>>]
LoopScan == [ProjectScan EXCEPT ![loop] = <<mid>>]
LoopCmdLines == {<<goal>>, <<lib, loop>>, <<mid>>}

\* Jobs for the library, the object and the program compete for the slots; the
\* goal needs a file that is missing.
BrokenDeps == [NoDeps EXCEPT ![goal] = <<lib, obj, prog, src>>,
                             ![hdr]  = <<gen>>,
                             ![prog] = <<hdr>>]

\* Three rules that do not depend on each other.
FlatDeps == [NoDeps EXCEPT ![goal] = <<lib, prog, hdr>>]

\* A goal, like a test run, with commands that need a program.
ChainDeps == [NoDeps EXCEPT ![goal] = <<prog>>, ![prog] = <<lib>>]
=============================================================================
