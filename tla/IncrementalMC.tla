---------------------------- MODULE IncrementalMC ----------------------------
(* Instances of Incremental for TLC. *)
EXTENDS IncrementalInvariant

CONSTANTS goal, prog, lib, hdr, src

NoDeps == [r \in Rules |-> <<>>]
IncCmdLines == {<<goal>>}

\* A program made from a library, which is made from a source file.
ChainDeps == [NoDeps EXCEPT ![goal] = <<prog>>,
                            ![prog] = <<lib>>,
                            ![lib]  = <<src>>]

\* The program uses the source file directly as well.
DiamondDeps == [NoDeps EXCEPT ![goal] = <<lib, prog>>,
                              ![prog] = <<lib, src>>,
                              ![lib]  = <<src>>]

\* Three targets of one source file.
FanDeps == [NoDeps EXCEPT ![goal] = <<lib, prog, hdr>>,
                          ![prog] = <<src>>,
                          ![lib]  = <<src>>,
                          ![hdr]  = <<src>>]
=============================================================================
