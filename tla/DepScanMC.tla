------------------------------ MODULE DepScanMC ------------------------------
(* An instance of DepScan for TLC. *)
EXTENDS DepScan

CONSTANTS main, inc_api, src_api, src_cfg, inc_cfg, top_cfg, inc_main, nowhere,  \* files
          src, inc, src_s, inc_s, top,                                 \* directories
          api, cfg, own,                               \* "s/api.h", "cfg.h", "src/main.c"
          blank, c_api, c_cfg, c_both,                                 \* contents
          obj, test

\* The input is src/main.c.  "s/api.h" may be found in src and in inc, "cfg.h" in
\* src/s, in inc, where a rule makes it, and in ".", and "src/main.c", which reads
\* like the input, in inc; nowhere stands for every other path.
ProjectJoin == [dn \in Dirs \X Names |->
    CASE dn = <<src, api>>   -> src_api
      [] dn = <<inc, api>>   -> inc_api
      [] dn = <<src_s, cfg>> -> src_cfg
      [] dn = <<inc, cfg>>   -> inc_cfg
      [] dn = <<top, cfg>>   -> top_cfg
      [] dn = <<top, own>>   -> main
      [] dn = <<inc, own>>   -> inc_main
      [] OTHER               -> nowhere]

ProjectDirOf == [p \in Paths |->
    CASE p = main    -> src
      [] p = src_api -> src_s
      [] p = inc_api -> inc_s
      [] p = src_cfg -> src_s
      [] p = inc_cfg -> inc
      [] OTHER       -> top]

ProjectNameOf == [p \in Paths |-> IF p = main THEN own ELSE None]

ProjectIncludes == [c \in Contents |->
    CASE c = c_api  -> <<api>>
      [] c = c_cfg  -> <<own, cfg>>
      [] c = c_both -> <<cfg, api>>
      [] OTHER      -> <<>>]

ProjectMay == [p \in Paths |->
    CASE p = main    -> {c_api, c_both}
      [] p \in {src_api, inc_api} -> {None, c_cfg}
      [] p \in {src_cfg, top_cfg} -> {None, blank}
      [] p = inc_cfg -> {blank, c_api}
      [] p = inc_main -> {blank}
      [] OTHER       -> {None}]

\* The generated header may not have been made yet.
ProjectTrees == {tree \in [Paths -> Contents \union {None}] :
    /\ \A p \in Paths : tree[p] \in ProjectMay[p] \union {None}
    /\ tree[main] # None /\ tree[inc_main] # None /\ tree[top_cfg] = None /\ tree[src_cfg] = None}

ProjectInput == [r \in Rules |-> main]
ProjectIncPaths == {<<inc>>, <<>>}
=============================================================================
