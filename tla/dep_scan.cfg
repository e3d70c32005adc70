SPECIFICATION FairSpec
CONSTANTS
    main = main
    inc_api = inc_api
    src_api = src_api
    src_cfg = src_cfg
    inc_cfg = inc_cfg
    top_cfg = top_cfg
    inc_main = inc_main
    nowhere = nowhere
    src = src
    inc = inc
    src_s = src_s
    inc_s = inc_s
    top = top
    api = api
    cfg = cfg
    own = own
    blank = blank
    c_api = c_api
    c_cfg = c_cfg
    c_both = c_both
    None = None
    obj = obj
    test = test
    Paths = {main, inc_api, src_api, src_cfg, inc_cfg, top_cfg, inc_main, nowhere}
    Dirs = {src, inc, src_s, inc_s, top}
    Top = top
    Names = {api, cfg, own}
    Join <- ProjectJoin
    DirOf <- ProjectDirOf
    NameOf <- ProjectNameOf
    Contents = {blank, c_api, c_cfg, c_both}
    Includes <- ProjectIncludes
    May <- ProjectMay
    Rules = {obj, test}
    Input <- ProjectInput
    IncPaths <- ProjectIncPaths
    Targets = {inc_cfg}
    Trees <- ProjectTrees
    MaxChanges = 2
INVARIANTS
    Closed
    CachedComplete
    GeneratedFirst
PROPERTIES
    Settles
