SPECIFICATION FairSpec
CONSTANTS
    goal = goal
    prog = prog
    obj = obj
    lib = lib
    hdr = hdr
    gen = gen
    loop = loop
    mid = mid
    src = src
    Main = Main
    None = None
    Rules = {goal, prog, obj, lib, hdr, gen, loop, mid}
    Deps <- LoopDeps
    Scan <- LoopScan
    CmdLines <- LoopCmdLines
    Files = {src}
    Present = {src}
    Phony = {goal}
    HasDo = {prog, obj, lib, hdr, gen, loop, mid}
    Forks = {prog, obj, lib, hdr, gen, loop, mid}
    NoFork = {obj}
    Fatal = {}
    Finally = {lib}
    RootOk = {}
    MayMiss = {obj, gen}
    MaxJobs = 2
    QuickStop = FALSE
    Outcomes = {"ok", "fail", "quiet"}
    Signals = FALSE
    Users = {FALSE}
INVARIANTS
    TypeOK
    JobsAccounted
    NotifyWaits
    ReadyToRun
    AtMostOnce
    FailureHasCause
    HonestExit
    RecursionIsReal
    CycleNeverBuilt
PROPERTIES
    SettledForGood
    Termination
    ImplementsSchedule
