SPECIFICATION FairSpec
CONSTANTS
    goal = goal
    prog = prog
    obj = obj
    lib = lib
    hdr = hdr
    gen = gen
    loop = loop
    mid = mid
    src = src
    Main = Main
    None = None
    Rules = {goal, prog, obj, lib, hdr, gen}
    Deps <- BrokenDeps
    Scan <- ProjectScan
    CmdLines <- ProjectCmdLines
    Files = {src}
    Present = {}
    Phony = {goal}
    HasDo = {prog, obj, lib, hdr, gen}
    Forks = {prog, obj, lib, hdr, gen}
    NoFork = {}
    Fatal = {obj}
    Finally = {}
    RootOk = {gen, hdr}
    MayMiss = {}
    MaxJobs = 2
    QuickStop = TRUE
    Outcomes = {"ok", "fail"}
    Signals = TRUE
    Users = {TRUE, FALSE}
INVARIANTS
    SlotBound
    JobsAccounted
    ReadyToRun
    HonestExit
PROPERTIES
    Termination
    ImplementsSchedule
