SPECIFICATION ISpec
CONSTANTS
    goal = goal
    prog = prog
    lib = lib
    hdr = hdr
    src = src
    Main = Main
    None = None
    Rules = {goal, prog, lib}
    Deps <- ChainDeps
    Scan <- NoDeps
    CmdLines <- IncCmdLines
    Files = {src}
    Present = {src}
    Phony = {goal}
    HasDo = {prog, lib}
    Forks = {prog, lib}
    NoFork = {}
    Fatal = {}
    Finally = {}
    RootOk = {}
    MayMiss = {}
    MaxJobs = 1
    QuickStop = FALSE
    Outcomes = {"ok", "fail"}
    Signals = TRUE
    Users = {FALSE}
    MaxRuns = 3
    MaxVer = 1
    MaxText = 1
    Faults = {"none"}
INVARIANTS
    SkipSound
