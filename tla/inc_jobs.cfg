SPECIFICATION ISpec
CONSTANTS
    goal = goal
    prog = prog
    lib = lib
    hdr = hdr
    src = src
    Main = Main
    None = None
    Rules = {goal, prog, lib}
    Deps <- DiamondDeps
    Scan <- NoDeps
    CmdLines <- IncCmdLines
    Files = {src}
    Present = {src}
    Phony = {goal}
    HasDo = {prog, lib}
    Forks = {prog, lib}
    NoFork = {prog}
    Fatal = {}
    Finally = {lib}
    RootOk = {}
    MayMiss = {lib}
    MaxJobs = 2
    QuickStop = FALSE
    Outcomes = {"ok", "fail"}
    Signals = FALSE
    Users = {FALSE}
    MaxRuns = 3
    MaxVer = 1
    MaxText = 2
    Faults = {"delete", "kill"}
INVARIANTS
    SkipSound
    BuiltRight
    NullBuild
