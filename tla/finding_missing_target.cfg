SPECIFICATION Spec
CONSTANTS
    goal = goal
    prog = prog
    obj = obj
    lib = lib
    hdr = hdr
    gen = gen
    loop = loop
    mid = mid
    src = src
    Main = Main
    None = None
    Rules = {goal, prog, lib}
    Deps <- ChainDeps
    Scan <- NoDeps
    CmdLines <- ProjectCmdLines
    Files = {src}
    Present = {src}
    Phony = {goal}
    HasDo = {goal, prog, lib}
    Forks = {prog, lib}
    NoFork = {}
    Fatal = {}
    Finally = {}
    RootOk = {}
    MayMiss = {prog}
    MaxJobs = 1
    QuickStop = FALSE
    Outcomes = {"ok", "fail"}
    Signals = FALSE
    Users = {FALSE}
INVARIANTS
    InputsExist
