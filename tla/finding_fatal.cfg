SPECIFICATION Spec
CONSTANTS
    goal = goal
    prog = prog
    obj = obj
    lib = lib
    hdr = hdr
    gen = gen
    loop = loop
    mid = mid
    src = src
    Main = Main
    None = None
    Rules = {goal, prog, lib, hdr}
    Deps <- FlatDeps
    Scan <- NoDeps
    CmdLines <- ProjectCmdLines
    Files = {src}
    Present = {src}
    Phony = {goal}
    HasDo = {prog, lib, hdr}
    Forks = {prog, lib, hdr}
    NoFork = {}
    Fatal = {lib}
    Finally = {}
    RootOk = {}
    MayMiss = {}
    MaxJobs = 2
    QuickStop = FALSE
    Outcomes = {"ok", "fail"}
    Signals = FALSE
    Users = {FALSE}
PROPERTIES
    FatalStops
