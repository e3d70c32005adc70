SPECIFICATION FairSpec
CONSTANTS
    all = all
    clean = clean
    again = again
    edit = edit
    conf1 = conf1
    conf2 = conf2
    job = job
    other = other
    extra = extra
    user = user
    x = x
    y = y
    None = None
    Rules = {all, clean, again, edit, conf1, conf2, job, other, extra}
    Deps <- ProjectDeps
    Phony = {all, clean, again, edit}
    Forks = {job}
    Loads <- ProjectLoads
    Contents = {x, y}
    Writes <- ProjectWrites
    Declares <- ProjectDeclares
    Commands <- ProjectCommands
    CmdLines <- ProjectLines
    CleanTargets = {clean}
    Adds <- ProjectAdds
    Resets = {again}
    Edits = {edit}
    MayUnsettle = {conf1}
    Texts <- ProjectTexts
    Trees <- ProjectTrees
    MaxJobs = 2
INVARIANTS
    TypeOK
    KnownFiles
    CleanForgets
    JobsKept
    Stabilises
    HonestExit
PROPERTIES
    GoalsCurrent
    OrphansOnly
    Termination
