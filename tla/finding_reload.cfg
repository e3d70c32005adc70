SPECIFICATION Spec
CONSTANTS
    all = all
    clean = clean
    again = again
    edit = edit
    conf1 = conf1
    conf2 = conf2
    job = job
    other = other
    extra = extra
    user = user
    x = x
    y = y
    None = None
    Rules = {all, edit, extra}
    Deps <- EditDeps
    Phony = {all, edit}
    Forks = {}
    Loads <- EditLoads
    Contents = {x, y}
    Writes <- ProjectWrites
    Declares <- ProjectDeclares
    Commands <- EditCommands
    CmdLines <- EditLines
    CleanTargets = {clean}
    Adds <- ProjectAdds
    Resets = {again}
    Edits = {edit}
    MayUnsettle = {}
    Texts <- ProjectTexts
    Trees <- ProjectTrees
    MaxJobs = 1
PROPERTIES
    GoalsCurrent
