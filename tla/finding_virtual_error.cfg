SPECIFICATION Spec
CONSTANTS
    top = top
    a = a
    b = b
    ab = ab
    v = v
    vw = vw
    prog = prog
    cc = cc
    ld = ld
    x = x
    y = y
    None = None
    Dirs = {top, a, b, ab, v, vw}
    Top = top
    Parent <- ProjectParent
    Name <- ProjectName
    Listing <- ProjectListing
    Virtual = {v, vw}
    ScopeDirs = {None, b, vw}
    Vars = {x}
    Shared = {prog}
    Decls <- ProjectDecls
    Words = {cc, ld, x, y, a}
    Projects <- Faulty
    MaxCommands = 1
INVARIANTS
    ErrorsStop
