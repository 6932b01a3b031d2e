SPECIFICATION Spec
CONSTANTS
    u1 = u1
    u2 = u2
    d1 = d1
    d2 = d2
    good = good
    other = other
    broken = broken
    i1 = i1
    i2 = i2
    i3 = i3
    i4 = i4
    i5 = i5
    Updaters = {u1, u2}
    Dirs = {d1, d2}
    TempDir <- OwnDirs
    OtherDevice = {}
    Checked = {u1, u2}
    Exclusive = TRUE
    Docs = {good, other, broken}
    Loadable = {good, other}
    Inodes = {i1, i2, i3, i4}
    Blocks = 2
    Dest = Dest
    NoInode = NoInode
    NoDoc = NoDoc
    Hole = Hole
    Torn = Torn
    NoOne = NoOne
SYMMETRY SymmetryDocs
PROPERTIES
    AtomicInstall
