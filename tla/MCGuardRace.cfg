\* What the comments of local.rs say of a guard that was returned.
CONSTANTS
    top = top
    out = out
    sub = sub
    build = build
    merge = merge
    again = again
    Dirs = {top, out, sub}
    Above <- MCAbove
    Inodes = {i1, i2, i3, i4}
    Missing = Missing
    Commands = {build, merge, again}
    Roots <- MCRoots
    Creating = {merge}
SPECIFICATION Spec
SYMMETRY Symmetry
INVARIANTS
    GuardOwnsItsRoots
CHECK_DEADLOCK FALSE
