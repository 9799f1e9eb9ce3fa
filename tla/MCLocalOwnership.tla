-------------------------- MODULE MCLocalOwnership --------------------------
(* A parent directory, an output below it and a directory inside that      *)
(* output; two commands own the output, a third its subdirectory.          *)
EXTENDS LocalOwnership, TLC

CONSTANTS top, out, sub, build, merge, again

MCAbove == (top :> {}) @@ (out :> {top}) @@ (sub :> {top, out})

MCRoots == (build :> {out}) @@ (merge :> {sub}) @@ (again :> {out})

Symmetry == Permutations(Inodes) \cup Permutations({build, again})
=============================================================================
