------------------------ MODULE LocalOwnershipProofs ------------------------
(***************************************************************************)
(* For every directory tree, every set of commands and every choice of     *)
(* roots: two guards over overlapping roots never both pass revalidate().  *)
(* The inductive invariant says what a held lock means; the argument from  *)
(* it is a descent: a directory one guard holds exclusively forces the     *)
(* other guard to hold a directory above it exclusively, and the tree has  *)
(* a top.                                                                  *)
(***************************************************************************)
EXTENDS LocalOwnership, Integers, FiniteSetTheorems, WellFoundedInduction, TLAPS

\* Every lock a command may plan or hold.
Locks == [dir : Dirs, ino : Inodes, mode : {"shared", "exclusive"}]

\* Two paths never share an inode.
OneInode ==
    \A d, e \in Dirs : inode[d] = inode[e] /\ inode[d] # Missing => d = e

\* An inode that is held is at the path it was locked by, or at none.
Placed ==
    \A c \in Commands : \A l \in held[c] : \A d \in Dirs :
        inode[d] = l.ino => d = l.dir

\* A root is planned and held in exclusive mode only.
RootsExclusive ==
    \A c \in Commands : \A l \in plan[c] \cup held[c] :
        l.dir \in Roots[c] => l.mode = "exclusive"

\* Two commands share an inode only if both hold it in shared mode.
Apart ==
    \A c, o \in Commands : \A l \in held[c] : \A m \in held[o] :
        c # o /\ l.ino = m.ino => l.mode = "shared" /\ m.mode = "shared"

Inv == TypeOK /\ OneInode /\ Placed /\ RootsExclusive /\ Apart

-----------------------------------------------------------------------------
\* Planning a path keeps the plan well-formed and never lowers a mode.
LEMMA PlannedLocks ==
    ASSUME NEW S \in SUBSET Locks, NEW d \in Dirs, NEW i \in Inodes,
           NEW m \in {"shared", "exclusive"}, NEW R,
           \A l \in S : l.dir \in R => l.mode = "exclusive",
           d \in R => m = "exclusive"
    PROVE  /\ Planned(S, d, i, m) \subseteq Locks
           /\ \A l \in Planned(S, d, i, m) : l.dir \in R => l.mode = "exclusive"
<1>1. CASE \E l \in S : l.ino = i
  <2>1. Planned(S, d, i, m) =
            {IF l.ino = i /\ m = "exclusive" THEN [l EXCEPT !.mode = m] ELSE l : l \in S}
    BY <1>1 DEF Planned
  <2>2. ASSUME NEW k \in Planned(S, d, i, m)
        PROVE  k \in Locks /\ (k.dir \in R => k.mode = "exclusive")
    <3>1. PICK l \in S :
              k = IF l.ino = i /\ m = "exclusive" THEN [l EXCEPT !.mode = m] ELSE l
      BY <2>1, <2>2, Zenon
    <3>2. l \in Locks
      OBVIOUS
    <3>3. CASE l.ino = i /\ m = "exclusive"
      <4>1. k = [l EXCEPT !.mode = m]
        BY <3>1, <3>3
      <4>2. k.mode = "exclusive" /\ k \in Locks
        BY <4>1, <3>2, <3>3 DEF Locks
      <4> QED
        BY <4>2
    <3>4. CASE ~ (l.ino = i /\ m = "exclusive")
      BY <3>1, <3>2, <3>4
    <3> QED
      BY <3>3, <3>4
  <2> QED
    BY <2>2
<1>2. CASE ~ \E l \in S : l.ino = i
  <2>1. Planned(S, d, i, m) = S \cup {Lock(d, i, m)}
    BY <1>2 DEF Planned
  <2>2. Lock(d, i, m) \in Locks /\ Lock(d, i, m).dir = d /\ Lock(d, i, m).mode = m
    BY DEF Lock, Locks
  <2> QED
    BY <2>1, <2>2
<1> QED
  BY <1>1, <1>2

\* Giving up drops a command's plan and locks and nothing else.
LEMMA GiveUpKeeps ==
    ASSUME Inv, NEW c \in Commands, GiveUp(c)
    PROVE  Inv'
<1>1. TypeOK'
  BY DEF Inv, GiveUp, TypeOK
<1>2. OneInode'
  BY DEF Inv, GiveUp, OneInode
<1>3. \A o \in Commands : held'[o] \subseteq held[o] /\ plan'[o] \subseteq plan[o]
  BY DEF Inv, GiveUp, TypeOK
<1>4. Placed'
  BY <1>3 DEF Inv, GiveUp, Placed
<1>5. RootsExclusive'
  BY <1>3 DEF Inv, RootsExclusive
<1>6. Apart'
  BY <1>3 DEF Inv, Apart
<1> QED
  BY <1>1, <1>2, <1>4, <1>5, <1>6 DEF Inv

\* A step that changes neither paths nor locks, and whose plan is well-formed
\* with roots exclusive, keeps the invariant.
LEMMA PlanningKeeps ==
    ASSUME Inv, TypeOK', UNCHANGED <<inode, held>>,
           \A c \in Commands : \A l \in plan'[c] :
               l \in plan[c] \/ (l.dir \in Roots[c] => l.mode = "exclusive")
    PROVE  Inv'
<1>1. OneInode'
  BY DEF Inv, OneInode
<1>2. Placed'
  BY DEF Inv, Placed
<1>3. RootsExclusive'
  BY DEF Inv, RootsExclusive
<1>4. Apart'
  BY DEF Inv, Apart
<1> QED
  BY <1>1, <1>2, <1>3, <1>4 DEF Inv

\* A new directory takes an inode that is at no path and in no open handle.
LEMMA MkDirKeeps ==
    ASSUME Inv, NEW d \in Dirs, NEW i \in Inodes, MkDir(d, i),
           UNCHANGED <<pc, scan, plan, held, created>>
    PROVE  Inv'
<1>1. inode' = [inode EXCEPT ![d] = i] /\ Free(i)
  BY DEF MkDir
<1>2. TypeOK'
  BY <1>1 DEF Inv, TypeOK
<1>3. OneInode'
  BY <1>1 DEF Inv, TypeOK, OneInode, Free
<1>4. Placed'
  BY <1>1 DEF Inv, TypeOK, Placed, Free, HeldInodes
<1>5. RootsExclusive'
  BY DEF Inv, RootsExclusive
<1>6. Apart'
  BY DEF Inv, Apart
<1> QED
  BY <1>2, <1>3, <1>4, <1>5, <1>6 DEF Inv

\* The initial states satisfy the invariant.
LEMMA InitInv ==
    ASSUME Init PROVE Inv
<1>1. TypeOK
  BY DEF Init, TypeOK
<1>2. OneInode
  BY DEF Init, OneInode
<1>3. Placed /\ RootsExclusive /\ Apart
  BY DEF Init, Placed, RootsExclusive, Apart
<1> QED
  BY <1>1, <1>2, <1>3 DEF Inv

\* Every step of every command, and every directory created or removed,
\* keeps the invariant.
LEMMA NextInv ==
    ASSUME Inv, [Next]_vars PROVE Inv'
<1> USE CommandAssumption
<1>1. ASSUME NEW c \in Commands, Begin(c) PROVE Inv'
  <2>1. Scope(c) \in SUBSET Dirs
    BY TreeAssumption DEF Scope, Chain
  <2>2. TypeOK'
    BY <1>1, <2>1 DEF Inv, TypeOK, Begin
  <2> QED
    BY <1>1, <2>2, PlanningKeeps DEF Begin
<1>2. ASSUME NEW c \in Commands, Scanned(c) PROVE Inv'
  <2>1. TypeOK'
    BY <1>2 DEF Inv, TypeOK, Scanned
  <2> QED
    BY <1>2, <2>1, PlanningKeeps DEF Scanned
<1>3. ASSUME NEW c \in Commands, Upgraded(c) PROVE Inv'
  <2>1. TypeOK'
    BY <1>3 DEF Inv, TypeOK, Upgraded
  <2> QED
    BY <1>3, <2>1, PlanningKeeps DEF Upgraded
<1>4. ASSUME NEW c \in Commands, LockFails(c) PROVE Inv'
  BY <1>4, GiveUpKeeps DEF LockFails
<1>5. ASSUME NEW c \in Commands, Check(c) PROVE Inv'
  <2>1. CASE Intact(c)
    <3>1. TypeOK'
      BY <1>5, <2>1 DEF Inv, TypeOK, Check
    <3>2. \A o \in Commands : plan'[o] \subseteq plan[o]
      BY <1>5, <2>1 DEF Inv, TypeOK, Check
    <3> QED
      BY <1>5, <2>1, <3>1, <3>2, PlanningKeeps DEF Check
  <2>2. CASE ~ Intact(c)
    BY <1>5, <2>2, GiveUpKeeps DEF Check
  <2> QED
    BY <2>1, <2>2
<1>6. ASSUME NEW c \in Commands, Created(c) PROVE Inv'
  <2>1. Scope(c) \in SUBSET Dirs
    BY TreeAssumption DEF Scope, Chain
  <2>2. TypeOK'
    BY <1>6, <2>1 DEF Inv, TypeOK, Created
  <2> QED
    BY <1>6, <2>2, PlanningKeeps DEF Created
<1>7. ASSUME NEW c \in Commands, Release(c) PROVE Inv'
  BY <1>7, GiveUpKeeps DEF Release
<1>8. ASSUME NEW c \in Commands, NEW d \in Dirs, Look(c, d) PROVE Inv'
  <2>1. CASE inode[d] = Missing
    <3>1. TypeOK'
      BY <1>8, <2>1 DEF Inv, TypeOK, Look
    <3> QED
      BY <1>8, <2>1, <3>1, PlanningKeeps DEF Look
  <2>2. CASE inode[d] # Missing
    <3> DEFINE P == Planned(plan[c], d, inode[d], ModeAt(c, d))
    <3>1. plan[c] \in SUBSET Locks /\ inode[d] \in Inodes
      BY <2>2 DEF Inv, TypeOK, Locks
    <3>2. ModeAt(c, d) \in {"shared", "exclusive"} /\ (d \in Roots[c] => ModeAt(c, d) = "exclusive")
      BY DEF ModeAt
    <3>3. \A l \in plan[c] : l.dir \in Roots[c] => l.mode = "exclusive"
      BY DEF Inv, RootsExclusive
    <3>4. P \subseteq Locks /\ \A l \in P : l.dir \in Roots[c] => l.mode = "exclusive"
      <4> DEFINE m == ModeAt(c, d)
                 i == inode[d]
                 S == plan[c]
      <4>1. m \in {"shared", "exclusive"} /\ (d \in Roots[c] => m = "exclusive")
        BY <3>2
      <4>2. S \in SUBSET Locks /\ i \in Inodes /\ \A l \in S : l.dir \in Roots[c] => l.mode = "exclusive"
        BY <3>1, <3>3
      <4>3. P = Planned(S, d, i, m)
        OBVIOUS
      <4> HIDE DEF P, m, i, S
      <4> QED
        BY <4>1, <4>2, <4>3, PlannedLocks, Zenon
    <3> HIDE DEF P
    <3>5. plan' = [plan EXCEPT ![c] = P]
      BY <1>8, <2>2 DEF Look, P
    <3>6. TypeOK'
      BY <1>8, <3>4, <3>5 DEF Inv, TypeOK, Look, Locks
    <3>7. \A o \in Commands : \A l \in plan'[o] :
              l \in plan[o] \/ (l.dir \in Roots[o] => l.mode = "exclusive")
      BY <3>4, <3>5 DEF Inv, TypeOK
    <3> QED
      BY <1>8, <3>6, <3>7, PlanningKeeps DEF Look
  <2> QED
    BY <2>1, <2>2
<1>9. ASSUME NEW c \in Commands, NEW r \in Dirs, Upgrade(c, r) PROVE Inv'
  <2>1. CASE scan' = [scan EXCEPT ![c] = @ \ {r}] /\ UNCHANGED <<inode, pc, plan, held, created>>
    <3>1. TypeOK'
      BY <2>1 DEF Inv, TypeOK
    <3> QED
      BY <2>1, <3>1, PlanningKeeps
  <2>2. ASSUME NEW a \in Dirs, Nearest(r, a),
               scan' = [scan EXCEPT ![c] = @ \ {r}],
               plan' = [plan EXCEPT ![c] = Planned(@, a, inode[a], "exclusive")],
               UNCHANGED <<inode, pc, held, created>>
        PROVE  Inv'
    <3> DEFINE P == Planned(plan[c], a, inode[a], "exclusive")
    <3>1. plan[c] \in SUBSET Locks /\ inode[a] \in Inodes
      BY <2>2 DEF Inv, TypeOK, Locks, Nearest
    <3>2. \A l \in plan[c] : l.dir \in Roots[c] => l.mode = "exclusive"
      BY DEF Inv, RootsExclusive
    <3>3. P \subseteq Locks /\ \A l \in P : l.dir \in Roots[c] => l.mode = "exclusive"
      BY <3>1, <3>2, PlannedLocks, Zenon
    <3>4. plan' = [plan EXCEPT ![c] = P]
      BY <2>2
    <3> HIDE DEF P
    <3>5. TypeOK'
      BY <2>2, <3>3, <3>4 DEF Inv, TypeOK, Locks
    <3>6. \A o \in Commands : \A l \in plan'[o] :
              l \in plan[o] \/ (l.dir \in Roots[o] => l.mode = "exclusive")
      BY <3>3, <3>4 DEF Inv, TypeOK
    <3> QED
      BY <2>2, <3>5, <3>6, PlanningKeeps
  <2> QED
    BY <1>9, <2>1, <2>2, GiveUpKeeps DEF Upgrade
<1>10. ASSUME NEW c \in Commands, NEW d \in Dirs, NEW i \in Inodes, Create(c, d, i) PROVE Inv'
  BY <1>10, MkDirKeeps DEF Create
<1>11. ASSUME NEW c \in Commands, NEW l \in plan[c], TakeLock(c, l) PROVE Inv'
  <2>1. l \in Locks
    BY DEF Inv, TypeOK, Locks
  <2>2. held' = [held EXCEPT ![c] = held[c] \cup {l}] /\ UNCHANGED <<inode, pc, scan, plan, created>>
    BY <1>11 DEF TakeLock
  <2>3. inode[l.dir] = l.ino /\ ~ Conflict(c, l.ino, l.mode)
    BY <1>11 DEF TakeLock
  <2>4. TypeOK'
    BY <2>1, <2>2 DEF Inv, TypeOK, Locks
  <2>5. OneInode'
    BY <2>2 DEF Inv, OneInode
  <2>6. \A o \in Commands : \A k \in held'[o] : k \in held[o] \/ (o = c /\ k = l)
    BY <2>2 DEF Inv, TypeOK
  <2>7. Placed'
    <3>1. \A d \in Dirs : inode[d] = l.ino => d = l.dir
      BY <2>1, <2>3 DEF Inv, OneInode, Locks
    <3> QED
      BY <2>2, <2>6, <3>1 DEF Inv, Placed
  <2>8. RootsExclusive'
    BY <2>2, <2>6 DEF Inv, RootsExclusive
  <2>9. Apart'
    <3>1. \A o \in Commands \ {c} : \A m \in held[o] :
              l.ino = m.ino => l.mode # "exclusive" /\ m.mode # "exclusive"
      BY <2>3 DEF Conflict, Blocks
    <3>2. \A o \in Commands : \A m \in held[o] : m.mode \in {"shared", "exclusive"}
      BY DEF Inv, TypeOK
    <3>3. \A o \in Commands \ {c} : \A m \in held[o] :
              l.ino = m.ino => l.mode = "shared" /\ m.mode = "shared"
      BY <2>1, <3>1, <3>2 DEF Locks
    <3> QED
      BY <2>6, <3>3 DEF Inv, Apart
  <2> QED
    BY <2>4, <2>5, <2>7, <2>8, <2>9 DEF Inv
<1>12. ASSUME NEW d \in Dirs, Remove(d) PROVE Inv'
  <2>1. inode' = [inode EXCEPT ![d] = Missing] /\ UNCHANGED <<pc, scan, plan, held, created>>
    BY <1>12 DEF Remove
  <2>2. TypeOK'
    BY <2>1 DEF Inv, TypeOK
  <2>3. OneInode'
    BY <2>1 DEF Inv, TypeOK, OneInode
  <2>4. Placed'
    BY <2>1 DEF Inv, TypeOK, Placed
  <2>5. RootsExclusive' /\ Apart'
    BY <2>1 DEF Inv, RootsExclusive, Apart
  <2> QED
    BY <2>2, <2>3, <2>4, <2>5 DEF Inv
<1>13. ASSUME NEW d \in Dirs, NEW i \in Inodes, Make(d, i) PROVE Inv'
  BY <1>13, MkDirKeeps DEF Make
<1>14. CASE UNCHANGED vars
  <2>1. TypeOK'
    BY <1>14 DEF Inv, TypeOK, vars
  <2> QED
    BY <1>14, <2>1, PlanningKeeps DEF vars
<1> QED
  BY <1>1, <1>2, <1>3, <1>4, <1>5, <1>6, <1>7, <1>8, <1>9, <1>10, <1>11,
     <1>12, <1>13, <1>14 DEF Next

-----------------------------------------------------------------------------
\* What the other guard's revalidate() demands: it holds the directory or one
\* above it exclusively.
OwnedExclusively(c, d) == \E l \in held[c] : inode[d] = l.ino /\ l.mode = "exclusive"

\* A directory that one guard holds exclusively, on the way to a root of
\* another guard that revalidates, lies below one the other holds exclusively.
LEMMA HigherOwner ==
    ASSUME Inv, NEW c \in Commands, NEW o \in Commands, c # o,
           NEW d \in Scope(o), d \in Dirs, OwnedExclusively(c, d), Revalidates(o)
    PROVE  \E a \in Above[d] : OwnedExclusively(o, a)
<1>1. PICK l \in held[c] : inode[d] = l.ino /\ l.mode = "exclusive"
  BY DEF OwnedExclusively
<1>2. l.ino \in Inodes /\ inode[d] # Missing
  BY <1>1, CommandAssumption DEF Inv, TypeOK
<1>3. inode[d] \notin HeldInodes(o)
  BY <1>1 DEF HeldInodes, Inv, Apart
<1>4. Covered(o, d)
  BY <1>2, <1>3 DEF Revalidates
<1> QED
  BY <1>4 DEF Covered, OwnedExclusively

\* An existing root of a guard that revalidates is held exclusively, or a
\* directory above it is.
LEMMA RootOwned ==
    ASSUME Inv, NEW c \in Commands, NEW r \in Dirs, Exists(c, r), Revalidates(c)
    PROVE  \E a \in Chain(r) : OwnedExclusively(c, a)
<1>1. r \in Scope(c)
  BY DEF Exists, Scope, Chain
<1>2. CASE inode[r] \in HeldInodes(c)
  <2>1. PICK l \in held[c] : inode[r] = l.ino
    BY <1>2 DEF HeldInodes
  <2>2. l.dir = r
    BY <2>1 DEF Inv, Placed
  <2>3. l.mode = "exclusive"
    BY <2>2 DEF Exists, Inv, RootsExclusive
  <2> QED
    BY <2>1, <2>3 DEF OwnedExclusively, Chain
<1>3. CASE Covered(c, r)
  BY <1>3 DEF Covered, OwnedExclusively, Chain
<1> QED
  BY <1>1, <1>2, <1>3 DEF Revalidates, Exists

\* The number of directories above one in the tree.
Depth(d) == Cardinality(Above[d])

\* A directory has fewer directories above it than one below it.
LEMMA DepthDecreases ==
    ASSUME NEW d \in Dirs, NEW a \in Above[d]
    PROVE  Depth(a) \in Nat /\ Depth(d) \in Nat /\ Depth(a) < Depth(d)
<1>1. a \in Dirs /\ Above[a] \subseteq Above[d] /\ a \notin Above[a] /\ a \in Above[d]
  BY TreeAssumption
<1>2. IsFiniteSet(Above[d]) /\ IsFiniteSet(Above[a])
  BY TreeAssumption, <1>1, FS_Subset
<1>3. Above[a] # Above[d]
  BY <1>1
<1>4. Cardinality(Above[a]) \in Nat /\ Cardinality(Above[d]) \in Nat
  BY <1>2, FS_CardinalityType
<1>5. Cardinality(Above[a]) <= Cardinality(Above[d]) /\ Cardinality(Above[a]) # Cardinality(Above[d])
  BY <1>1, <1>2, <1>3, FS_Subset, Zenon
<1> QED
  BY <1>4, <1>5 DEF Depth

\* In a state that satisfies the invariant, two guards over overlapping roots
\* do not both revalidate: take, among the directories above the upper root
\* that one of the two holds exclusively, one with the fewest directories
\* above it; the other guard holds one above that.
LEMMA InvDetects ==
    ASSUME Inv PROVE OverlapDetected
<1> SUFFICES ASSUME NEW c \in Commands, NEW o \in Commands, NEW r \in Dirs, NEW s \in Dirs,
                    c # o, Exists(c, r), Exists(o, s), r \in Chain(s),
                    Revalidates(c), Revalidates(o)
             PROVE  FALSE
  BY Zenon DEF OverlapDetected
<1> DEFINE Owned == {d \in Chain(r) : OwnedExclusively(c, d) \/ OwnedExclusively(o, d)}
           Depths == {Depth(d) : d \in Owned}
<1>1. Chain(r) \subseteq Dirs /\ Chain(r) \subseteq Scope(c) /\ Chain(r) \subseteq Scope(o)
  BY TreeAssumption DEF Chain, Scope, Exists
<1>2. \A d \in Chain(r) : Above[d] \subseteq Chain(r)
  BY TreeAssumption DEF Chain
<1>3. \A d \in Chain(r) : Depth(d) \in Nat
  <2>1. SUFFICES ASSUME NEW d \in Chain(r) PROVE Depth(d) \in Nat
    OBVIOUS
  <2>2. IsFiniteSet(Above[d])
    BY <1>1, TreeAssumption, FS_Subset
  <2> QED
    BY <2>2, FS_CardinalityType DEF Depth
<1>4. Owned # {}
  BY RootOwned
<1>5. PICK n \in Depths : \A k \in Depths : ~ (<<k, n>> \in OpToRel(<, Nat))
  <2>1. Depths # {} /\ Depths \subseteq Nat
    BY <1>3, <1>4
  <2>2. IsWellFoundedOn(OpToRel(<, Nat), Nat)
    BY NatLessThanWellFounded, Zenon
  <2> HIDE DEF Depths
  <2> QED
    BY <2>1, <2>2, WFMin, Zenon
<1>6. PICK d \in Owned : n = Depth(d)
  BY <1>5, Zenon
<1>7. \E a \in Above[d] : a \in Owned
  BY <1>1, <1>2, <1>6, HigherOwner
<1>8. PICK a \in Above[d] : a \in Owned
  BY <1>7
<1>9. d \in Dirs /\ Depth(a) < Depth(d) /\ Depth(a) \in Nat /\ Depth(d) \in Nat
  BY <1>1, <1>6, <1>8, DepthDecreases
<1>10. <<Depth(a), Depth(d)>> \in OpToRel(<, Nat)
  BY <1>9 DEF OpToRel
<1> QED
  BY <1>5, <1>6, <1>8, <1>10, Zenon

-----------------------------------------------------------------------------
\* The invariant holds in every reachable state.
THEOREM OwnershipInvariant == Spec => []Inv
<1>1. Init => Inv
  BY InitInv
<1>2. Inv /\ [Next]_vars => Inv'
  BY NextInv
<1> QED
  BY <1>1, <1>2, PTL DEF Spec

\* Overlapping guards are always detected by revalidate(), in every tree and
\* for every set of commands, whatever happens to the directories.
THEOREM OverlapNeverRevalidates == Spec => []OverlapDetected
<1>1. Inv => OverlapDetected
  BY InvDetects
<1> QED
  BY <1>1, OwnershipInvariant, PTL
=============================================================================
