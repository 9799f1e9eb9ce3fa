--------------------------- MODULE LocalOwnership ---------------------------
(***************************************************************************)
(* Directory-lock ownership of local outputs                               *)
(* (firehose-parquet/src/dataset_lock/local.rs).                           *)
(*                                                                         *)
(* A command guards its roots with flock locks on directory inodes: it     *)
(* scans the existing ancestors of its roots, plans one lock for each      *)
(* inode (exclusive on a root, shared above it), takes them with try-locks *)
(* and rechecks the paths.  `acquire' then creates the missing directories *)
(* and does it all again; `acquire_without_creation' creates nothing, and  *)
(* plans an exclusive lock on the nearest existing ancestor of each        *)
(* missing root instead.  Meanwhile directories appear and disappear.      *)
(*                                                                         *)
(* A directory stands for its canonical path: symbolic links and renames   *)
(* are left out, so a command's reduced roots never change.  Inode         *)
(* numbers are reused once no directory and no open handle has them.       *)
(***************************************************************************)
EXTENDS FiniteSets

CONSTANTS
    Dirs,        \* directory paths
    Above,       \* Above[d]: the strict ancestors of d
    Inodes,      \* inode identities (device, number)
    Missing,     \* a path without a directory
    Commands,
    Roots,       \* Roots[c]: the reduced mutation roots of c
    Creating     \* the commands that call acquire, which creates its roots

ASSUME TreeAssumption ==
    /\ IsFiniteSet(Dirs)
    /\ Above \in [Dirs -> SUBSET Dirs]
    /\ \A d \in Dirs : d \notin Above[d]
    /\ \A d \in Dirs : \A e \in Above[d] : Above[e] \subseteq Above[d]

ASSUME CommandAssumption ==
    /\ Roots \in [Commands -> SUBSET Dirs]
    /\ Creating \subseteq Commands
    /\ Missing \notin Inodes

VARIABLES
    inode,       \* the inode at each path, or Missing
    pc,          \* where each command is in its acquisition
    scan,        \* the paths its snapshot has not looked at yet
    plan,        \* the locks it plans: [dir, ino, mode], one for each inode
    held,        \* the locks it holds (LocalOwnership.held)
    created      \* whether it has created its roots (acquire's second pass)

vars == <<inode, pc, scan, plan, held, created>>

-----------------------------------------------------------------------------
(* snapshot() and the locks.                                               *)

\* root.ancestors(): the directory itself and everything above it.
Chain(d) == {d} \cup Above[d]

\* The paths snapshot() visits for c.
Scope(c) == UNION {Chain(r) : r \in Roots[c]}

Lock(d, i, m) == [dir |-> d, ino |-> i, mode |-> m]

ModeAt(c, d) == IF d \in Roots[c] THEN "exclusive" ELSE "shared"

\* directories.entry(identity).or_insert(..): the first path of an inode
\* stays, and an exclusive requirement raises the mode.
Planned(locks, d, i, m) ==
    IF \E l \in locks : l.ino = i
    THEN {IF l.ino = i /\ m = "exclusive" THEN [l EXCEPT !.mode = m] ELSE l :
             l \in locks}
    ELSE locks \cup {Lock(d, i, m)}

\* The lock a command has on inode i blocks a lock of mode m by another.
Blocks(l, i, m) == l.ino = i /\ (l.mode = "exclusive" \/ m = "exclusive")

Conflict(c, i, m) ==
    \E o \in Commands \ {c} : \E l \in held[o] : Blocks(l, i, m)

HeldInodes(c) == {l.ino : l \in held[c]}

-----------------------------------------------------------------------------
(* revalidate(): every existing directory on the way to the roots is held, *)
(* or lies below a directory held exclusively.                             *)

\* Fault variant of Covered: a shared lock above is taken as cover.
CoveredByAny(c, d) ==
    \E a \in Above[d] : \E l \in held[c] : inode[a] = l.ino

Covered(c, d) ==
    \E a \in Above[d] : \E l \in held[c] :
        inode[a] = l.ino /\ l.mode = "exclusive"

Revalidates(c) ==
    \A d \in Scope(c) :
        inode[d] # Missing => inode[d] \in HeldInodes(c) \/ Covered(c, d)

-----------------------------------------------------------------------------
Init ==
    /\ inode \in [Dirs -> Inodes \cup {Missing}]
    /\ \A d \in Dirs : inode[d] # Missing => \A a \in Above[d] : inode[a] # Missing
    /\ \A d, e \in Dirs : d # e /\ inode[d] = inode[e] => inode[d] = Missing
    /\ \A d \in Dirs : Above[d] = {} => inode[d] # Missing
    /\ pc = [c \in Commands |-> "idle"]
    /\ scan = [c \in Commands |-> {}]
    /\ plan = [c \in Commands |-> {}]
    /\ held = [c \in Commands |-> {}]
    /\ created = [c \in Commands |-> FALSE]

\* A failed acquisition returns its error and drops the guard, which unlocks
\* what it had taken; the plan is gone with it.
GiveUp(c) ==
    /\ pc' = [pc EXCEPT ![c] = "idle"]
    /\ scan' = [scan EXCEPT ![c] = {}]
    /\ plan' = [plan EXCEPT ![c] = {}]
    /\ held' = [held EXCEPT ![c] = {}]
    /\ created' = [created EXCEPT ![c] = FALSE]
    /\ UNCHANGED inode

Begin(c) ==
    /\ pc[c] = "idle"
    /\ pc' = [pc EXCEPT ![c] = "scan"]
    /\ scan' = [scan EXCEPT ![c] = Scope(c)]
    /\ UNCHANGED <<inode, plan, held, created>>

\* One path of the snapshot, from a root upwards; a missing one is skipped.
Look(c, d) ==
    /\ pc[c] = "scan"
    /\ d \in scan[c]
    /\ \A e \in scan[c] : d \notin Above[e]
    /\ scan' = [scan EXCEPT ![c] = @ \ {d}]
    /\ plan' = IF inode[d] = Missing THEN plan
               ELSE [plan EXCEPT ![c] = Planned(@, d, inode[d], ModeAt(c, d))]
    /\ UNCHANGED <<inode, pc, held, created>>

\* The snapshot is complete: acquire goes on to lock, the other first looks
\* at its roots again.
Scanned(c) ==
    /\ pc[c] = "scan"
    /\ scan[c] = {}
    /\ IF c \in Creating
       THEN /\ pc' = [pc EXCEPT ![c] = "lock"]
            /\ UNCHANGED scan
       ELSE /\ pc' = [pc EXCEPT ![c] = "upgrade"]
            /\ scan' = [scan EXCEPT ![c] = Roots[c]]
    /\ UNCHANGED <<inode, plan, held, created>>

\* The first directory that exists among root.ancestors().
Nearest(r, a) ==
    /\ a \in Chain(r)
    /\ inode[a] # Missing
    /\ \A e \in Chain(r) : inode[e] # Missing => e \in Chain(a)

\* One round of the loop that lets a missing root own its nearest existing
\* ancestor exclusively; a root that exists by now is passed over.
Upgrade(c, r) ==
    /\ pc[c] = "upgrade"
    /\ r \in scan[c]
    /\ \/ /\ inode[r] # Missing
          /\ scan' = [scan EXCEPT ![c] = @ \ {r}]
          /\ UNCHANGED <<inode, pc, plan, held, created>>
       \/ \E a \in Dirs :
             /\ inode[r] = Missing
             /\ Nearest(r, a)
             /\ \E l \in plan[c] : l.ino = inode[a]
             /\ scan' = [scan EXCEPT ![c] = @ \ {r}]
             /\ plan' = [plan EXCEPT ![c] = Planned(@, a, inode[a], "exclusive")]
             /\ UNCHANGED <<inode, pc, held, created>>
       \/ \E a \in Dirs :
             /\ inode[r] = Missing
             /\ Nearest(r, a)
             /\ \A l \in plan[c] : l.ino # inode[a]
             /\ GiveUp(c)

Upgraded(c) ==
    /\ pc[c] = "upgrade"
    /\ scan[c] = {}
    /\ pc' = [pc EXCEPT ![c] = "lock"]
    /\ UNCHANGED <<inode, scan, plan, held, created>>

\* The planned inodes that are not held yet.
ToLock(c) == {l \in plan[c] : l.ino \notin HeldInodes(c)}

\* A planned inode is held in shared mode and must now be exclusive.
NeedsStronger(c) ==
    \E l \in plan[c] : \E h \in held[c] :
        h.ino = l.ino /\ h.mode = "shared" /\ l.mode = "exclusive"

\* acquire_missing: one inode, opened by its path and try-locked.
TakeLock(c, l) ==
    /\ pc[c] = "lock"
    /\ l \in ToLock(c)
    /\ inode[l.dir] = l.ino
    /\ ~ Conflict(c, l.ino, l.mode)
    /\ held' = [held EXCEPT ![c] = @ \cup {l}]
    /\ UNCHANGED <<inode, pc, scan, plan, created>>

\* The path has another inode by now, another command has the lock, or a
\* shared lock of the first pass would have to become exclusive.
LockFails(c) ==
    /\ pc[c] = "lock"
    /\ \/ NeedsStronger(c)
       \/ \E l \in ToLock(c) :
             inode[l.dir] # l.ino \/ Conflict(c, l.ino, l.mode)
    /\ GiveUp(c)

\* validate_handles: every planned path still has the planned inode.
Intact(c) == \A l \in plan[c] : inode[l.dir] = l.ino

\* All locks are taken: recheck the paths.
Check(c) ==
    /\ pc[c] = "lock"
    /\ ToLock(c) = {}
    /\ ~ NeedsStronger(c)
    /\ IF Intact(c)
       THEN /\ pc' = [pc EXCEPT ![c] =
                         IF c \in Creating /\ ~ created[c] THEN "create" ELSE "held"]
            /\ plan' = [plan EXCEPT ![c] = {}]
            /\ UNCHANGED <<inode, scan, held, created>>
       ELSE GiveUp(c)

\* An inode that no directory has and no open handle keeps alive.
Free(i) ==
    /\ i \in Inodes
    /\ \A d \in Dirs : inode[d] # i
    /\ \A c \in Commands : i \notin HeldInodes(c)

MkDir(d, i) ==
    /\ inode[d] = Missing
    /\ \A a \in Above[d] : inode[a] # Missing
    /\ Free(i)
    /\ inode' = [inode EXCEPT ![d] = i]

\* create_dir_all for the roots of acquire, one directory at a time.
Create(c, d, i) ==
    /\ pc[c] = "create"
    /\ d \in Scope(c)
    /\ MkDir(d, i)
    /\ UNCHANGED <<pc, scan, plan, held, created>>

\* Every root exists: the second snapshot begins.
Created(c) ==
    /\ pc[c] = "create"
    /\ \A r \in Roots[c] : inode[r] # Missing
    /\ pc' = [pc EXCEPT ![c] = "scan"]
    /\ scan' = [scan EXCEPT ![c] = Scope(c)]
    /\ created' = [created EXCEPT ![c] = TRUE]
    /\ UNCHANGED <<inode, plan, held>>

\* The guard is dropped, or its process dies and the kernel unlocks.
Release(c) ==
    /\ pc[c] # "idle"
    /\ GiveUp(c)

\* Someone creates a directory: a command its output, a user a parent.
Make(d, i) ==
    /\ MkDir(d, i)
    /\ UNCHANGED <<pc, scan, plan, held, created>>

\* Someone removes an empty directory; locks do not prevent it.
Remove(d) ==
    /\ inode[d] # Missing
    /\ Above[d] # {}
    /\ \A e \in Dirs : d \in Above[e] => inode[e] = Missing
    /\ inode' = [inode EXCEPT ![d] = Missing]
    /\ UNCHANGED <<pc, scan, plan, held, created>>

Next ==
    \/ \E c \in Commands :
          \/ Begin(c) \/ Scanned(c) \/ Upgraded(c) \/ LockFails(c)
          \/ Check(c) \/ Created(c) \/ Release(c)
          \/ \E d \in Dirs : Look(c, d) \/ Upgrade(c, d)
          \/ \E d \in Dirs, i \in Inodes : Create(c, d, i)
          \/ \E l \in plan[c] : TakeLock(c, l)
    \/ \E d \in Dirs : Remove(d)
    \/ \E d \in Dirs, i \in Inodes : Make(d, i)

Spec == Init /\ [][Next]_vars

-----------------------------------------------------------------------------
TypeOK ==
    /\ inode \in [Dirs -> Inodes \cup {Missing}]
    /\ pc \in [Commands -> {"idle", "scan", "upgrade", "lock", "create", "held"}]
    /\ scan \in [Commands -> SUBSET Dirs]
    /\ plan \in [Commands -> SUBSET [dir : Dirs, ino : Inodes,
                                     mode : {"shared", "exclusive"}]]
    /\ held \in [Commands -> SUBSET [dir : Dirs, ino : Inodes,
                                     mode : {"shared", "exclusive"}]]
    /\ created \in [Commands -> BOOLEAN]

\* A root of c that exists now.
Exists(c, r) == r \in Roots[c] /\ inode[r] # Missing

\* revalidate() never passes for two guards whose roots overlap, whatever was
\* created, removed or created again since they were acquired and however
\* their acquisitions interleaved: before a command publishes below its root
\* (LocalPartStore::path, LocalStateStore::stabilize), either no other guard
\* covers that directory or its own check refuses.
OverlapDetected ==
    \A c, o \in Commands : \A r, s \in Dirs :
        (/\ c # o
         /\ pc[c] = "held" /\ Exists(c, r)
         /\ pc[o] = "held" /\ Exists(o, s)
         /\ r \in Chain(s))
            => ~ (Revalidates(c) /\ Revalidates(o))

\* "Holds exclusive directory locks at the reduced mutation roots", and
\* "missing roots conservatively own their nearest existing ancestor": a guard
\* that acquire or acquire_without_creation returned has an exclusive lock on
\* each of its roots or on a directory above it.
GuardOwnsItsRoots ==
    \A c \in Commands : pc[c] = "held" =>
        \A r \in Roots[c] : \E l \in held[c] :
            l.dir \in Chain(r) /\ l.mode = "exclusive"
=============================================================================
