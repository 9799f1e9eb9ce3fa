------------------------ MODULE FundingHistoryProofs ------------------------
(***************************************************************************)
(* HourOnce, GapsAreLate and RepairComplete for every set of coins, every  *)
(* history, page size, commit threshold and set of overlapping runs and    *)
(* repairs.                                                                *)
(*                                                                         *)
(* The invariant says of every table that is, or may still become, the     *)
(* latest version that it is sound, and of every run how what it keeps in  *)
(* memory relates to the table: strictly while its handle is fresh, and    *)
(* only by what no later commit can undo once it is not.                   *)
(***************************************************************************)
EXTENDS FundingHistory, FiniteSetTheorems, WellFoundedInduction, TLAPS

Rows == Coins \X Hours

\* The phases in which a run holds rows to write.
Active == {"coins", "asking", "flush", "finish"}

Tables == [rows : SUBSET Rows, twice : SUBSET Rows]

RunStates ==
    [pc : {"idle"} \cup Active \cup Maintaining, fresh : BOOLEAN,
     window : Windows \cup {NoWindow}, left : SUBSET Coins,
     last : [Coins -> 0..MaxHour], known : SUBSET Rows, hour : 0..MaxHour,
     coin : Coins \cup {Idle.coin}, start : Nat, previous : 0..MaxHour,
     pending : SUBSET Rows, failed : BOOLEAN, gap : BOOLEAN, cut : BOOLEAN,
     due : SUBSET Rows]

\* The state has its types, and /info has no hour of the future.
TypeOK ==
    /\ now \in Hours
    /\ feed \in [Coins -> SUBSET (1..now)]
    /\ late \in [Coins -> SUBSET Hours]
    /\ table \in Tables
    /\ puts \subseteq Tables
    /\ run \in [Runs -> RunStates]

\* /info has every row.
Supplied(rows, f) ==
    \A c \in Coins, h \in Hours : <<c, h>> \in rows => h \in f[c]

\* Behind a row only hours that were supplied late are missing.
NoGaps(rows, f, l) ==
    \A c \in Coins : \A h \in f[c], g \in Hours :
        g > h /\ <<c, g>> \in rows => <<c, h>> \in rows \/ h \in l[c]

\* A table that may be the latest version.
Sound(t, f, l) == t.twice = {} /\ Supplied(t.rows, f) /\ NoGaps(t.rows, f, l)

\* What a commit of unknown outcome writes extends the latest version.
PutsSound == \A t \in puts : Sound(t, feed, late) /\ Stored \subseteq t.rows

\* Of any run: its cursors are supplied hours, and its rows lie behind them.
Cursors(s, f) ==
    /\ \A c \in Coins : s.last[c] = 0 \/ s.last[c] \in f[c]
    /\ Supplied(s.pending, f)
    /\ \A c \in Coins, h \in Hours : <<c, h>> \in s.pending => h <= s.last[c]
    /\ s.pc = "asking" => s.coin \in Coins

\* Over a table with these rows: the cursors lie after every row, the pending
\* rows are new, and up to the cursors nothing is missing but late hours.
Ahead(s, rows, f, l) ==
    /\ \A c \in Coins, h \in Hours : <<c, h>> \in rows => h <= s.last[c]
    /\ s.pending \cap rows = {}
    /\ \A c \in Coins : \A h \in f[c] :
          h <= s.last[c] => <<c, h>> \in rows \cup s.pending \/ h \in l[c]

\* Of a scheduled run, while its handle is fresh; it asks from its cursor on.
Scheduled(s, rows, f, l) ==
    /\ s.known = {}
    /\ s.fresh =>
        /\ Ahead(s, rows, f, l)
        /\ s.pc = "asking" =>
              /\ s.start = s.last[s.coin] + 1
              /\ s.previous <= s.last[s.coin]
              /\ \A h \in Hours : <<s.coin, h>> \in rows => h <= s.previous

\* What a repair of this window may write.
Area(window) == Named \X Within(window)

\* Of a repair: its cursors are rows of the table, and it knows, while its
\* handle is fresh, every row of its area.
InArea(s, rows) ==
    /\ s.window \in Windows
    /\ s.left \subseteq Named
    /\ s.pending \subseteq Area(s.window)
    /\ s.known \subseteq rows
    /\ s.fresh => rows \cap Area(s.window) \subseteq s.known
    /\ \A c \in Named : s.last[c] = 0 \/ <<c, s.last[c]>> \in rows
    /\ s.pc = "asking" =>
          s.coin \in Named /\ s.start >= s.window[1] /\ s.previous = s.last[s.coin]

\* What a repair was asked for is still to be asked, or in hand, or known,
\* unless it will say that it failed or was cut short.
OnTheWay(s, f) ==
    /\ s.due \subseteq Area(s.window)
    /\ \A c \in Coins, h \in Hours : <<c, h>> \in s.due => h \in f[c] /\ h <= s.last[c]
    /\ ~ s.failed /\ ~ s.gap /\ ~ s.cut =>
          \A c \in Coins, h \in Hours : <<c, h>> \in s.due =>
              \/ c \in s.left
              \/ s.pc = "asking" /\ c = s.coin /\ h >= s.start
              \/ <<c, h>> \in s.pending \cup s.known
    /\ s.pc = "finish" => s.failed \/ s.cut

RunSound(r, s, rows, f, l) ==
    /\ s.pc \in Active =>
          /\ Cursors(s, f)
          /\ Repair(r) => InArea(s, rows) /\ OnTheWay(s, f)
          /\ ~ Repair(r) => Scheduled(s, rows, f, l)
    /\ Repair(r) /\ s.pc \in Maintaining /\ ~ s.cut => s.due \subseteq rows

IInv ==
    /\ TypeOK
    /\ Sound(table, feed, late)
    /\ PutsSound
    /\ \A r \in Runs : RunSound(r, run[r], Stored, feed, late)

-----------------------------------------------------------------------------
(* Hours, maxima and pages.                                                *)

\* A set of hours that is not empty has a maximum.
LEMMA MaxHours ==
    ASSUME NEW n \in Nat, NEW S \in SUBSET (0..n), S # {}
    PROVE  Max(S) \in S /\ \A x \in S : x <= Max(S)
<1> DEFINE Gaps == {n - x : x \in S}
<1>1. Gaps \subseteq Nat /\ Gaps # {}
  <2>1. \A x \in S : n - x \in Nat
    OBVIOUS
  <2>2. PICK x \in S : TRUE
    BY Zenon
  <2>3. n - x \in Gaps
    OBVIOUS
  <2> QED
    BY <2>1, <2>3
<1>2. IsWellFoundedOn(OpToRel(<, Nat), Nat)
  BY NatLessThanWellFounded, Zenon
<1> HIDE DEF Gaps
<1>3. PICK d \in Gaps : \A e \in Gaps : <<e, d>> \notin OpToRel(<, Nat)
  BY <1>1, <1>2, WFMin, Zenon
<1>4. \A e \in Gaps : ~ (e < d)
  BY <1>1, <1>3, Zenon DEF OpToRel
<1>5. PICK m \in S : d = n - m
  BY <1>3, Zenon DEF Gaps
<1>6. \A x \in S : m >= x
  <2> SUFFICES ASSUME NEW x \in S PROVE m >= x
    OBVIOUS
  <2>1. n - x \in Gaps
    BY DEF Gaps
  <2> QED
    BY <2>1, <1>4, <1>5
<1>7. \E y \in S : \A x \in S : y >= x
  BY <1>6
<1>8. Max(S) \in S /\ \A x \in S : Max(S) >= x
  BY <1>7, Zenon DEF Max
<1> QED
  BY <1>8

\* The first n of some hours, in order: what a page, or a page that fails
\* after some entries, delivers.
First(hours, n) == {h \in hours : Cardinality({g \in hours : g < h}) < n}

\* A page has no hole: an asked hour before a delivered one is delivered.
LEMMA FirstClosed ==
    ASSUME NEW m \in Nat, NEW hours \in SUBSET (1..m), NEW n \in Nat,
           NEW h \in hours, NEW g \in First(hours, n), h <= g
    PROVE  h \in First(hours, n)
<1> DEFINE Below(x) == {y \in hours : y < x}
<1>1. IsFiniteSet(Below(g))
  <2>1. IsFiniteSet(1..m)
    BY FS_Interval
  <2> QED
    BY <2>1, FS_Subset, Zenon
<1>2. Below(h) \subseteq Below(g)
  <2>1. g \in hours /\ hours \subseteq Int
    BY DEF First
  <2>2. \A y \in hours : y < h => y < g
    BY <2>1
  <2> QED
    BY <2>2, Zenon
<1>3. Cardinality(Below(h)) <= Cardinality(Below(g)) /\ IsFiniteSet(Below(h))
  BY <1>1, <1>2, FS_Subset
<1>4. Cardinality(Below(h)) \in Nat /\ Cardinality(Below(g)) \in Nat
  BY <1>1, <1>3, FS_CardinalityType
<1>5. Cardinality(Below(g)) < n
  BY DEF First
<1> QED
  BY <1>3, <1>4, <1>5 DEF First

\* A page that leaves out an asked hour is full, and the hour is after it.
LEMMA FirstFull ==
    ASSUME NEW m \in Nat, NEW hours \in SUBSET (1..m), NEW n \in Nat \ {0},
           NEW h \in hours, h \notin First(hours, n)
    PROVE  /\ Cardinality(First(hours, n)) >= n
           /\ \A g \in First(hours, n) : g < h
           /\ \E g \in hours : g < h
<1> DEFINE Below(x) == {y \in hours : y < x}
           Out == hours \ First(hours, n)
<1>1. IsFiniteSet(hours) /\ \A x \in hours : Cardinality(Below(x)) \in Nat
  <2>1. IsFiniteSet(1..m)
    BY FS_Interval
  <2>2. IsFiniteSet(hours)
    BY <2>1, FS_Subset, Zenon
  <2>3. \A x \in hours : IsFiniteSet(Below(x))
    BY <2>2, FS_Subset
  <2> QED
    BY <2>2, <2>3, FS_CardinalityType
<1>2. IsWellFoundedOn(OpToRel(<, Nat), Nat)
  BY NatLessThanWellFounded, Zenon
<1>3. Out \subseteq Nat /\ Out # {}
  <2>1. hours \subseteq Nat
    OBVIOUS
  <2> QED
    BY <2>1, Zenon
<1>4. PICK x \in Out : \A y \in Out : <<y, x>> \notin OpToRel(<, Nat)
  <2> HIDE DEF Out
  <2> QED
    BY <1>2, <1>3, WFMin, Zenon
<1>5. \A y \in Out : ~ (y < x)
  BY <1>3, <1>4, Zenon DEF OpToRel
<1>6. Below(x) \subseteq First(hours, n)
  BY <1>5, Zenon
<1>7. IsFiniteSet(First(hours, n))
  BY <1>1, FS_Subset, Zenon DEF First
<1>8. Cardinality(Below(x)) <= Cardinality(First(hours, n)) /\ Cardinality(First(hours, n)) \in Nat
  BY <1>6, <1>7, FS_Subset, FS_CardinalityType
<1>9. ~ (Cardinality(Below(x)) < n)
  BY <1>4, Zenon DEF First
<1>10. \A g \in First(hours, n) : g < h
  <2> SUFFICES ASSUME NEW g \in First(hours, n), ~ (g < h) PROVE FALSE
    OBVIOUS
  <2>1. h <= g
    BY DEF First
  <2> QED
    BY <2>1, FirstClosed, Zenon
<1>11. \E g \in hours : g < h
  <2> SUFFICES ASSUME Below(h) = {} PROVE FALSE
    BY Zenon
  <2>1. Cardinality(Below(h)) = 0
    BY FS_EmptySet
  <2> QED
    BY <2>1 DEF First
<1> QED
  BY <1>1, <1>8, <1>9, <1>10, <1>11

\* The latest hour of a coin among some rows.
LEMMA LatestHour ==
    ASSUME NEW rows \in SUBSET Rows, NEW c \in Coins
    PROVE  /\ Latest(rows, c) \in 0..MaxHour
           /\ Latest(rows, c) = 0 \/ <<c, Latest(rows, c)>> \in rows
           /\ \A h \in Hours : <<c, h>> \in rows => h <= Latest(rows, c)
<1> DEFINE S == HoursOf(rows, c) \cup {0}
<1>1. MaxHour \in Nat /\ S \in SUBSET (0..MaxHour) /\ S # {}
  BY RunAssumption DEF HoursOf, Hours
<1>2. Max(S) \in S /\ \A x \in S : x <= Max(S)
  BY <1>1, MaxHours, Zenon
<1>3. Latest(rows, c) = Max(S)
  BY DEF Latest
<1>4. \A h \in Hours : <<c, h>> \in rows => h \in S
  BY DEF HoursOf
<1> HIDE DEF S
<1>5. Latest(rows, c) \in 0..MaxHour /\ \A h \in Hours : <<c, h>> \in rows => h <= Latest(rows, c)
  BY <1>1, <1>2, <1>3, <1>4, Zenon
<1>6. Latest(rows, c) = 0 \/ <<c, Latest(rows, c)>> \in rows
  BY <1>2, <1>3 DEF HoursOf, S
<1> QED
  BY <1>5, <1>6

-----------------------------------------------------------------------------
(* What a step of one run does to the invariant.                           *)

\* A run that is not running holds nothing.
LEMMA IdleSound ==
    ASSUME NEW r \in Runs, NEW rows
    PROVE  Idle \in RunStates /\ RunSound(r, Idle, rows, feed, late)
<1>1. Idle.pc = "idle" /\ Idle.coin = CHOOSE c \in Coins : TRUE
  BY DEF Idle
<1>2. RunSound(r, Idle, rows, feed, late)
  BY <1>1 DEF RunSound, Active, Maintaining
<1>3. 0 \in 0..MaxHour
  BY RunAssumption
<1>4. [c \in Coins |-> 0] \in [Coins -> 0..MaxHour]
  BY <1>3
<1>5. Idle \in RunStates
  BY <1>1, <1>3, <1>4 DEF Idle, RunStates
<1> QED
  BY <1>2, <1>5

\* Another commit lands: the run's handle is behind, and what it holds stays
\* sound over the larger table.
LEMMA Behind ==
    ASSUME NEW r \in Runs, NEW s \in RunStates, NEW rows, NEW more,
           rows \subseteq more, RunSound(r, s, rows, feed, late)
    PROVE  /\ [s EXCEPT !.fresh = FALSE] \in RunStates
           /\ RunSound(r, [s EXCEPT !.fresh = FALSE], more, feed, late)
<1> DEFINE b == [s EXCEPT !.fresh = FALSE]
<1>1. b \in RunStates
  BY Zenon DEF RunStates
<1>2. /\ b.pc = s.pc /\ b.fresh = FALSE /\ b.window = s.window /\ b.left = s.left
      /\ b.last = s.last /\ b.known = s.known /\ b.coin = s.coin /\ b.start = s.start
      /\ b.previous = s.previous /\ b.pending = s.pending /\ b.failed = s.failed
      /\ b.gap = s.gap /\ b.cut = s.cut /\ b.due = s.due
  BY DEF RunStates
<1> HIDE DEF b
<1>3. Cursors(s, feed) => Cursors(b, feed)
  BY <1>2 DEF Cursors
<1>4. InArea(s, rows) => InArea(b, more)
  BY <1>2 DEF InArea
<1>5. OnTheWay(s, feed) => OnTheWay(b, feed)
  BY <1>2 DEF OnTheWay
<1>6. Scheduled(s, rows, feed, late) => Scheduled(b, more, feed, late)
  BY <1>2 DEF Scheduled, Ahead
<1>7. RunSound(r, b, more, feed, late)
  BY <1>2, <1>3, <1>4, <1>5, <1>6 DEF RunSound
<1> QED
  BY <1>1, <1>7 DEF b

\* A step within a run.
LEMMA SetStep ==
    ASSUME IInv, NEW r \in Runs, NEW s \in RunStates, RunSound(r, s, Stored, feed, late),
           Set(r, s), UNCHANGED <<now, feed, late, table, puts>>
    PROVE  IInv'
<1>1. TypeOK'
  BY DEF IInv, TypeOK, Set
<1>2. Sound(table, feed, late)' /\ PutsSound'
  BY DEF IInv, PutsSound, Stored
<1>3. \A o \in Runs : RunSound(o, run'[o], Stored, feed, late)
  BY DEF IInv, TypeOK, Set
<1>4. \A o \in Runs : RunSound(o, run[o], Stored, feed, late)'
  BY <1>3 DEF Stored
<1> QED
  BY <1>1, <1>2, <1>4 DEF IInv

\* A commit: what it writes may become the latest version.
LEMMA CommitStep ==
    ASSUME IInv, NEW r \in Runs, NEW t \in Tables, NEW s \in RunStates,
           run[r].fresh => Sound(t, feed, late) /\ Stored \subseteq t.rows /\ RunSound(r, s, t.rows, feed, late),
           Commit(r, t, s), UNCHANGED <<now, feed, late>>
    PROVE  IInv'
<1>1. CASE run[r].fresh /\ Landed(r, t, s)
  <2>1. \A o \in Runs : run'[o] \in RunStates /\ RunSound(o, run'[o], t.rows, feed, late)
    <3> SUFFICES ASSUME NEW o \in Runs
                 PROVE  run'[o] \in RunStates /\ RunSound(o, run'[o], t.rows, feed, late)
      OBVIOUS
    <3>1. CASE o = r
      BY <1>1, <3>1 DEF Landed
    <3>2. CASE o # r
      <4>1. run'[o] = [run[o] EXCEPT !.fresh = FALSE]
        BY <1>1, <3>2 DEF Landed
      <4>2. run[o] \in RunStates /\ RunSound(o, run[o], Stored, feed, late) /\ Stored \subseteq t.rows
        BY <1>1 DEF IInv, TypeOK
      <4> QED
        BY <4>1, <4>2, Behind
    <3> QED
      BY <3>1, <3>2
  <2>2. table' = t /\ puts' = {} /\ Stored' = t.rows
    BY <1>1 DEF Landed, Stored
  <2>3. TypeOK'
    BY <1>1, <2>1, <2>2 DEF IInv, TypeOK, Landed
  <2>4. Sound(table, feed, late)' /\ PutsSound'
    BY <1>1, <2>2 DEF PutsSound
  <2>5. \A o \in Runs : RunSound(o, run[o], Stored, feed, late)'
    BY <2>1, <2>2
  <2> QED
    BY <2>3, <2>4, <2>5 DEF IInv
<1>2. CASE /\ Set(r, Idle) /\ UNCHANGED table
           /\ puts' = puts \/ (run[r].fresh /\ puts' = puts \cup {t})
  <2>1. Idle \in RunStates /\ \A o \in Runs : run'[o] \in RunStates /\ RunSound(o, run'[o], Stored, feed, late)
    BY <1>2, IdleSound DEF IInv, TypeOK, Set
  <2>2. TypeOK'
    BY <1>2, <2>1 DEF IInv, TypeOK, Set
  <2>3. \A u \in puts' : Sound(u, feed, late) /\ Stored \subseteq u.rows
    BY <1>2 DEF IInv, PutsSound
  <2>4. Sound(table, feed, late)' /\ PutsSound'
    BY <1>2, <2>3 DEF IInv, PutsSound, Stored
  <2>5. \A o \in Runs : RunSound(o, run[o], Stored, feed, late)'
    BY <1>2, <2>1 DEF Stored
  <2> QED
    BY <2>2, <2>4, <2>5 DEF IInv
<1> QED
  BY <1>1, <1>2 DEF Commit

\* A run's rows, or none.
LEMMA AppendStep ==
    ASSUME IInv, NEW r \in Runs, NEW rows \in SUBSET Rows, NEW s \in RunStates,
           run[r].fresh => Sound(With(table, rows), feed, late),
           run[r].fresh \/ rows = {} => RunSound(r, s, Stored \cup rows, feed, late),
           AppendRows(r, rows, s), UNCHANGED <<now, feed, late>>
    PROVE  IInv'
<1>1. CASE rows = {} /\ Set(r, s) /\ UNCHANGED <<table, puts>>
  <2>1. Stored \cup rows = Stored
    BY <1>1
  <2> QED
    BY <1>1, <2>1, SetStep
<1>2. CASE Commit(r, With(table, rows), s)
  <2>1. With(table, rows) \in Tables /\ With(table, rows).rows = Stored \cup rows
    BY DEF IInv, TypeOK, Tables, With, Stored
  <2> QED
    BY <1>2, <2>1, CommitStep, Zenon
<1> QED
  BY <1>1, <1>2 DEF AppendRows

\* What a run writes is new to the table and leaves no gap in it: the rows of
\* a scheduled run follow its cursors, those of a repair lie behind a stored
\* row.
LEMMA MissingSound ==
    ASSUME IInv, NEW r \in Runs, run[r].pc \in Active, run[r].fresh
    PROVE  Sound(With(table, Missing(run[r])), feed, late)
<1> DEFINE s == run[r]
           rows == Missing(s)
           t == With(table, rows)
<1>1. s \in RunStates /\ Cursors(s, feed) /\ RunSound(r, s, Stored, feed, late) /\ Stored \subseteq Rows /\ Sound(table, feed, late)
  BY DEF IInv, TypeOK, RunSound, Stored, Tables
<1>2. rows \subseteq s.pending /\ rows \subseteq Rows
  BY <1>1 DEF Missing, RunStates
<1>3. rows \cap Stored = {}
  <2>1. CASE Repair(r)
    BY <1>1, <2>1, Zenon DEF RunSound, InArea, Missing
  <2>2. CASE ~ Repair(r)
    BY <1>1, <2>2, Zenon DEF RunSound, Scheduled, Ahead, Missing
  <2> QED
    BY <2>1, <2>2, Zenon
<1>4. t.rows = Stored \cup rows /\ t.twice = {}
  BY <1>1, <1>3, Zenon DEF With, Sound, Stored
<1>5. Supplied(t.rows, feed)
  BY <1>1, <1>2, <1>4 DEF Sound, Cursors, Supplied, Stored
<1>6. NoGaps(t.rows, feed, late)
  <2> SUFFICES ASSUME NEW c \in Coins, NEW h \in feed[c], NEW g \in Hours,
                      g > h, <<c, g>> \in Stored \cup rows
               PROVE  <<c, h>> \in Stored \cup rows \/ h \in late[c]
    BY <1>4 DEF NoGaps
  <2>1. feed[c] \subseteq Hours /\ h \in Nat /\ h \in Hours /\ g \in Nat /\ s.last[c] \in 0..MaxHour
    <3>1. now \in Hours /\ feed[c] \subseteq 1..now /\ MaxHour \in Nat
      BY RunAssumption DEF IInv, TypeOK
    <3> QED
      BY <1>1, <3>1 DEF Hours, RunStates
  <2>2. CASE <<c, g>> \in Stored
    BY <1>1, <2>2 DEF Sound, NoGaps, Stored
  <2>3. CASE <<c, g>> \in rows /\ ~ Repair(r)
    <3>1. g <= s.last[c]
      BY <1>1, <1>2, <2>3 DEF Cursors
    <3>2. h <= s.last[c]
      BY <2>1, <3>1
    <3>3. <<c, h>> \in Stored \cup s.pending \/ h \in late[c]
      BY <1>1, <2>3, <3>2, Zenon DEF RunSound, Scheduled, Ahead
    <3>4. rows = s.pending
      BY <1>1, <2>3 DEF RunSound, Scheduled, Ahead, Missing
    <3> QED
      BY <3>3, <3>4
  <2>4. CASE <<c, g>> \in rows /\ Repair(r)
    <3>1. g <= s.last[c]
      BY <1>1, <1>2, <2>4 DEF Cursors
    <3>2. h < s.last[c] /\ s.last[c] \in Hours
      BY <2>1, <3>1, RunAssumption DEF Hours
    <3>3. c \in Named
      BY <1>1, <1>2, <2>4, Zenon DEF RunSound, InArea, Area
    <3>4. <<c, s.last[c]>> \in Stored
      BY <1>1, <2>4, <3>2, <3>3 DEF RunSound, InArea, Hours
    <3> QED
      BY <1>1, <2>1, <3>2, <3>4, Zenon DEF Sound, NoGaps, Stored
  <2> QED
    BY <2>2, <2>3, <2>4
<1> QED
  BY <1>4, <1>5, <1>6 DEF Sound

\* A commit between two coins.
LEMMA FlushStep ==
    ASSUME IInv, NEW r \in Runs, Flush(r)
    PROVE  IInv'
<1> DEFINE s == run[r]
           rows == Missing(s)
           f == [s EXCEPT !.pc = "coins", !.pending = {},
                          !.known = IF Repair(r) THEN @ \cup rows ELSE @]
<1>1. s \in RunStates /\ RunSound(r, s, Stored, feed, late) /\ s.pc = "flush" /\ s.pc \in Active
  BY Zenon DEF IInv, TypeOK, Flush, Active
<1>2. rows \in SUBSET Rows
  BY <1>1 DEF Missing, RunStates
<1>3. f \in RunStates
  BY <1>1, <1>2, Zenon DEF RunStates, Active
<1>4. /\ f.pc = "coins" /\ f.fresh = s.fresh /\ f.window = s.window /\ f.left = s.left
      /\ f.last = s.last /\ f.pending = {} /\ f.failed = s.failed
      /\ f.gap = s.gap /\ f.cut = s.cut /\ f.due = s.due
      /\ f.known = IF Repair(r) THEN s.known \cup rows ELSE s.known
  BY <1>1 DEF RunStates
<1>5. AppendRows(r, rows, f)
  BY DEF Flush
<1> HIDE DEF f
<1>6. ASSUME s.fresh \/ rows = {} PROVE RunSound(r, f, Stored \cup rows, feed, late)
  <2>1. Cursors(f, feed)
    BY <1>1, <1>4, Zenon DEF RunSound, Cursors, Supplied
  <2>2. ASSUME Repair(r) PROVE InArea(f, Stored \cup rows)
    BY <1>1, <1>4, <1>6, <2>2, Zenon DEF RunSound, InArea, Missing
  <2>3. ASSUME Repair(r) PROVE OnTheWay(f, feed)
    BY <1>1, <1>4, <2>3, Zenon DEF RunSound, OnTheWay, Missing
  <2>4. ASSUME ~ Repair(r) PROVE Scheduled(f, Stored \cup rows, feed, late)
    <3>1. s.known = {} /\ rows = s.pending
      BY <1>1, <2>4 DEF RunSound, Scheduled, Ahead, Missing
    <3> QED
      BY <1>1, <1>4, <2>4, <3>1, Zenon DEF RunSound, Scheduled, Ahead, Cursors
  <2> QED
    BY <1>4, <2>1, <2>2, <2>3, <2>4, Zenon DEF RunSound, Active, Maintaining
<1> QED
  BY <1>1, <1>2, <1>3, <1>5, <1>6, MissingSound, AppendStep DEF Flush

\* The last commit: a repair that goes on to its maintenance, and was not cut
\* short, has nothing left to ask, so all it was asked for is stored.
LEMMA FinishStep ==
    ASSUME IInv, NEW r \in Runs, Finish(r)
    PROVE  IInv'
<1> DEFINE s == run[r]
           rows == Missing(s)
           m == [Idle EXCEPT !.pc = "optimize", !.fresh = s.fresh, !.cut = s.cut, !.due = s.due]
           f == IF s.failed \/ Outage(r, s) THEN Idle ELSE m
<1>1. /\ s \in RunStates /\ RunSound(r, s, Stored, feed, late) /\ s.pc \in Active
      /\ s.pc = "finish" \/ (s.pc = "coins" /\ s.left = {})
  BY DEF IInv, TypeOK, Finish, Active
<1>2. rows \in SUBSET Rows
  BY <1>1 DEF Missing, RunStates
<1>3. Idle \in RunStates /\ RunSound(r, Idle, Stored \cup rows, feed, late)
  BY IdleSound
<1>4. m \in RunStates /\ m.pc = "optimize" /\ m.cut = s.cut /\ m.due = s.due
  BY <1>1, <1>3, Zenon DEF RunStates, Maintaining
<1>5. AppendRows(r, rows, f)
  BY DEF Finish
<1> HIDE DEF m
<1>6. ASSUME ~ s.failed, ~ Outage(r, s)
      PROVE  RunSound(r, m, Stored \cup rows, feed, late)
  <2>1. m.pc \notin Active
    BY <1>4 DEF Active
  <2>2. ASSUME Repair(r), ~ s.cut PROVE s.due \subseteq Stored \cup rows
    <3>1. OnTheWay(s, feed) /\ InArea(s, Stored) /\ ~ s.gap
      BY <1>1, <1>6, <2>2, Zenon DEF RunSound, Outage
    <3>2. s.pc = "coins" /\ s.left = {}
      BY <1>1, <1>6, <2>2, <3>1, Zenon DEF OnTheWay
    <3>3. \A c \in Coins, h \in Hours : <<c, h>> \in s.due => <<c, h>> \in s.pending \cup s.known
      BY <1>6, <2>2, <3>1, <3>2, Zenon DEF OnTheWay
    <3>4. s.due \subseteq s.pending \cup s.known
      BY <1>1, <3>3 DEF RunStates, Rows
    <3> QED
      BY <3>1, <3>4, Zenon DEF InArea, Missing
  <2> QED
    BY <1>4, <2>1, <2>2 DEF RunSound
<1>7. f \in RunStates /\ RunSound(r, f, Stored \cup rows, feed, late)
  BY <1>3, <1>4, <1>6
<1> HIDE DEF f
<1> QED
  BY <1>1, <1>2, <1>5, <1>7, MissingSound, AppendStep DEF Finish

\* A run opens the table: its cursors are the latest stored hours.
LEMMA StartStep ==
    ASSUME IInv, NEW r \in Runs, Start(r)
    PROVE  IInv'
<1>1. PICK window \in Windows \cup {NoWindow} :
         Set(r, Opened(r, window)) /\ (Repair(r) => window \in Windows)
  BY DEF Start
<1> DEFINE o == Opened(r, window)
<1>2. Idle \in RunStates
  BY IdleSound
<1>3. /\ now \in Hours /\ feed \in [Coins -> SUBSET (1..now)] /\ Stored \subseteq Rows /\ Sound(table, feed, late)
      /\ Named \subseteq Coins /\ MaxHour \in Nat
  BY RunAssumption DEF IInv, TypeOK, Tables, Stored
<1>4. \A c \in Coins :
         /\ Latest(Stored, c) \in 0..MaxHour
         /\ Latest(Stored, c) = 0 \/ <<c, Latest(Stored, c)>> \in Stored
         /\ \A h \in Hours : <<c, h>> \in Stored => h <= Latest(Stored, c)
  BY <1>3, LatestHour
<1>5. /\ o.pc = "coins" /\ o.fresh = TRUE /\ o.window = window
      /\ o.left = IF Repair(r) THEN Named ELSE Coins
      /\ o.last = [c \in Coins |-> IF Repair(r) /\ c \notin Named THEN 0 ELSE Latest(Stored, c)]
      /\ o.known = IF Repair(r) THEN Stored \cap Area(window) ELSE {}
      /\ o.pending = {} /\ o.failed = FALSE /\ o.gap = FALSE /\ o.cut = FALSE
      /\ o.due = IF Repair(r) THEN Due(window) ELSE {}
  BY DEF Opened, Idle, Area
<1>6. Due(window) \subseteq Area(window)
  BY DEF Due, Area
<1>7. Repair(r) => Within(window) \subseteq Hours
  BY <1>1, RunAssumption DEF Within, Hours
<1>8. Repair(r) => Due(window) \in SUBSET Rows
  BY <1>3, <1>6, <1>7 DEF Area, Rows
<1>9. o \in RunStates
  <2>1. o.last \in [Coins -> 0..MaxHour]
    <3>1. 0 \in 0..MaxHour
      BY <1>3
    <3> QED
      BY <1>4, <1>5, <3>1, ZenonT(30)
  <2>2. o.left \in SUBSET Coins /\ o.known \in SUBSET Rows /\ o.due \in SUBSET Rows
    BY <1>3, <1>5, <1>8
  <2>3. 0 \in 0..MaxHour /\ now \in 0..MaxHour
    BY <1>3 DEF Hours
  <2>4. o = [Idle EXCEPT !.pc = "coins", !.fresh = TRUE, !.window = window, !.left = o.left,
                         !.last = o.last, !.known = o.known,
                         !.hour = IF Repair(r) THEN 0 ELSE now, !.due = o.due]
    BY <1>5 DEF Opened, Area
  <2> HIDE DEF o
  <2> QED
    BY <1>1, <1>2, <2>1, <2>2, <2>3, <2>4, ZenonT(60) DEF RunStates, Active
<1> HIDE DEF o
<1>10. Cursors(o, feed)
  <2>1. \A c \in Coins : o.last[c] = 0 \/ o.last[c] \in feed[c]
    <3> SUFFICES ASSUME NEW c \in Coins, o.last[c] # 0 PROVE o.last[c] \in feed[c]
      OBVIOUS
    <3>1. o.last[c] = Latest(Stored, c)
      BY <1>5
    <3>2. <<c, o.last[c]>> \in Stored /\ o.last[c] \in Hours
      BY <1>3, <1>4, <3>1 DEF Hours
    <3> QED
      BY <1>3, <3>2 DEF Sound, Supplied, Stored
  <2> QED
    BY <1>5, <2>1 DEF Cursors, Supplied
<1>11. ASSUME Repair(r) PROVE InArea(o, Stored)
  BY <1>1, <1>3, <1>4, <1>5, <1>11, Zenon DEF InArea
<1>12. ASSUME Repair(r) PROVE OnTheWay(o, feed)
  <2>1. \A c \in Coins, h \in Hours : <<c, h>> \in o.due => c \in Named /\ h \in feed[c] /\ h <= o.last[c]
    <3> SUFFICES ASSUME NEW c \in Coins, NEW h \in Hours, <<c, h>> \in o.due
                 PROVE  c \in Named /\ h \in feed[c] /\ h <= o.last[c]
      OBVIOUS
    <3>1. <<c, h>> \in Due(window)
      BY <1>5, <1>12
    <3>2. c \in Named /\ h \in feed[c] /\ h <= Latest(Stored, c)
      BY <3>1 DEF Due
    <3> QED
      BY <1>5, <3>2
  <2> QED
    BY <1>5, <1>6, <1>12, <2>1, Zenon DEF OnTheWay
<1>13. ASSUME ~ Repair(r) PROVE Scheduled(o, Stored, feed, late)
  <2>1. \A c \in Coins : o.last[c] = Latest(Stored, c)
    BY <1>5, <1>13
  <2>2. ASSUME NEW c \in Coins, NEW h \in feed[c], h <= o.last[c]
        PROVE  <<c, h>> \in Stored \/ h \in late[c]
    <3>1. h \in Hours /\ h \in Nat /\ o.last[c] \in 0..MaxHour
      <4>1. feed[c] \subseteq 1..now /\ now \in 1..MaxHour
        BY <1>3 DEF Hours
      <4>2. h \in 1..MaxHour
        BY <1>3, <4>1
      <4>3. o.last[c] \in 0..MaxHour
        BY <1>9 DEF RunStates
      <4> QED
        BY <4>2, <4>3 DEF Hours
    <3>2. o.last[c] \in Hours /\ <<c, o.last[c]>> \in Stored
      BY <1>3, <1>4, <2>1, <2>2, <3>1 DEF Hours
    <3>3. CASE h = o.last[c]
      BY <3>2, <3>3
    <3>4. CASE h < o.last[c]
      BY <1>3, <3>1, <3>2, <3>4, Zenon DEF Sound, NoGaps, Stored
    <3> QED
      BY <2>2, <3>1, <3>3, <3>4
  <2> QED
    BY <1>4, <1>5, <1>13, <2>1, <2>2, Zenon DEF Scheduled, Ahead
<1>14. RunSound(r, o, Stored, feed, late)
  BY <1>5, <1>10, <1>11, <1>12, <1>13 DEF RunSound, Maintaining
<1>15. Set(r, o)
  BY <1>1 DEF o
<1> QED
  BY <1>9, <1>14, <1>15, SetStep DEF Start

\* A coin is passed over: nothing a repair was asked for is of a coin without
\* stored hours.
LEMMA SkipStep ==
    ASSUME IInv, NEW r \in Runs, NEW c \in Coins, SkipCoin(r, c)
    PROVE  IInv'
<1> DEFINE s == run[r]
           t == [s EXCEPT !.left = @ \ {c}]
<1>1. s \in RunStates /\ RunSound(r, s, Stored, feed, late) /\ s.pc = "coins" /\ s.pc \in Active
  BY DEF IInv, TypeOK, SkipCoin, Active
<1>2. t \in RunStates
  BY <1>1 DEF RunStates
<1>3. /\ t.pc = s.pc /\ t.fresh = s.fresh /\ t.window = s.window /\ t.left = s.left \ {c}
      /\ t.last = s.last /\ t.known = s.known /\ t.pending = s.pending
      /\ t.failed = s.failed /\ t.gap = s.gap /\ t.cut = s.cut /\ t.due = s.due
  BY <1>1 DEF RunStates
<1>4. Set(r, t)
  BY Zenon DEF SkipCoin
<1> HIDE DEF t
<1>5. Cursors(t, feed)
  BY <1>1, <1>3 DEF RunSound, Cursors
<1>6. ASSUME Repair(r) PROVE InArea(t, Stored) /\ OnTheWay(t, feed)
  <2>1. InArea(s, Stored) /\ OnTheWay(s, feed) /\ s.last[c] = 0
    BY <1>1, <1>6, Zenon DEF RunSound, SkipCoin, Skipped
  <2>2. \A h \in Hours : <<c, h>> \notin s.due
    BY <2>1 DEF OnTheWay, Hours
  <2>3. InArea(t, Stored)
    BY <1>1, <1>3, <2>1, Zenon DEF InArea
  <2>4. OnTheWay(t, feed)
    BY <1>1, <1>3, <2>1, <2>2, Zenon DEF OnTheWay
  <2> QED
    BY <2>3, <2>4
<1>7. ASSUME ~ Repair(r) PROVE Scheduled(t, Stored, feed, late)
  BY <1>1, <1>3, <1>7, Zenon DEF RunSound, Scheduled, Ahead
<1>8. RunSound(r, t, Stored, feed, late)
  BY <1>1, <1>3, <1>5, <1>6, <1>7 DEF RunSound, Maintaining
<1> QED
  BY <1>2, <1>4, <1>8, SetStep DEF SkipCoin

\* A coin's turn.
LEMMA BeginStep ==
    ASSUME IInv, NEW r \in Runs, NEW c \in Coins, BeginCoin(r, c)
    PROVE  IInv'
<1> DEFINE s == run[r]
           t == [s EXCEPT !.left = @ \ {c}, !.pc = "asking", !.coin = c,
                          !.start = FirstStart(r, c), !.previous = s.last[c]]
<1>1. s \in RunStates /\ RunSound(r, s, Stored, feed, late) /\ s.pc = "coins" /\ s.pc \in Active /\ c \in s.left
  BY DEF IInv, TypeOK, BeginCoin, Active, Turn
<1>2. FirstStart(r, c) \in Nat
  <2>1. ASSUME Repair(r) PROVE s.window[1] \in Nat
    <3>1. s.window \in Windows
      BY <1>1, <2>1, Zenon DEF RunSound, InArea
    <3> QED
      BY <3>1, RunAssumption DEF Hours
  <2>2. s.last[c] + 1 \in Nat
    BY <1>1, RunAssumption DEF RunStates
  <2> QED
    BY <2>1, <2>2 DEF FirstStart
<1>3. t \in RunStates
  BY <1>1, <1>2, Zenon DEF RunStates, Active
<1>4. /\ t.pc = "asking" /\ t.fresh = s.fresh /\ t.window = s.window /\ t.left = s.left \ {c}
      /\ t.last = s.last /\ t.known = s.known /\ t.pending = s.pending
      /\ t.failed = s.failed /\ t.gap = s.gap /\ t.cut = s.cut /\ t.due = s.due
      /\ t.coin = c /\ t.start = FirstStart(r, c) /\ t.previous = s.last[c]
  BY <1>1 DEF RunStates
<1>5. Set(r, t)
  BY Zenon DEF BeginCoin
<1>6. s.last[c] \in Nat
  BY <1>1, RunAssumption DEF RunStates
<1> HIDE DEF t
<1>7. Cursors(t, feed)
  BY <1>1, <1>4, Zenon DEF RunSound, Cursors
<1>8. ASSUME Repair(r) PROVE InArea(t, Stored) /\ OnTheWay(t, feed)
  <2>1. InArea(s, Stored) /\ OnTheWay(s, feed)
    BY <1>1, <1>8, Zenon DEF RunSound
  <2>2. t.start = s.window[1] /\ s.window \in Windows /\ t.start \in Nat
    BY <1>2, <1>4, <1>8, <2>1, Zenon DEF InArea, FirstStart
  <2>3. InArea(t, Stored)
    BY <1>1, <1>4, <2>1, <2>2, SMTT(30) DEF InArea
  <2>4. \A h \in Hours : <<c, h>> \in s.due => h >= t.start
    BY <2>1, <2>2, RunAssumption DEF OnTheWay, Area, Within, Hours
  <2>5. OnTheWay(t, feed)
    BY <1>1, <1>4, <2>1, <2>4, ZenonT(30) DEF OnTheWay
  <2> QED
    BY <2>3, <2>5
<1>9. ASSUME ~ Repair(r) PROVE Scheduled(t, Stored, feed, late)
  <2>1. t.start = s.last[c] + 1
    BY <1>4, <1>9, Zenon DEF FirstStart
  <2> QED
    BY <1>1, <1>4, <1>6, <1>9, <2>1 DEF RunSound, Scheduled, Ahead
<1>10. RunSound(r, t, Stored, feed, late)
  BY <1>1, <1>4, <1>7, <1>8, <1>9 DEF RunSound, Maintaining
<1> QED
  BY <1>3, <1>5, <1>10, SetStep DEF BeginCoin

-----------------------------------------------------------------------------
(* Pages.                                                                  *)

\* The first n of the first k hours are the first n.
LEMMA FirstOfFirst ==
    ASSUME NEW m \in Nat, NEW asked \in SUBSET (1..m), NEW k \in Nat, NEW n \in 0..k
    PROVE  First(First(asked, k), n) = First(asked, n)
<1> DEFINE Below(S, x) == {y \in S : y < x}
           hours == First(asked, k)
<1>1. hours \subseteq asked /\ asked \subseteq Int
  BY DEF First
<1>2. \A h \in hours, y \in asked : y < h => y \in hours
  <2> SUFFICES ASSUME NEW h \in hours, NEW y \in asked, y < h PROVE y \in hours
    OBVIOUS
  <2>1. h \in Int /\ y \in Int
    BY <1>1, Zenon
  <2>2. y <= h
    BY <2>1
  <2> QED
    BY <2>2, FirstClosed
<1>3. \A h \in hours : Below(hours, h) = Below(asked, h)
  <2> HIDE DEF hours
  <2> QED
    BY <1>1, <1>2, Zenon
<1>4. ASSUME NEW h \in First(asked, n) PROVE h \in hours
  <2>1. IsFiniteSet(Below(asked, h))
    <3>1. IsFiniteSet(1..m)
      BY FS_Interval
    <3>2. Below(asked, h) \subseteq 1..m
      BY Zenon
    <3> QED
      BY <3>1, <3>2, FS_Subset
  <2>2. Cardinality(Below(asked, h)) \in Nat
    BY <2>1, FS_CardinalityType
  <2>3. Cardinality(Below(asked, h)) < n /\ h \in asked
    BY DEF First
  <2>4. Cardinality(Below(asked, h)) < k
    BY <2>2, <2>3
  <2> QED
    BY <2>3, <2>4 DEF First
<1>5. First(hours, n) = {h \in hours : Cardinality(Below(hours, h)) < n}
  BY DEF First
<1>6. First(asked, n) = {h \in asked : Cardinality(Below(asked, h)) < n}
  BY DEF First
<1> HIDE DEF hours, Below
<1>7. First(hours, n) = First(asked, n)
  BY <1>1, <1>3, <1>4, <1>5, <1>6, Zenon
<1> QED
  BY <1>7 DEF hours

\* The next page starts after the last entry of this one.
LEMMA NextPage ==
    ASSUME NEW m \in Nat, NEW hours \in SUBSET (1..m), NEW start \in Nat
    PROVE  /\ Max(hours \cup {start}) \in hours \cup {start}
           /\ Max(hours \cup {start}) \in Nat
           /\ start <= Max(hours \cup {start})
<1> DEFINE S == hours \cup {start}
<1>1. m + start \in Nat /\ start \in 0..(m + start) /\ \A h \in hours : h \in 0..(m + start)
  OBVIOUS
<1>2. S \in SUBSET (0..(m + start)) /\ S # {} /\ (\A x \in S : x \in Nat) /\ start \in S
  BY <1>1
<1> HIDE DEF S
<1>3. Max(S) \in S /\ \A x \in S : x <= Max(S)
  BY <1>1, <1>2, MaxHours, Zenon
<1>4. Max(S) \in S /\ Max(S) \in Nat /\ start <= Max(S)
  BY <1>2, <1>3, Zenon
<1> QED
  BY <1>4 DEF S

\* The run t is the run s after it took over these hours of its coin.
Extends(s, kept, t) ==
    /\ t \in RunStates
    /\ t.pc = "asking" /\ t.fresh = s.fresh /\ t.window = s.window /\ t.left = s.left
    /\ t.known = s.known /\ t.coin = s.coin /\ t.start = s.start /\ t.previous = s.previous
    /\ t.failed = s.failed /\ t.gap = s.gap /\ t.cut = s.cut /\ t.due = s.due
    /\ t.pending = s.pending \cup {<<s.coin, h>> : h \in kept}
    /\ t.last[s.coin] \in kept \cup {s.last[s.coin]}
    /\ \A x \in kept \cup {s.last[s.coin]} : x <= t.last[s.coin]
    /\ \A c \in Coins \ {s.coin} : t.last[c] = s.last[c]

\* Of the hours of a page a run takes over those it keeps.
LEMMA TakenExtends ==
    ASSUME NEW r \in Runs, NEW s \in RunStates, s.pc = "asking", s.coin \in Coins,
           NEW hours \in SUBSET (1..MaxHour),
           NEW kept, kept = {h \in hours : Kept(r, h, s.previous)}
    PROVE  Extends(s, kept, Taken(r, s, hours))
<1> DEFINE m == Max(kept \cup {s.last[s.coin]})
           last == [s.last EXCEPT ![s.coin] = m]
           more == s.pending \cup {<<s.coin, h>> : h \in kept}
           t == [s EXCEPT !.pending = more, !.last = last]
<1>1. Taken(r, s, hours) = t
  BY DEF Taken
<1>2. MaxHour \in Nat /\ s.last \in [Coins -> 0..MaxHour] /\ s.pending \in SUBSET Rows
  BY RunAssumption DEF RunStates
<1>3. kept \in SUBSET (1..MaxHour)
  BY Zenon
<1>4. kept \cup {s.last[s.coin]} \in SUBSET (0..MaxHour)
  BY <1>2, <1>3
<1>5. /\ m \in kept \cup {s.last[s.coin]} /\ m \in 0..MaxHour
      /\ \A x \in kept \cup {s.last[s.coin]} : x <= m
  BY <1>2, <1>4, MaxHours, Zenon
<1>6. more \in SUBSET Rows
  BY <1>2, <1>3 DEF Rows, Hours
<1> HIDE DEF m
<1>7. last \in [Coins -> 0..MaxHour] /\ last[s.coin] = m /\ \A c \in Coins \ {s.coin} : last[c] = s.last[c]
  BY <1>2, <1>5
<1> HIDE DEF last, more
<1>8. t \in RunStates /\ t.pending = more /\ t.last = last
  BY <1>6, <1>7, Zenon DEF RunStates
<1>9. /\ t.pc = "asking" /\ t.fresh = s.fresh /\ t.window = s.window /\ t.left = s.left
      /\ t.known = s.known /\ t.coin = s.coin /\ t.start = s.start /\ t.previous = s.previous
      /\ t.failed = s.failed /\ t.gap = s.gap /\ t.cut = s.cut /\ t.due = s.due
  BY DEF RunStates
<1> HIDE DEF t
<1>10. t.pending = s.pending \cup {<<s.coin, h>> : h \in kept}
  BY <1>8, Zenon DEF more
<1>11. Extends(s, kept, t)
  BY <1>5, <1>7, <1>8, <1>9, <1>10, Zenon DEF Extends
<1> QED
  BY <1>1, <1>11

\* What a run took over is supplied and lies behind its cursors.
LEMMA ExtendsCursors ==
    ASSUME NEW s \in RunStates, NEW t, NEW f, NEW kept \in SUBSET (1..MaxHour),
           s.coin \in Coins, kept \subseteq f[s.coin], Cursors(s, f), Extends(s, kept, t)
    PROVE  Cursors(t, f)
<1>1. \A c \in Coins : t.last[c] = 0 \/ t.last[c] \in f[c]
  BY Zenon DEF Cursors, Extends
<1>2. \A c \in Coins, h \in Hours :
         <<c, h>> \in t.pending => <<c, h>> \in s.pending \/ (c = s.coin /\ h \in kept)
  BY DEF Extends
<1>3. Supplied(t.pending, f)
  BY <1>2, Zenon DEF Cursors, Supplied
<1>4. ASSUME NEW c \in Coins PROVE s.last[c] \in Nat /\ t.last[c] \in Nat /\ s.last[c] <= t.last[c]
  <2>1. s.last[c] \in Nat /\ t.last[c] \in Nat
    BY RunAssumption DEF Extends, RunStates
  <2> QED
    BY <2>1 DEF Extends
<1>5. ASSUME NEW c \in Coins, NEW h \in Hours, <<c, h>> \in t.pending PROVE h <= t.last[c]
  <2>1. CASE <<c, h>> \in s.pending
    <3>1. h <= s.last[c] /\ h \in Nat
      BY <2>1 DEF Cursors, Hours
    <3> QED
      BY <1>4, <3>1
  <2>2. CASE c = s.coin /\ h \in kept
    BY <2>2, Zenon DEF Extends
  <2> QED
    BY <1>2, <1>5, <2>1, <2>2, Zenon
<1>6. t.coin \in Coins
  BY DEF Extends
<1> QED
  BY <1>1, <1>3, <1>5, <1>6 DEF Cursors

\* A repair takes over hours of its window behind the cursor, which stays.
LEMMA ExtendsRepair ==
    ASSUME NEW s \in RunStates, NEW t, NEW rows, NEW kept \in SUBSET (1..MaxHour),
           s.pc = "asking", s.coin \in Coins, InArea(s, rows), Extends(s, kept, t),
           \A h \in kept : h <= s.previous /\ h >= s.start /\ h <= s.window[2]
    PROVE  InArea(t, rows) /\ t.last = s.last
<1>1. s.coin \in Named /\ s.start >= s.window[1] /\ s.previous = s.last[s.coin] /\ s.window \in Windows
  BY Zenon DEF InArea
<1>2. /\ s.last \in [Coins -> 0..MaxHour] /\ t.last \in [Coins -> 0..MaxHour] /\ MaxHour \in Nat
      /\ s.start \in Nat
  BY RunAssumption, Zenon DEF Extends, RunStates
<1>3. t.last[s.coin] = s.last[s.coin]
  <2>1. t.last[s.coin] <= s.last[s.coin]
    BY <1>1, <1>2 DEF Extends
  <2>2. s.last[s.coin] <= t.last[s.coin]
    BY Zenon DEF Extends
  <2> QED
    BY <1>2, <2>1, <2>2
<1>4. \A c \in Coins : t.last[c] = s.last[c]
  BY <1>3 DEF Extends
<1>5. t.last = s.last
  BY <1>2, <1>4
<1>6. \A h \in kept : h \in Within(s.window)
  <2>1. s.window[1] \in Nat /\ s.window[2] \in Nat
    BY <1>1, RunAssumption DEF Hours
  <2> QED
    BY <1>1, <1>2, <2>1 DEF Within
<1>7. t.pending \subseteq Area(t.window)
  BY <1>1, <1>6 DEF InArea, Area, Extends
<1>8. InArea(t, rows)
  BY <1>1, <1>5, <1>7, Zenon DEF InArea, Extends
<1> QED
  BY <1>5, <1>8

\* The cursor of a scheduled run is at the last of the hours it took over.
Moved(hours, t, rows, f, l) ==
    /\ Ahead(t, rows, f, l)
    /\ hours # {} => t.last[t.coin] = Max(hours \cup {t.start})

\* A scheduled run takes over the first hours after its cursor, which moves to
\* the last of them: nothing is left out.
LEMMA ExtendsAhead ==
    ASSUME NEW s \in RunStates, NEW t, NEW rows, NEW f, NEW l, NEW n \in Nat,
           NEW asked \in SUBSET (1..MaxHour), NEW hours, hours = First(asked, n),
           s.pc = "asking", s.coin \in Coins, s.fresh, f[s.coin] \subseteq 1..MaxHour,
           asked = {h \in f[s.coin] : h >= s.start},
           Scheduled(s, rows, f, l), Extends(s, hours, t)
    PROVE  Moved(hours, t, rows, f, l)
<1>1. /\ Ahead(s, rows, f, l) /\ s.start = s.last[s.coin] + 1
      /\ s.previous <= s.last[s.coin] /\ \A h \in Hours : <<s.coin, h>> \in rows => h <= s.previous
  BY Zenon DEF Scheduled
<1>2. MaxHour \in Nat /\ s.previous \in Nat /\ s.start \in Nat
  BY RunAssumption DEF RunStates
<1>3. ASSUME NEW c \in Coins PROVE s.last[c] \in 0..MaxHour /\ t.last[c] \in 0..MaxHour /\ s.last[c] <= t.last[c]
  <2>1. s.last[c] \in 0..MaxHour /\ t.last[c] \in 0..MaxHour
    BY Zenon DEF Extends, RunStates
  <2> QED
    BY <1>2, <2>1, SMTT(30) DEF Extends
<1>4. hours \subseteq asked /\ \A h \in hours : h \in 1..MaxHour /\ h >= s.start
  BY Zenon DEF First
<1>5. \A h \in hours : h > s.previous
  BY <1>1, <1>2, <1>3, <1>4
<1>6. \A c \in Coins, h \in Hours : <<c, h>> \in rows => h <= t.last[c]
  <2> SUFFICES ASSUME NEW c \in Coins, NEW h \in Hours, <<c, h>> \in rows PROVE h <= t.last[c]
    BY Zenon
  <2>1. h <= s.last[c] /\ h \in Nat
    BY <1>1 DEF Ahead, Hours
  <2> QED
    BY <1>2, <1>3, <2>1
<1>7. t.pending \cap rows = {}
  <2>1. ASSUME NEW h \in hours PROVE <<s.coin, h>> \notin rows
    <3>1. h \in Hours /\ h > s.previous /\ h \in Nat
      BY <1>4, <1>5 DEF Hours
    <3> QED
      BY <1>1, <1>2, <3>1
  <2>2. s.pending \cap rows = {}
    BY <1>1, Zenon DEF Ahead
  <2> QED
    BY <2>1, <2>2 DEF Extends
<1>8. ASSUME NEW c \in Coins, NEW h \in f[c], h <= t.last[c]
      PROVE  <<c, h>> \in rows \cup t.pending \/ h \in l[c]
  <2>1. s.pending \subseteq t.pending
    BY Zenon DEF Extends
  <2>2. CASE h <= s.last[c]
    BY <1>1, <2>1, <2>2 DEF Ahead
  <2>3. CASE ~ (h <= s.last[c])
    <3>1. c = s.coin
      BY <1>8, <2>3, Zenon DEF Extends
    <3>2. h \in 1..MaxHour /\ h >= s.start /\ t.last[s.coin] # s.last[s.coin]
      BY <1>1, <1>2, <1>3, <1>8, <2>3, <3>1
    <3>3. h \in asked /\ t.last[s.coin] \in hours
      BY <3>1, <3>2, Zenon DEF Extends
    <3>4. h \in hours
      BY <1>2, <1>8, <3>1, <3>3, FirstClosed, Zenon
    <3> QED
      BY <3>1, <3>4, Zenon DEF Extends
  <2> QED
    BY <2>2, <2>3, Zenon
<1>9. Ahead(t, rows, f, l)
  BY <1>6, <1>7, <1>8, Zenon DEF Ahead
<1>10. ASSUME hours # {} PROVE t.last[s.coin] = Max(hours \cup {s.start})
  <2> DEFINE S == hours \cup {s.start}
             m == t.last[s.coin]
  <2>1. MaxHour + 1 \in Nat /\ s.start \in 0..(MaxHour + 1) /\ \A h \in hours : h \in 0..(MaxHour + 1)
    BY <1>1, <1>2, <1>3, <1>4
  <2>2. S \in SUBSET (0..(MaxHour + 1)) /\ S # {}
    BY <2>1
  <2>3. Max(S) \in S /\ \A x \in S : x <= Max(S)
    <3> HIDE DEF S
    <3> QED
      BY <2>1, <2>2, MaxHours, Zenon
  <2>4. PICK h \in hours : TRUE
    BY <1>10, Zenon
  <2>5. h > s.last[s.coin] /\ h <= m /\ m \in Nat
    BY <1>1, <1>2, <1>3, <1>4, <2>4 DEF Extends
  <2>6. m \in hours
    <3>1. h \in Nat /\ s.last[s.coin] \in Nat
      BY <1>3, <1>4
    <3>2. m # s.last[s.coin]
      BY <2>5, <3>1
    <3> QED
      BY <3>2, Zenon DEF Extends
  <2>7. \A x \in S : x <= m
    BY <1>4, <2>6 DEF Extends
  <2>8. m <= Max(S) /\ Max(S) <= m /\ Max(S) \in Int
    BY <2>1, <2>3, <2>6, <2>7
  <2> QED
    BY <2>5, <2>8
<1> QED
  BY <1>9, <1>10, Zenon DEF Extends, Moved

\* The hours asked for are hours, and a page is the first of them.
LEMMA AskedHours ==
    ASSUME IInv, NEW r \in Runs, NEW c \in Coins, NEW start
    PROVE  /\ MaxHour \in Nat /\ Page \in Nat \ {0}
           /\ Asked(r, c, start) \in SUBSET (1..MaxHour)
           /\ feed[c] \in SUBSET (1..MaxHour)
           /\ Answered(r, c, start) = First(Asked(r, c, start), Page)
<1>1. MaxHour \in Nat /\ Page \in Nat \ {0} /\ now \in 1..MaxHour /\ feed[c] \subseteq 1..now
  BY RunAssumption DEF IInv, TypeOK, Hours
<1>2. feed[c] \subseteq 1..MaxHour
  BY <1>1
<1> QED
  BY <1>1, <1>2 DEF Asked, Answered, First

\* The state of a run that asks.
LEMMA Asking ==
    ASSUME IInv, NEW r \in Runs, NEW s, s = run[r], s.pc = "asking"
    PROVE  /\ s \in RunStates /\ s.coin \in Coins /\ s.start \in Nat /\ Cursors(s, feed)
           /\ Repair(r) => InArea(s, Stored) /\ OnTheWay(s, feed)
           /\ ~ Repair(r) => Scheduled(s, Stored, feed, late)
BY Zenon DEF IInv, TypeOK, RunSound, Active, Cursors, RunStates

\* What taking over the hours of a page does to a run.
TookOver(r, s, hours, t) ==
    /\ Extends(s, {h \in hours : Kept(r, h, s.previous)}, t)
    /\ Cursors(t, feed)
    /\ Repair(r) => InArea(t, Stored) /\ t.last = s.last
    /\ ~ Repair(r) => t.known = {}
    /\ ~ Repair(r) /\ t.fresh =>
          /\ Moved(hours, t, Stored, feed, late)
          /\ \A h \in Hours : <<t.coin, h>> \in Stored => h <= t.previous
          /\ t.previous <= t.last[t.coin]

\* The first entries of a page, n of them, are taken over.
LEMMA TakenFirst ==
    ASSUME IInv, NEW r \in Runs, NEW s, s = run[r], s.pc = "asking", NEW n \in Nat,
           NEW asked, asked = Asked(r, s.coin, s.start),
           NEW hours, hours = First(asked, n), NEW t, t = Taken(r, s, hours)
    PROVE  TookOver(r, s, hours, t)
<1>1. /\ s \in RunStates /\ s.coin \in Coins /\ s.start \in Nat /\ Cursors(s, feed)
      /\ Repair(r) => InArea(s, Stored)
      /\ ~ Repair(r) => Scheduled(s, Stored, feed, late)
  BY Asking, Zenon
<1>2. /\ MaxHour \in Nat /\ asked \in SUBSET (1..MaxHour) /\ feed[s.coin] \in SUBSET (1..MaxHour)
  BY <1>1, AskedHours, Zenon
<1>3. hours \subseteq asked /\ asked \subseteq feed[s.coin] /\ hours \in SUBSET (1..MaxHour)
  BY <1>2, Zenon DEF First, Asked
<1> DEFINE kept == {h \in hours : Kept(r, h, s.previous)}
<1>4. Extends(s, kept, t)
  BY <1>1, <1>3, TakenExtends, Zenon
<1>5. kept \in SUBSET (1..MaxHour) /\ kept \subseteq hours
  BY <1>3, Zenon
<1>6. ASSUME Repair(r) PROVE \A h \in kept : h <= s.previous /\ h >= s.start /\ h <= s.window[2]
  BY <1>3, <1>6, Zenon DEF Kept, Asked
<1>7. ASSUME ~ Repair(r), s.fresh PROVE kept = hours
  <2>1. s.start = s.last[s.coin] + 1 /\ s.previous <= s.last[s.coin]
    BY <1>1, <1>7, Zenon DEF Scheduled
  <2>2. s.previous \in Nat /\ s.last[s.coin] \in Nat
    BY <1>1, <1>2 DEF RunStates
  <2>3. \A h \in hours : h \in Nat /\ h >= s.start
    BY <1>3 DEF Asked
  <2>4. \A h \in hours : h > s.previous
    BY <2>1, <2>2, <2>3
  <2> QED
    BY <1>7, <2>4, Zenon DEF Kept
<1> HIDE DEF kept
<1>8. Cursors(t, feed)
  BY <1>1, <1>3, <1>4, <1>5, ExtendsCursors, Zenon
<1>9. ASSUME Repair(r) PROVE InArea(t, Stored) /\ t.last = s.last
  BY <1>1, <1>4, <1>5, <1>6, <1>9, ExtendsRepair, Zenon
<1>10. ASSUME ~ Repair(r) PROVE t.known = {}
  BY <1>1, <1>4, <1>10, ZenonT(30) DEF Scheduled, Extends
<1>11. ASSUME ~ Repair(r), t.fresh
       PROVE  /\ Moved(hours, t, Stored, feed, late)
              /\ \A h \in Hours : <<t.coin, h>> \in Stored => h <= t.previous
              /\ t.previous <= t.last[t.coin]
  <2>1. s.fresh /\ t.coin = s.coin /\ t.previous = s.previous /\ Extends(s, hours, t)
    BY <1>4, <1>7, <1>11, Zenon DEF Extends
  <2>2. asked = {h \in feed[s.coin] : h >= s.start}
    <3>1. \A h : h \in asked <=> h \in feed[s.coin] /\ h >= s.start
      BY <1>11, Zenon DEF Asked
    <3> QED
      BY <3>1, Zenon
  <2>3. Moved(hours, t, Stored, feed, late)
    <3>1. Scheduled(s, Stored, feed, late) /\ feed[s.coin] \subseteq 1..MaxHour
      BY <1>1, <1>2, <1>11, Zenon
    <3> QED
      BY <1>1, <1>2, <2>1, <2>2, <3>1, ExtendsAhead, Zenon
  <2>4. s.previous <= s.last[s.coin] /\ \A h \in Hours : <<s.coin, h>> \in Stored => h <= s.previous
    BY <1>1, <1>11, <2>1, Zenon DEF Scheduled
  <2>5. s.last[s.coin] <= t.last[s.coin]
    BY <1>4, ZenonT(30) DEF Extends
  <2>6. s.previous \in Nat /\ s.last[s.coin] \in Nat /\ t.last[s.coin] \in Nat
    <3>1. t \in RunStates
      BY <1>4, Zenon DEF Extends
    <3> QED
      BY <1>1, <1>2, <3>1 DEF RunStates
  <2>7. s.previous <= t.last[s.coin]
    BY <2>4, <2>5, <2>6
  <2> QED
    BY <2>1, <2>3, <2>4, <2>7
<1> QED
  BY <1>4, <1>8, <1>9, <1>10, <1>11, Zenon DEF TookOver, kept

\* Run state u leaves the coin of t with what t has.
LeavesWith(t, u) ==
    /\ t \in RunStates /\ u \in RunStates /\ u.pc \in {"coins", "flush", "finish"}
    /\ u.fresh = t.fresh /\ u.window = t.window /\ u.left = t.left /\ u.last = t.last
    /\ u.known = t.known /\ u.pending = t.pending

\* What run r has so far fits the table.
InHand(r, t, rows, f, l) ==
    /\ Cursors(t, f)
    /\ Repair(r) => InArea(t, rows)
    /\ ~ Repair(r) => t.known = {} /\ (t.fresh => Ahead(t, rows, f, l))

\* A run that leaves the coin it asks for keeps what it took.
LEMMA Leaving ==
    ASSUME NEW r \in Runs, NEW t, NEW u, NEW rows, NEW f, NEW l,
           LeavesWith(t, u), InHand(r, t, rows, f, l),
           Repair(r) => OnTheWay(u, f)
    PROVE  RunSound(r, u, rows, f, l)
<1>1. Cursors(u, f)
  BY Zenon DEF Cursors, LeavesWith, InHand
<1>2. Repair(r) => InArea(u, rows)
  BY Zenon DEF InArea, LeavesWith, InHand
<1>3. ~ Repair(r) => Scheduled(u, rows, f, l)
  BY DEF Scheduled, Ahead, LeavesWith, InHand
<1>4. u.pc \in {"coins", "flush", "finish"}
  BY DEF LeavesWith
<1> QED
  BY <1>1, <1>2, <1>3, <1>4, Zenon DEF RunSound, Maintaining

\* The coin's failure is its gap.
LEMMA EntityFailsStep ==
    ASSUME IInv, NEW r \in Runs, EntityFails(r)
    PROVE  IInv'
<1> DEFINE s == run[r]
           u == [CoinDone(s) EXCEPT !.gap = TRUE]
<1>1. /\ s \in RunStates /\ s.pc = "asking" /\ Cursors(s, feed)
      /\ Repair(r) => InArea(s, Stored) /\ OnTheWay(s, feed)
      /\ ~ Repair(r) => s.known = {} /\ (s.fresh => Ahead(s, Stored, feed, late))
  BY Asking DEF EntityFails, Scheduled
<1>2. /\ u \in RunStates /\ u.pc \in {"coins", "flush", "finish"}
      /\ u.fresh = s.fresh /\ u.window = s.window /\ u.left = s.left /\ u.last = s.last
      /\ u.known = s.known /\ u.pending = s.pending /\ u.gap = TRUE /\ u.due = s.due
      /\ u.pc # "finish"
  <2>1. 0 \in 0..MaxHour
    BY RunAssumption
  <2> QED
    BY <1>1, <2>1, Zenon DEF CoinDone, RunStates, Active
<1>3. Set(r, u)
  BY DEF EntityFails
<1> HIDE DEF u
<1>4. Repair(r) => OnTheWay(u, feed)
  BY <1>1, <1>2, Zenon DEF OnTheWay
<1>5. LeavesWith(s, u) /\ InHand(r, s, Stored, feed, late)
  BY <1>1, <1>2, Zenon DEF LeavesWith, InHand
<1>6. RunSound(r, u, Stored, feed, late)
  BY <1>4, <1>5, Leaving
<1> QED
  BY <1>2, <1>3, <1>6, SetStep DEF EntityFails

\* A run that is cut short says so.
LEMMA BudgetEndsStep ==
    ASSUME IInv, NEW r \in Runs, BudgetEnds(r)
    PROVE  IInv'
<1> DEFINE s == run[r]
           u == [s EXCEPT !.pc = "finish", !.cut = TRUE]
<1>1. /\ s \in RunStates /\ s.pc = "asking" /\ Cursors(s, feed)
      /\ Repair(r) => InArea(s, Stored) /\ OnTheWay(s, feed)
      /\ ~ Repair(r) => s.known = {} /\ (s.fresh => Ahead(s, Stored, feed, late))
  BY Asking DEF BudgetEnds, Scheduled
<1>2. /\ u \in RunStates /\ u.pc \in {"coins", "flush", "finish"}
      /\ u.fresh = s.fresh /\ u.window = s.window /\ u.left = s.left /\ u.last = s.last
      /\ u.known = s.known /\ u.pending = s.pending /\ u.cut = TRUE /\ u.due = s.due
  BY <1>1, Zenon DEF RunStates, Active
<1>3. Set(r, u)
  BY ZenonT(30) DEF BudgetEnds
<1> HIDE DEF u
<1>4. Repair(r) => OnTheWay(u, feed)
  BY <1>1, <1>2 DEF OnTheWay
<1>5. LeavesWith(s, u) /\ InHand(r, s, Stored, feed, late)
  BY <1>1, <1>2, Zenon DEF LeavesWith, InHand
<1>6. RunSound(r, u, Stored, feed, late)
  BY <1>4, <1>5, Leaving
<1> QED
  BY <1>2, <1>3, <1>6, SetStep DEF BudgetEnds

\* A run that fails, perhaps within a page, says so.
LEMMA AskFailsStep ==
    ASSUME IInv, NEW r \in Runs, AskFails(r)
    PROVE  IInv'
<1>1. PICK s : s = run[r]
  OBVIOUS
<1>2. PICK asked : asked = Asked(r, s.coin, s.start)
  OBVIOUS
<1>3. /\ s \in RunStates /\ s.pc = "asking" /\ s.coin \in Coins
      /\ Repair(r) => InArea(s, Stored) /\ OnTheWay(s, feed)
  BY <1>1, Asking, Zenon DEF AskFails
<1>4. /\ MaxHour \in Nat /\ Page \in Nat /\ asked \in SUBSET (1..MaxHour)
      /\ Answered(r, s.coin, s.start) = First(asked, Page)
  BY <1>2, <1>3, AskedHours
<1>5. PICK n \in 0..Page :
         Set(r, [Taken(r, s, First(First(asked, Page), n)) EXCEPT !.pc = "finish", !.failed = TRUE])
  BY <1>1, <1>4, Zenon DEF AskFails, First
<1>6. First(First(asked, Page), n) = First(asked, n) /\ n \in Nat
  <2>1. n \in Nat
    BY <1>4
  <2>2. First(First(asked, Page), n) = First(asked, n)
    BY <1>4, FirstOfFirst, Zenon
  <2> QED
    BY <2>1, <2>2
<1>7. PICK t : t = Taken(r, s, First(asked, n))
  BY Zenon
<1>8. TookOver(r, s, First(asked, n), t)
  BY <1>1, <1>2, <1>3, <1>6, <1>7, TakenFirst, Zenon
<1>9. /\ t \in RunStates /\ Cursors(t, feed) /\ t.due = s.due /\ t.window = s.window
      /\ Repair(r) => InArea(t, Stored) /\ t.last = s.last
      /\ ~ Repair(r) => t.known = {} /\ (t.fresh => Ahead(t, Stored, feed, late))
  BY <1>8, Zenon DEF TookOver, Extends, Moved
<1> DEFINE u == [t EXCEPT !.pc = "finish", !.failed = TRUE]
<1>10. /\ u \in RunStates /\ u.pc = "finish"
       /\ u.fresh = t.fresh /\ u.window = t.window /\ u.left = t.left /\ u.last = t.last
       /\ u.known = t.known /\ u.pending = t.pending /\ u.failed = TRUE /\ u.due = t.due
  BY <1>9, Zenon DEF RunStates, Active
<1>11. Set(r, u)
  BY <1>5, <1>6, <1>7, Zenon
<1> HIDE DEF u
<1>12. Repair(r) => OnTheWay(u, feed)
  BY <1>3, <1>9, <1>10, Zenon DEF OnTheWay
<1>13. LeavesWith(t, u) /\ InHand(r, t, Stored, feed, late)
  BY <1>9, <1>10, Zenon DEF LeavesWith, InHand
<1>14. RunSound(r, u, Stored, feed, late)
  BY <1>12, <1>13, Leaving, Zenon
<1> QED
  BY <1>10, <1>11, <1>14, SetStep DEF AskFails

\* Whether the page that was asked for ends its coin.
Ends(r, s, hours, next) ==
    Cardinality(hours) < Page \/ (Repair(r) /\ next > s.window[2])

\* Of what a repair was asked for of a coin, the page holds an hour from its
\* start on, or it is full and the hour lies after it, so the repair asks on.
LEMMA InHandOrAhead ==
    ASSUME NEW r \in Runs, Repair(r), NEW s \in RunStates, s.pc = "asking", s.start \in Nat,
           NEW rows, InArea(s, rows), OnTheWay(s, feed), s.coin \in Coins,
           NEW h \in Hours, <<s.coin, h>> \in s.due, h >= s.start,
           NEW asked \in SUBSET (1..MaxHour), s = run[r], asked = Asked(r, s.coin, s.start),
           NEW hours, hours = First(asked, Page),
           NEW next, next = Max(hours \cup {s.start}) + 1
    PROVE  h \in {g \in hours : Kept(r, g, s.previous)} \/ (~ Ends(r, s, hours, next) /\ h >= next)
<1>1. MaxHour \in Nat /\ Page \in Nat \ {0} /\ hours \subseteq asked /\ hours \in SUBSET (1..MaxHour)
  BY RunAssumption, Zenon DEF First
<1>2. h \in feed[s.coin] /\ h <= s.last[s.coin] /\ s.previous = s.last[s.coin]
  BY Zenon DEF OnTheWay, InArea
<1>3. s.window[2] \in Nat /\ h <= s.window[2] /\ h \in Nat
  <2>1. s.window \in Windows /\ h \in Within(s.window)
    BY Zenon DEF InArea, OnTheWay, Area
  <2>2. s.window[1] \in Nat /\ s.window[2] \in Nat
    BY <2>1, RunAssumption DEF Hours
  <2> QED
    BY <2>1, <2>2 DEF Within, Hours
<1>4. h \in asked
  BY <1>2, <1>3, Zenon DEF Asked
<1>5. CASE h \in hours
  BY <1>2, <1>5, Zenon DEF Kept
<1>6. CASE h \notin hours
  <2>1. Cardinality(hours) >= Page /\ (\A g \in hours : g < h) /\ (\E g \in asked : g < h)
    BY <1>1, <1>4, <1>6, FirstFull, ZenonT(30)
  <2>2. s.start < h
    <3>1. PICK g \in asked : g < h
      BY <2>1
    <3>2. g >= s.start /\ g \in Nat
      BY DEF Asked
    <3> QED
      BY <1>3, <3>1, <3>2
  <2>3. next \in Nat /\ next - 1 \in hours \cup {s.start}
    <3>1. PICK m : m = Max(hours \cup {s.start})
      OBVIOUS
    <3>2. m \in hours \cup {s.start} /\ m \in Nat
      BY <1>1, <3>1, NextPage, Zenon
    <3>3. next = m + 1
      BY <3>1, Zenon
    <3>4. next \in Nat /\ next - 1 = m
      BY <3>2, <3>3
    <3> QED
      BY <3>2, <3>4, Zenon
  <2>4. next - 1 < h
    BY <2>1, <2>2, <2>3, Zenon
  <2>5. next <= h
    BY <1>3, <2>3, <2>4
  <2>6. ~ (Cardinality(hours) < Page)
    <3>1. IsFiniteSet(1..MaxHour)
      <4>1. MaxHour \in Int /\ 1 \in Int
        BY <1>1
      <4> QED
        BY <4>1, FS_Interval, Zenon
    <3>2. IsFiniteSet(hours)
      BY <1>1, <3>1, FS_Subset, Zenon
    <3> QED
      BY <1>1, <2>1, <3>2, FS_CardinalityType
  <2>7. ~ (next > s.window[2])
    BY <1>3, <2>3, <2>5
  <2> QED
    BY <1>3, <2>3, <2>5, <2>6, <2>7, Zenon DEF Ends
<1> QED
  BY <1>5, <1>6, Zenon

\* One page: the run leaves its coin, with all it was asked for of it in hand,
\* or asks for the next one.
LEMMA AskStep ==
    ASSUME IInv, NEW r \in Runs, Ask(r)
    PROVE  IInv'
<1>1. PICK s : s = run[r]
  OBVIOUS
<1>2. PICK asked : asked = Asked(r, s.coin, s.start)
  OBVIOUS
<1>3. /\ s \in RunStates /\ s.pc = "asking" /\ s.coin \in Coins /\ s.start \in Nat
      /\ Repair(r) => InArea(s, Stored) /\ OnTheWay(s, feed)
  BY <1>1, Asking DEF Ask
<1>4. PICK hours : hours = First(asked, Page)
  BY Zenon
<1>5. /\ MaxHour \in Nat /\ Page \in Nat \ {0} /\ asked \in SUBSET (1..MaxHour)
      /\ Answered(r, s.coin, s.start) = hours
  BY <1>2, <1>3, <1>4, AskedHours, Zenon
<1>6. PICK t : t = Taken(r, s, hours)
  OBVIOUS
<1>7. PICK next : next = Max(hours \cup {s.start}) + 1
  OBVIOUS
<1>8. Set(r, IF Ends(r, s, hours, next) THEN CoinDone(t) ELSE [t EXCEPT !.start = next])
  BY <1>1, <1>5, <1>6, <1>7, Zenon DEF Ask, Ends
<1>9. TookOver(r, s, hours, t)
  BY <1>1, <1>2, <1>3, <1>4, <1>5, <1>6, TakenFirst, Zenon
<1>10. /\ t \in RunStates /\ Cursors(t, feed)
       /\ Repair(r) => InArea(t, Stored) /\ t.last = s.last
       /\ ~ Repair(r) => t.known = {} /\ (t.fresh => Ahead(t, Stored, feed, late))
  BY <1>9, Zenon DEF TookOver, Extends, Moved
<1>11. /\ t.window = s.window /\ t.left = s.left /\ t.known = s.known /\ t.coin = s.coin
       /\ t.failed = s.failed /\ t.gap = s.gap /\ t.cut = s.cut /\ t.due = s.due
       /\ s.pending \subseteq t.pending
       /\ \A h \in {g \in hours : Kept(r, g, s.previous)} : <<s.coin, h>> \in t.pending
  BY <1>9, Zenon DEF TookOver, Extends, Moved
<1>12. ASSUME Repair(r), NEW h \in Hours, <<s.coin, h>> \in s.due, h >= s.start
       PROVE  <<s.coin, h>> \in t.pending \/ (~ Ends(r, s, hours, next) /\ h >= next)
  <2>1. h \in {g \in hours : Kept(r, g, s.previous)} \/ (~ Ends(r, s, hours, next) /\ h >= next)
    BY <1>1, <1>2, <1>3, <1>4, <1>5, <1>7, <1>12, InHandOrAhead, Zenon
  <2> QED
    BY <1>11, <2>1, Zenon
<1>13. CASE Ends(r, s, hours, next)
  <2> DEFINE u == CoinDone(t)
  <2>1. /\ u \in RunStates /\ u.pc \in {"coins", "flush", "finish"} /\ u.pc # "finish"
        /\ u.fresh = t.fresh /\ u.window = t.window /\ u.left = t.left /\ u.last = t.last
        /\ u.known = t.known /\ u.pending = t.pending /\ u.gap = t.gap /\ u.due = t.due
        /\ u.cut = t.cut /\ u.failed = t.failed
    <3>1. 0 \in 0..MaxHour
      BY <1>5
    <3> QED
      BY <1>10, <3>1, Zenon DEF CoinDone, RunStates, Active
  <2>2. Set(r, u)
    BY <1>8, <1>13, Zenon
  <2> HIDE DEF u
  <2>3. ASSUME Repair(r) PROVE OnTheWay(u, feed)
    <3>1. OnTheWay(s, feed) /\ t.last = s.last
      BY <1>3, <1>10, <2>3, Zenon
    <3>2. \A h \in Hours : <<s.coin, h>> \in s.due /\ h >= s.start => <<s.coin, h>> \in t.pending
      BY <1>12, <1>13, <2>3
    <3> QED
      BY <1>11, <2>1, <3>1, <3>2, Zenon DEF OnTheWay
  <2>4. LeavesWith(t, u) /\ InHand(r, t, Stored, feed, late)
    BY <1>10, <2>1, Zenon DEF LeavesWith, InHand
  <2>5. RunSound(r, u, Stored, feed, late)
    BY <2>3, <2>4, Leaving
  <2> QED
    BY <2>1, <2>2, <2>5, SetStep, Zenon DEF Ask
<1>14. CASE ~ Ends(r, s, hours, next)
  <2> DEFINE u == [t EXCEPT !.start = next]
  <2>1. hours \in SUBSET (1..MaxHour)
    BY <1>4, <1>5, Zenon DEF First
  <2>2. next \in Nat /\ next > s.start
    <3>1. PICK m : m = Max(hours \cup {s.start})
      OBVIOUS
    <3>2. m \in Nat /\ s.start <= m
      BY <1>3, <1>5, <2>1, <3>1, NextPage, Zenon
    <3>3. next = m + 1
      BY <1>7, <3>1
    <3> QED
      BY <1>3, <3>2, <3>3
  <2>3. /\ u \in RunStates /\ u.pc = "asking" /\ u.start = next
        /\ u.fresh = t.fresh /\ u.window = t.window /\ u.left = t.left /\ u.last = t.last
        /\ u.known = t.known /\ u.pending = t.pending /\ u.gap = t.gap /\ u.due = t.due
        /\ u.cut = t.cut /\ u.failed = t.failed /\ u.coin = t.coin /\ u.previous = t.previous
    <3>1. t.pc = "asking"
      BY <1>9, Zenon DEF TookOver, Extends, Moved
    <3> QED
      BY <1>10, <2>2, <3>1, Zenon DEF RunStates
  <2>4. Set(r, u)
    BY <1>8, <1>14, Zenon
  <2> HIDE DEF u
  <2>5. Cursors(u, feed)
    BY <1>3, <1>10, <1>11, <2>3, Zenon DEF Cursors
  <2>6. ASSUME Repair(r) PROVE InArea(u, Stored)
    <3>1. s.start >= s.window[1] /\ s.window \in Windows
      BY <1>3, <2>6, Zenon DEF InArea
    <3>2. s.window[1] \in Nat
      BY <3>1, RunAssumption DEF Hours
    <3>3. next >= s.window[1]
      BY <1>3, <2>2, <3>1, <3>2
    <3>4. t.pc = "asking" /\ InArea(t, Stored) /\ t.window = s.window
      BY <1>9, <2>6, Zenon DEF TookOver, Extends, Moved
    <3>5. u.start >= u.window[1]
      BY <2>3, <3>3, <3>4, Zenon
    <3> QED
      BY <2>3, <3>4, <3>5, Zenon DEF InArea
  <2>7. ASSUME Repair(r) PROVE OnTheWay(u, feed)
    <3>1. OnTheWay(s, feed) /\ t.last = s.last
      BY <1>3, <1>10, <2>7
    <3>2. \A h \in Hours : <<s.coin, h>> \in s.due /\ h >= s.start => <<s.coin, h>> \in t.pending \/ h >= next
      BY <1>12, <2>7, Zenon
    <3> QED
      BY <1>3, <1>11, <2>3, <3>1, <3>2, Zenon DEF OnTheWay
  <2>8. ASSUME ~ Repair(r) PROVE Scheduled(u, Stored, feed, late)
    <3>1. hours # {}
      BY <1>5, <1>14, FS_EmptySet DEF Ends
    <3>2. t.start = s.start
      BY <1>9, ZenonT(30) DEF TookOver, Extends, Moved
    <3>3. t.fresh => /\ u.start = u.last[u.coin] + 1
                     /\ u.previous <= u.last[u.coin]
                     /\ \A h \in Hours : <<u.coin, h>> \in Stored => h <= u.previous
      BY <1>7, <1>9, <2>3, <2>8, <3>1, <3>2, SMTT(30) DEF TookOver, Moved
    <3>4. t.fresh => Ahead(u, Stored, feed, late)
      BY <1>10, <2>3, <2>8 DEF Ahead
    <3> QED
      BY <1>10, <2>3, <2>8, <3>3, <3>4, Zenon DEF Scheduled
  <2>9. RunSound(r, u, Stored, feed, late)
    BY <2>3, <2>5, <2>6, <2>7, <2>8 DEF RunSound, Maintaining
  <2> QED
    BY <2>3, <2>4, <2>9, SetStep DEF Ask
<1> QED
  BY <1>13, <1>14

-----------------------------------------------------------------------------
(* The end of a run, maintenance and the environment.                      *)

\* A run ends, or goes from one maintenance commit to the next.
LEMMA MaintenanceSound ==
    ASSUME IInv, NEW r \in Runs, run[r].pc \in Maintaining, NEW pc \in Maintaining
    PROVE  LET u == [run[r] EXCEPT !.pc = pc] IN
           u \in RunStates /\ RunSound(r, u, Stored, feed, late)
<1> DEFINE u == [run[r] EXCEPT !.pc = pc]
<1>1. run[r] \in RunStates /\ RunSound(r, run[r], Stored, feed, late)
  BY DEF IInv, TypeOK
<1>2. u \in RunStates /\ u.pc = pc /\ u.cut = run[r].cut /\ u.due = run[r].due
  BY <1>1 DEF RunStates
<1>3. RunSound(r, u, Stored, feed, late)
  BY <1>1, <1>2 DEF RunSound, Maintaining, Active
<1> QED
  BY <1>2, <1>3

\* A maintenance commit writes the rows it found.
LEMMA MaintainStep ==
    ASSUME IInv, NEW r \in Runs, Maintain(r)
    PROVE  IInv'
<1>1. table \in Tables /\ Sound(table, feed, late) /\ table.rows = Stored
  BY DEF IInv, TypeOK, Stored
<1>2. ASSUME NEW u \in RunStates, RunSound(r, u, Stored, feed, late), Commit(r, table, u)
      PROVE  IInv'
  BY <1>1, <1>2, CommitStep DEF Maintain
<1>3. CASE run[r].pc = "optimize" /\ Commit(r, table, [run[r] EXCEPT !.pc = "vacuum"])
  <2>1. [run[r] EXCEPT !.pc = "vacuum"] \in RunStates /\ RunSound(r, [run[r] EXCEPT !.pc = "vacuum"], Stored, feed, late)
    BY <1>3, MaintenanceSound, Zenon DEF Maintaining
  <2> QED
    BY <1>2, <1>3, <2>1
<1>4. CASE run[r].pc = "vacuum" /\ Commit(r, table, [run[r] EXCEPT !.pc = "vacuum_end"])
  <2>1. [run[r] EXCEPT !.pc = "vacuum_end"] \in RunStates /\ RunSound(r, [run[r] EXCEPT !.pc = "vacuum_end"], Stored, feed, late)
    BY <1>4, MaintenanceSound, Zenon DEF Maintaining
  <2> QED
    BY <1>2, <1>4, <2>1
<1>5. CASE run[r].pc = "vacuum_end" /\ Commit(r, table, Idle)
  BY <1>2, <1>5, IdleSound
<1> QED
  BY <1>3, <1>4, <1>5 DEF Maintain

\* The other steps of a run in its maintenance, and its end.
LEMMA EndStep ==
    ASSUME IInv, NEW r \in Runs, NoOptimize(r) \/ End(r) \/ Killed(r)
    PROVE  IInv'
<1>1. CASE NoOptimize(r)
  <2>1. [run[r] EXCEPT !.pc = "vacuum"] \in RunStates /\ RunSound(r, [run[r] EXCEPT !.pc = "vacuum"], Stored, feed, late)
    BY <1>1, MaintenanceSound, Zenon DEF Maintaining, NoOptimize
  <2> QED
    BY <1>1, <2>1, SetStep DEF NoOptimize
<1>2. CASE End(r) \/ Killed(r)
  BY <1>2, IdleSound, SetStep DEF End, Killed
<1> QED
  BY <1>1, <1>2

\* /info has more hours: one that lies behind another is late.
More(f, l, f2, l2) ==
    \A c \in Coins :
        /\ f[c] \subseteq Nat \ {0} /\ f2[c] \subseteq Nat \ {0}
        /\ f[c] \subseteq f2[c] /\ l[c] \subseteq l2[c]
        /\ \A h \in f2[c] \ f[c], g \in f[c] : h < g => h \in l2[c]

\* None of them is an hour a table has, and one behind its rows is late.
LEMMA MoreForTable ==
    ASSUME NEW f, NEW l, NEW f2, NEW l2, More(f, l, f2, l2), NEW t, Sound(t, f, l)
    PROVE  Sound(t, f2, l2)
<1>1. Supplied(t.rows, f2)
  BY DEF Sound, Supplied, More
<1>2. NoGaps(t.rows, f2, l2)
  <2> SUFFICES ASSUME NEW c \in Coins, NEW h \in f2[c], NEW g \in Hours, g > h, <<c, g>> \in t.rows
               PROVE  <<c, h>> \in t.rows \/ h \in l2[c]
    BY DEF NoGaps
  <2>1. CASE h \in f[c]
    BY <2>1 DEF Sound, NoGaps, More
  <2>2. CASE h \notin f[c]
    <3>1. g \in f[c]
      BY DEF Sound, Supplied
    <3>2. h \in Nat /\ g \in Nat
      BY <3>1 DEF More
    <3>3. h < g
      BY <3>2
    <3> QED
      BY <2>2, <3>1, <3>3 DEF More
  <2> QED
    BY <2>1, <2>2
<1> QED
  BY <1>1, <1>2 DEF Sound

\* None of them is a run's cursor, and one behind a cursor is late.
LEMMA MoreForRun ==
    ASSUME NEW f, NEW l, NEW f2, NEW l2, More(f, l, f2, l2),
           NEW r \in Runs, NEW s \in RunStates, NEW rows, RunSound(r, s, rows, f, l)
    PROVE  RunSound(r, s, rows, f2, l2)
<1>1. Cursors(s, f) => Cursors(s, f2)
  BY DEF Cursors, Supplied, More
<1>2. OnTheWay(s, f) => OnTheWay(s, f2)
  BY SMTT(30) DEF OnTheWay, More
<1>3. ASSUME Cursors(s, f), Ahead(s, rows, f, l) PROVE Ahead(s, rows, f2, l2)
  <2> SUFFICES ASSUME NEW c \in Coins, NEW h \in f2[c], h <= s.last[c]
               PROVE  <<c, h>> \in rows \cup s.pending \/ h \in l2[c]
    BY <1>3 DEF Ahead
  <2>1. CASE h \in f[c]
    BY <1>3, <2>1 DEF Ahead, More
  <2>2. CASE h \notin f[c]
    <3>1. h \in Nat /\ h # 0 /\ s.last[c] \in Nat
      BY RunAssumption DEF More, RunStates
    <3>2. s.last[c] # 0
      BY <3>1, SMTT(30)
    <3>3. s.last[c] \in f[c]
      BY <1>3, <3>2 DEF Cursors
    <3>4. h < s.last[c]
      BY <2>2, <3>1, <3>3, SMTT(30)
    <3> QED
      BY <2>2, <3>3, <3>4 DEF More
  <2> QED
    BY <2>1, <2>2
<1>4. Cursors(s, f) /\ Scheduled(s, rows, f, l) => Scheduled(s, rows, f2, l2)
  BY <1>3 DEF Scheduled
<1> QED
  BY <1>1, <1>2, <1>4 DEF RunSound

\* More hours leave the invariant alone.
LEMMA MoreHours ==
    ASSUME IInv, TypeOK', UNCHANGED <<table, puts, run>>, More(feed, late, feed', late')
    PROVE  IInv'
<1>1. Sound(table, feed, late)'
  BY MoreForTable DEF IInv
<1>2. PutsSound'
  BY MoreForTable DEF IInv, PutsSound, Stored
<1>3. \A r \in Runs : RunSound(r, run[r], Stored, feed', late')
  BY MoreForRun DEF IInv, TypeOK
<1> QED
  BY <1>1, <1>2, <1>3 DEF IInv, Stored

\* An hour passes.
LEMMA TickStep ==
    ASSUME IInv, Tick
    PROVE  IInv'
<1>1. /\ now \in Hours /\ feed \in [Coins -> SUBSET (1..now)] /\ now' = now + 1 /\ now < MaxHour
      /\ MaxHour \in Nat
  BY RunAssumption DEF IInv, TypeOK, Tick
<1>2. PICK some \in SUBSET Irregular :
         feed' = [c \in Coins |-> IF c \in some THEN feed[c] ELSE feed[c] \cup {now'}]
  BY SMTT(30) DEF Tick
<1>3. now' \in Hours /\ now' \in Nat
  BY <1>1 DEF Hours
<1>4. \A c \in Coins : feed[c] \subseteq feed'[c] /\ feed'[c] \subseteq feed[c] \cup {now'}
  BY <1>2
<1>5. \A c \in Coins : feed[c] \subseteq 1..now /\ feed'[c] \subseteq 1..now'
  <2> SUFFICES ASSUME NEW c \in Coins PROVE feed[c] \subseteq 1..now /\ feed'[c] \subseteq 1..now'
    OBVIOUS
  <2>1. feed[c] \subseteq 1..now
    BY <1>1
  <2>2. 1..now \subseteq 1..now' /\ now' \in 1..now'
    BY <1>1, <1>3 DEF Hours
  <2> QED
    BY <1>4, <2>1, <2>2
<1>6. TypeOK'
  <2>1. feed' \in [Coins -> SUBSET (1..now')]
    <3>1. DOMAIN feed' = Coins /\ feed' = [c \in Coins |-> feed'[c]]
      BY <1>2
    <3> QED
      BY <1>5, <3>1
  <2> QED
    BY <1>3, <2>1 DEF IInv, TypeOK, Tick
<1>7. \A c \in Coins : \A h \in feed'[c] \ feed[c], g \in feed[c] : ~ (h < g)
  <2> SUFFICES ASSUME NEW c \in Coins, NEW h \in feed'[c] \ feed[c], NEW g \in feed[c], h < g
               PROVE  FALSE
    OBVIOUS
  <2>1. h = now' /\ g \in 1..now
    BY <1>4, <1>5
  <2> QED
    BY <1>1, <2>1 DEF Hours
<1>8. More(feed, late, feed', late')
  <2>1. \A c \in Coins : feed[c] \subseteq Nat \ {0} /\ feed'[c] \subseteq Nat \ {0}
    BY <1>5
  <2>2. late' = late
    BY DEF Tick
  <2> QED
    BY <1>4, <1>7, <2>1, <2>2 DEF More
<1> QED
  BY <1>6, <1>8, MoreHours DEF Tick

\* /info supplies an hour it withheld.
LEMMA PublishStep ==
    ASSUME IInv, NEW c \in Coins, NEW h \in Hours, Publish(c, h)
    PROVE  IInv'
<1>1. /\ now \in Hours /\ feed \in [Coins -> SUBSET (1..now)] /\ late \in [Coins -> SUBSET Hours]
      /\ h \in 1..now /\ MaxHour \in Nat
  BY RunAssumption DEF IInv, TypeOK, Publish, Hours
<1>2. /\ feed' = [feed EXCEPT ![c] = @ \cup {h}]
      /\ late' = [late EXCEPT ![c] = IF \E g \in feed[c] : g > h THEN @ \cup {h} ELSE @]
  BY DEF Publish
<1>3. feed' \in [Coins -> SUBSET (1..now)] /\ late' \in [Coins -> SUBSET Hours]
  BY <1>1, <1>2
<1>4. TypeOK'
  BY <1>3 DEF IInv, TypeOK, Publish
<1>5. \A o \in Coins : feed[o] \subseteq feed'[o] /\ late[o] \subseteq late'[o]
  BY <1>1, <1>2
<1>6. \A o \in Coins : \A x \in feed'[o] \ feed[o], g \in feed[o] : x < g => x \in late'[o]
  <2> SUFFICES ASSUME NEW o \in Coins, NEW x \in feed'[o] \ feed[o], NEW g \in feed[o], x < g
               PROVE  x \in late'[o]
    OBVIOUS
  <2>1. o = c /\ x = h
    BY <1>1, <1>2
  <2>2. g \in 1..now
    BY <1>1
  <2>3. \E y \in feed[c] : y > h
    BY <1>1, <2>1, <2>2
  <2>4. late'[c] = late[c] \cup {h}
    BY <1>1, <1>2, <2>3
  <2> QED
    BY <2>1, <2>4
<1>7. More(feed, late, feed', late')
  <2>1. \A o \in Coins : feed[o] \subseteq 1..now /\ feed'[o] \subseteq 1..now
    BY <1>1, <1>3
  <2>2. \A o \in Coins : feed[o] \subseteq Nat \ {0} /\ feed'[o] \subseteq Nat \ {0}
    BY <2>1
  <2> QED
    BY <1>5, <1>6, <2>2 DEF More
<1> QED
  BY <1>4, <1>7, MoreHours DEF Publish

\* A commit whose answer was lost lands, or never does.
LEMMA LandsStep ==
    ASSUME IInv, NEW t \in puts, Lands(t) \/ Lost(t)
    PROVE  IInv'
<1>1. t \in Tables /\ Sound(t, feed, late) /\ Stored \subseteq t.rows
  BY DEF IInv, TypeOK, PutsSound
<1>2. CASE Lands(t)
  <2>1. table' = t /\ puts' = {} /\ Stored' = t.rows /\ UNCHANGED <<now, feed, late>>
    BY <1>2 DEF Lands, Stored
  <2>2. \A o \in Runs : run'[o] \in RunStates /\ RunSound(o, run'[o], t.rows, feed, late)
    <3> SUFFICES ASSUME NEW o \in Runs
                 PROVE  run'[o] \in RunStates /\ RunSound(o, run'[o], t.rows, feed, late)
      OBVIOUS
    <3>1. run'[o] = [run[o] EXCEPT !.fresh = FALSE]
      BY <1>2 DEF Lands
    <3>2. run[o] \in RunStates /\ RunSound(o, run[o], Stored, feed, late)
      BY DEF IInv, TypeOK
    <3> QED
      BY <1>1, <3>1, <3>2, Behind
  <2>3. TypeOK'
    BY <1>1, <1>2, <2>1, <2>2, Zenon DEF IInv, TypeOK, Lands
  <2>4. Sound(table, feed, late)' /\ PutsSound'
    BY <1>1, <2>1 DEF PutsSound
  <2>5. \A o \in Runs : RunSound(o, run[o], Stored, feed, late)'
    BY <2>1, <2>2
  <2> QED
    BY <2>3, <2>4, <2>5 DEF IInv
<1>3. CASE Lost(t)
  <2>1. TypeOK' /\ Sound(table, feed, late)' /\ PutsSound'
    BY <1>3 DEF IInv, TypeOK, Lost, PutsSound, Stored
  <2>2. \A o \in Runs : RunSound(o, run[o], Stored, feed, late)'
    BY <1>3 DEF IInv, Lost, Stored
  <2> QED
    BY <2>1, <2>2, SMTT(30) DEF IInv
<1> QED
  BY <1>2, <1>3, SMTT(30)

-----------------------------------------------------------------------------
\* The invariant holds in every reachable state of the job.
THEOREM Invariance == Spec => []IInv
<1>1. Init => IInv
  <2> SUFFICES ASSUME Init PROVE IInv
    OBVIOUS
  <2>1. TypeOK
    <3>1. \A r \in Runs : Idle \in RunStates
      BY IdleSound
    <3>2. table \in Tables
      BY DEF Init, Tables
    <3> QED
      BY <3>1, <3>2, RunAssumption DEF Init, TypeOK
  <2>2. Sound(table, feed, late) /\ PutsSound
    BY DEF Init, Sound, Supplied, NoGaps, PutsSound
  <2>3. \A r \in Runs : RunSound(r, run[r], Stored, feed, late)
    BY IdleSound, Zenon DEF Init
  <2> QED
    BY <2>1, <2>2, <2>3 DEF IInv
<1>2. IInv /\ [Next]_vars => IInv'
  <2> SUFFICES ASSUME IInv, [Next]_vars PROVE IInv'
    OBVIOUS
  <2>1. ASSUME NEW r \in Runs, Working(r) PROVE IInv'
    BY <2>1, StartStep, AskStep, FlushStep, FinishStep, MaintainStep, EndStep, SkipStep, BeginStep
       DEF Working
  <2>2. ASSUME NEW r \in Runs, EntityFails(r) \/ BudgetEnds(r) \/ AskFails(r) \/ Killed(r) PROVE IInv'
    BY <2>2, EntityFailsStep, BudgetEndsStep, AskFailsStep, EndStep
  <2>3. CASE Tick
    BY <2>3, TickStep
  <2>4. ASSUME NEW c \in Coins, NEW h \in Hours, Publish(c, h) PROVE IInv'
    BY <2>4, PublishStep
  <2>5. ASSUME NEW t \in puts, Lands(t) \/ Lost(t) PROVE IInv'
    BY <2>5, LandsStep
  <2>6. CASE UNCHANGED vars
    <3>1. TypeOK' /\ Sound(table, feed, late)' /\ PutsSound'
      BY <2>6 DEF vars, IInv, TypeOK, PutsSound, Stored
    <3>2. \A r \in Runs : RunSound(r, run[r], Stored, feed, late)'
      BY <2>6 DEF vars, IInv, Stored
    <3> QED
      BY <3>1, <3>2, SMTT(30) DEF IInv
  <2> QED
    BY <2>1, <2>2, <2>3, <2>4, <2>5, <2>6 DEF Next
<1> QED
  BY <1>1, <1>2, PTL DEF Spec

\* Every hour of every coin is stored once: whatever runs, repairs and commits
\* of unknown outcome overlap (funding.rs, Store::append).
THEOREM HourStoredOnce == Spec => []HourOnce
<1>1. IInv => HourOnce
  BY SMTT(30) DEF IInv, Sound, HourOnce
<1> QED
  BY <1>1, Invariance, PTL

\* No coin has a gap behind its latest stored hour but for hours /info itself
\* supplied late: pages, budgets, failures, partial commits and repairs leave
\* none.
THEOREM NoGapBehindTheCursor == Spec => []GapsAreLate
<1>1. IInv => GapsAreLate
  <2> SUFFICES ASSUME IInv, NEW c \in Coins, NEW h \in feed[c], h < Latest(Stored, c)
               PROVE  <<c, h>> \in Stored \/ h \in late[c]
    BY DEF GapsAreLate
  <2>1. Stored \in SUBSET Rows /\ feed[c] \subseteq 1..now /\ now \in Hours /\ MaxHour \in Nat
    BY RunAssumption DEF IInv, TypeOK, Tables, Stored
  <2>2. /\ Latest(Stored, c) \in 0..MaxHour
        /\ Latest(Stored, c) = 0 \/ <<c, Latest(Stored, c)>> \in Stored
    BY <2>1, LatestHour
  <2>3. h \in Nat
    BY <2>1
  <2>4. Latest(Stored, c) \in Hours /\ Latest(Stored, c) > h
    BY <2>1, <2>2, <2>3 DEF Hours
  <2>5. <<c, Latest(Stored, c)>> \in Stored
    BY <2>2, <2>3, <2>4, SMTT(30)
  <2> QED
    BY <2>4, <2>5 DEF IInv, Sound, NoGaps, Stored
<1> QED
  BY <1>1, Invariance, PTL

\* A repair that goes on to its maintenance within its budget has stored all
\* it was asked for (check_outages, fetch_coin's paging).
THEOREM RepairsComplete == Spec => []RepairComplete
<1>1. IInv => RepairComplete
  BY RunAssumption DEF IInv, RunSound, RepairComplete, Repair
<1> QED
  BY <1>1, Invariance, PTL
=============================================================================
