--------------------------- MODULE FundingHistory ---------------------------
(***************************************************************************)
(* The funding job of the HyperLiquid reference tables                     *)
(* (reference/src/jobs/funding.rs) over its Delta table                    *)
(* (reference/src/store.rs, compact.rs, vacuum.rs).                        *)
(*                                                                         *)
(* Scheduled runs resume each coin after its latest stored hour; repairs   *)
(* re-read a window and append what is missing in it; either ends with the *)
(* commits of its maintenance.  Runs may overlap.  Each pins the version   *)
(* it opens and commits the next one with a single conditional PUT, whose  *)
(* answer can be lost and which can land late.                             *)
(*                                                                         *)
(* A version is free exactly when nothing was committed since the run's    *)
(* handle, so versions are kept as that fact, a run's `fresh'.  The table  *)
(* is its rows, a row a coin and an hour, and which of them it holds       *)
(* twice.  OPTIMIZE copies rows one to one and VACUUM deletes only files   *)
(* no version lists, so both are commits that change no row.               *)
(***************************************************************************)
EXTENDS Naturals, FiniteSets, FiniteSetsExt

CONSTANTS
    Coins,
    Delisted,     \* the coins asked once a day only
    Irregular,    \* the coins /info may supply an hour of late, or never
    MaxHour,      \* bound: the hours of the history
    Backlog,      \* the hours there are when the job first runs
    Page,         \* the most hours one fundingHistory answer holds
    CommitRows,   \* --commit-rows
    Runs,
    Repairs,      \* those with --funding-end and --coins; the others are scheduled
    Named,        \* the coins a repair names
    Windows,      \* the windows <<first, last>> a repair may be given to re-read
    MaxFaults     \* bound: failures, budget ends and repairs

Hours == 1..MaxHour

ASSUME RunAssumption ==
    /\ Repairs \subseteq Runs /\ Named \subseteq Coins /\ Delisted \cup Irregular \subseteq Coins
    /\ Windows \subseteq {w \in Hours \X Hours : w[1] <= w[2]}
    /\ Page \in Nat \ {0} /\ CommitRows \in Nat \ {0}
    /\ MaxHour \in Nat /\ Backlog \in Hours /\ MaxFaults \in Nat

VARIABLES
    now,     \* the hour of the wall clock
    feed,    \* feed[c]: the hours /info has for the coin
    late,    \* late[c]: those that appeared after a later hour
    table,   \* the latest version: its rows, and those in it twice
    puts,    \* the tables that commits of unknown outcome, in flight, write
    run,     \* the state of each run
    faults

vars == <<now, feed, late, table, puts, run, faults>>

-----------------------------------------------------------------------------
(* What the table holds and what a run keeps in memory.                    *)

Stored == table.rows

\* The table with one more file.
With(t, rows) == [rows |-> t.rows \cup rows, twice |-> t.twice \cup (t.rows \cap rows)]

HoursOf(rows, c) == {h \in Hours : <<c, h>> \in rows}

\* The latest stored hour of a coin, 0 for none.
Latest(rows, c) == Max(HoursOf(rows, c) \cup {0})

Repair(r) == r \in Repairs

NoWindow == <<0, 0>>

Within(window) == window[1]..window[2]

Idle ==
    [pc |-> "idle", fresh |-> FALSE, window |-> NoWindow, left |-> {},
     last |-> [c \in Coins |-> 0], known |-> {}, hour |-> 0, coin |-> CHOOSE c \in Coins : TRUE, start |-> 0, previous |-> 0,
     pending |-> {}, failed |-> FALSE, gap |-> FALSE, cut |-> FALSE, due |-> {}]

\* What a repair is asked for: the hours /info has when it starts, in the
\* window and not after the coin's latest stored hour.
Due(window) ==
    {row \in Named \X Within(window) :
        row[2] \in feed[row[1]] /\ row[2] <= Latest(Stored, row[1])}

\* A run that has opened the table, read it, and listed and sorted its coins.
Opened(r, window) ==
    [Idle EXCEPT !.pc = "coins",
                 !.fresh = TRUE,
                 !.window = window,
                 !.left = IF Repair(r) THEN Named ELSE Coins,
                 !.last = [c \in Coins |-> IF Repair(r) /\ c \notin Named THEN 0
                                           ELSE Latest(Stored, c)],
                 !.known = IF Repair(r) THEN Stored \cap (Named \X Within(window)) ELSE {},
                 !.hour = IF Repair(r) THEN 0 ELSE now,
                 !.due = IF Repair(r) THEN Due(window) ELSE {}]

-----------------------------------------------------------------------------
Init ==
    /\ now = Backlog
    /\ feed \in [Coins -> SUBSET (1..Backlog)]
    /\ \A c \in Coins \ Irregular : feed[c] = 1..Backlog
    /\ late = [c \in Coins |-> {}]
    /\ table = [rows |-> {}, twice |-> {}]
    /\ puts = {}
    /\ run = [r \in Runs |-> Idle]
    /\ faults = 0

Fault ==
    /\ faults < MaxFaults
    /\ faults' = faults + 1

Set(r, state) == run' = [run EXCEPT ![r] = state]

\* A commit lands: every other handle is behind, every PUT in flight for the
\* same version will be refused.
Landed(r, t, next) ==
    /\ table' = t
    /\ run' = [o \in Runs |-> IF o = r THEN next ELSE [run[o] EXCEPT !.fresh = FALSE]]
    /\ puts' = {}

\* Fault variant of Commit: the commit is rebased on a newer version and
\* tried again.
CommitRebased(r, t, next) ==
    \/ /\ Landed(r, t, [next EXCEPT !.fresh = next.pc # "idle"])
       /\ UNCHANGED faults
    \/ /\ Fault
       /\ puts' = IF run[r].fresh THEN puts \cup {t} ELSE puts
       /\ Set(r, Idle)
       /\ UNCHANGED table

\* One attempt at the next version: it lands, it is refused because another
\* commit landed first, or its answer is lost and it may still land.  A run
\* whose commit fails ends.
Commit(r, t, next) ==
    \/ /\ run[r].fresh
       /\ Landed(r, t, next)
       /\ UNCHANGED faults
    \/ /\ ~ run[r].fresh
       /\ Set(r, Idle)
       /\ UNCHANGED <<table, puts, faults>>
    \/ /\ Fault
       /\ puts' = IF run[r].fresh THEN puts \cup {t} ELSE puts
       /\ Set(r, Idle)
       /\ UNCHANGED table

\* Store::append: no rows, no commit; else one new file.
AppendRows(r, rows, next) ==
    \/ /\ rows = {}
       /\ Set(r, next)
       /\ UNCHANGED <<table, puts, faults>>
    \/ /\ rows # {}
       /\ Commit(r, With(table, rows), next)

-----------------------------------------------------------------------------
(* The run.                                                                *)

\* The table is opened and read; a repair is started by hand.
Start(r) ==
    /\ run[r].pc = "idle"
    /\ \/ /\ Repair(r)
          /\ Fault
          /\ \E window \in Windows : Set(r, Opened(r, window))
       \/ /\ ~ Repair(r)
          /\ Set(r, Opened(r, NoWindow))
          /\ UNCHANGED faults
    /\ UNCHANGED <<now, feed, late, table, puts>>

\* Coins without stored hours come first, then the oldest.
Turn(s, c) == c \in s.left /\ \A o \in s.left : s.last[c] <= s.last[o]

\* Fault variant of UpToDate: off by one hour.
UpToDateNearly(s, c) == s.last[c] + 1 >= s.hour

\* The coin's latest stored hour is the current one.
UpToDate(s, c) == s.last[c] >= s.hour

\* Nothing to ask: a repair of a coin without stored hours, or an
\* incremental run of a coin that is up to date.
Skipped(r, c) ==
    IF Repair(r) THEN run[r].last[c] = 0 ELSE UpToDate(run[r], c)

FirstStart(r, c) == IF Repair(r) THEN run[r].window[1] ELSE run[r].last[c] + 1

\* A scheduled run passes over a delisted coin but in one hour of the day.
SkipCoin(r, c) ==
    LET s == run[r] IN
    /\ s.pc = "coins"
    /\ Turn(s, c)
    /\ Skipped(r, c) \/ (c \in Delisted /\ ~ Repair(r))
    /\ Set(r, [s EXCEPT !.left = @ \ {c}])
    /\ UNCHANGED <<now, feed, late, table, puts, faults>>

BeginCoin(r, c) ==
    LET s == run[r] IN
    /\ s.pc = "coins"
    /\ Turn(s, c)
    /\ ~ Skipped(r, c)
    /\ Set(r, [s EXCEPT !.left = @ \ {c}, !.pc = "asking", !.coin = c,
                        !.start = FirstStart(r, c), !.previous = s.last[c]])
    /\ UNCHANGED <<now, feed, late, table, puts, faults>>

\* The hours from a start that /info may answer with: of a repair, only those
\* of its window.
Asked(r, c, start) ==
    {h \in feed[c] : h >= start /\ (Repair(r) => h <= run[r].window[2])}

\* The answer: the first Page of them.
Answered(r, c, start) ==
    LET hours == Asked(r, c, start) IN
    {h \in hours : Cardinality({g \in hours : g < h}) < Page}

\* Fault variant of Kept: a repair also writes ahead of the coin's cursor.
KeptAhead(r, h, previous) == Repair(r) \/ h > previous

\* A repair never writes ahead of the coin's latest stored hour, an
\* incremental run only after it.
Kept(r, h, previous) == IF Repair(r) THEN h <= previous ELSE h > previous

\* Entries are taken over one by one.
Taken(r, s, hours) ==
    LET kept == {h \in hours : Kept(r, h, s.previous)} IN
    [s EXCEPT !.pending = @ \cup {<<s.coin, h>> : h \in kept},
              !.last[s.coin] = Max(kept \cup {@})]

\* The coin is finished: commit if enough rows are pending.
CoinDone(s) ==
    [s EXCEPT !.pc = IF Cardinality(s.pending) >= CommitRows THEN "flush" ELSE "coins",
              !.coin = Idle.coin, !.start = 0, !.previous = 0]

\* One page: a short one ends the coin, a full one is followed by the next
\* unless that lies after the window.
Ask(r) ==
    LET s     == run[r]
        hours == Answered(r, s.coin, s.start)
        taken == Taken(r, s, hours)
        next  == Max(hours \cup {s.start}) + 1 IN
    /\ s.pc = "asking"
    /\ Set(r, IF Cardinality(hours) < Page \/ (Repair(r) /\ next > s.window[2])
              THEN CoinDone(taken)
              ELSE [taken EXCEPT !.start = next])
    /\ UNCHANGED <<now, feed, late, table, puts, faults>>

\* HTTP 500 for this coin: its gap, the run goes on.
EntityFails(r) ==
    /\ run[r].pc = "asking"
    /\ Fault
    /\ Set(r, [CoinDone(run[r]) EXCEPT !.gap = TRUE])
    /\ UNCHANGED <<now, feed, late, table, puts>>

\* The time budget ends: the run commits what it has.
BudgetEnds(r) ==
    /\ run[r].pc = "asking"
    /\ Fault
    /\ Set(r, [run[r] EXCEPT !.pc = "finish", !.cut = TRUE])
    /\ UNCHANGED <<now, feed, late, table, puts>>

\* Any other failure of /info, or an entry outside the request after some
\* entries of the page were taken: the run stops and commits what it has.
AskFails(r) ==
    LET s == run[r] IN
    /\ s.pc = "asking"
    /\ Fault
    /\ \E n \in 0..Page :
          LET hours == Answered(r, s.coin, s.start)
              first == {h \in hours : Cardinality({g \in hours : g < h}) < n} IN
          Set(r, [Taken(r, s, first) EXCEPT !.pc = "finish", !.failed = TRUE])
    /\ UNCHANGED <<now, feed, late, table, puts>>

\* The pending rows that are not stored already.
Missing(s) == s.pending \ s.known

\* A commit between two coins.
Flush(r) ==
    LET s == run[r] IN
    /\ s.pc = "flush"
    /\ AppendRows(r, Missing(s),
               [s EXCEPT !.pc = "coins", !.pending = {},
                         !.known = IF Repair(r) THEN @ \cup Missing(s) ELSE @])
    /\ UNCHANGED <<now, feed, late>>

\* Fault variant of Outage: only a failing request type counts.
OutageOfType(r, s) == FALSE

\* check_outages: a run that names its coins must have read them all.
Outage(r, s) == Repair(r) /\ s.gap

\* No coin is left or the run stops: the last commit, then the failure
\* checks.  A run without failures goes on to its maintenance; with one it
\* ends.
Finish(r) ==
    LET s == run[r] IN
    /\ s.pc = "finish" \/ (s.pc = "coins" /\ s.left = {})
    /\ AppendRows(r, Missing(s),
               IF s.failed \/ Outage(r, s) THEN Idle
               ELSE [Idle EXCEPT !.pc = "optimize", !.fresh = s.fresh,
                                 !.cut = s.cut, !.due = s.due])
    /\ UNCHANGED <<now, feed, late>>

\* The run is killed.
Killed(r) ==
    /\ run[r].pc # "idle"
    /\ Fault
    /\ Set(r, Idle)
    /\ UNCHANGED <<now, feed, late, table, puts>>

Maintaining == {"optimize", "vacuum", "vacuum_end"}

\* Maintenance commits that change no row: OPTIMIZE if the table has files
\* enough, then VACUUM START and, after the deletions, VACUUM END.
Maintain(r) ==
    LET s == run[r] IN
    /\ \/ s.pc = "optimize"   /\ Commit(r, table, [s EXCEPT !.pc = "vacuum"])
       \/ s.pc = "vacuum"     /\ Commit(r, table, [s EXCEPT !.pc = "vacuum_end"])
       \/ s.pc = "vacuum_end" /\ Commit(r, table, Idle)
    /\ UNCHANGED <<now, feed, late>>

\* OPTIMIZE is not due.
NoOptimize(r) ==
    /\ run[r].pc = "optimize"
    /\ Set(r, [run[r] EXCEPT !.pc = "vacuum"])
    /\ UNCHANGED <<now, feed, late, table, puts, faults>>

\* VACUUM is not due, or no maintenance is: the run ends.
End(r) ==
    /\ run[r].pc \in {"optimize", "vacuum"}
    /\ Set(r, Idle)
    /\ UNCHANGED <<now, feed, late, table, puts, faults>>

-----------------------------------------------------------------------------
(* The environment.                                                        *)

\* An hour passes: /info has it for every coin, of an irregular one perhaps.
Tick ==
    /\ now < MaxHour
    /\ now' = now + 1
    /\ \E some \in SUBSET Irregular :
          feed' = [c \in Coins |-> IF c \in some THEN feed[c] ELSE feed[c] \cup {now'}]
    /\ UNCHANGED <<late, table, puts, run, faults>>

\* /info supplies an hour it withheld, perhaps after a later one.
Publish(c, h) ==
    /\ h <= now
    /\ h \notin feed[c]
    /\ feed' = [feed EXCEPT ![c] = @ \cup {h}]
    /\ late' = [late EXCEPT ![c] = IF \E g \in feed[c] : g > h THEN @ \cup {h} ELSE @]
    /\ UNCHANGED <<now, table, puts, run, faults>>

\* A commit whose answer was lost lands after all, or never does.
Lands(t) ==
    /\ t \in puts
    /\ table' = t
    /\ run' = [o \in Runs |-> [run[o] EXCEPT !.fresh = FALSE]]
    /\ puts' = {}
    /\ UNCHANGED <<now, feed, late, faults>>

Lost(t) ==
    /\ t \in puts
    /\ puts' = puts \ {t}
    /\ UNCHANGED <<now, feed, late, table, run, faults>>

Working(r) ==
    \/ Start(r) \/ Ask(r) \/ Flush(r) \/ Finish(r)
    \/ Maintain(r) \/ NoOptimize(r) \/ End(r)
    \/ \E c \in Coins : SkipCoin(r, c) \/ BeginCoin(r, c)

Next ==
    \/ \E r \in Runs : Working(r) \/ EntityFails(r) \/ BudgetEnds(r) \/ AskFails(r) \/ Killed(r)
    \/ Tick
    \/ \E c \in Coins, h \in Hours : Publish(c, h)
    \/ \E t \in puts : Lands(t) \/ Lost(t)

Spec == Init /\ [][Next]_vars

\* The CronJob starts its runs again and again and lets them work, also in
\* the hours of the delisted coins; a PUT in flight lands or is lost.
FairSpec ==
    /\ Spec
    /\ \A r \in Runs \ Repairs : WF_vars(Working(r))
    /\ \A r \in Runs \ Repairs, c \in Delisted : SF_vars(BeginCoin(r, c))
    /\ WF_vars(\E t \in puts : Lost(t))

-----------------------------------------------------------------------------
\* Each hour of each coin is stored once, whatever overlaps: a scheduled run
\* and a repair of the same hours, a commit of unknown outcome that lands while
\* the next run fetches its rows again, a run that commits several times.
HourOnce == table.twice = {}

\* A coin has no gap behind its latest stored hour, which no scheduled run
\* would ever fill, but for the hours /info itself supplied late: neither a
\* page boundary, a budget end, a failure, a partial commit nor a repair
\* leaves one.
GapsAreLate ==
    \A c \in Coins : \A h \in feed[c] :
        h < Latest(Stored, c) => <<c, h>> \in Stored \/ h \in late[c]

\* A repair that ends without a failure and within its budget has stored all
\* it was asked for: a coin it could not read makes it fail, since no
\* scheduled run refills the gap.
RepairComplete ==
    \A r \in Repairs :
        run[r].pc \in Maintaining /\ ~ run[r].cut => run[r].due \subseteq Stored

\* Once failures stop, every hour that /info supplied in order is stored:
\* runs that were cut short, failed or refused are continued from the table.
BackfillCompletes ==
    []<>(\A c \in Coins : \A h \in feed[c] \ late[c] : <<c, h>> \in Stored)
=============================================================================
