--------------------------- MODULE FrontierProofs ---------------------------
(* The inductive invariant of IngestStream and the lemmas it rests on: what *)
(* receive, drain, accept and resume make of the frontier of a session      *)
(* (frontier.rs), what accepting a mapped block does to the routing that    *)
(* the feed determines, and what becomes of the runtime's queue             *)
(* (runtime.rs) with a block accepted, with a message ignored, filtered,    *)
(* held or ready, with a commit, and with a connection to a server whose    *)
(* feed agrees up to the cursor.                                            *)
(*                                                                          *)
(* The operators below take the stream and the feed as parameters, so that  *)
(* a lemma about them holds before and after a step.                        *)
EXTENDS IngestStream, TLAPS

USE Zenon

-----------------------------------------------------------------------------
(* The shape of the state.                                                 *)

Froms == {"none", "genesis", "accepted", "lookahead"}

Anchors == [src : Nat, num : Nat, id : STRING \cup {"none"}, secs : Nat,
            from : Froms]

Entries == [cursor : Nat, routing : {Unresolved, Inherit}]

RowSet == [cursor : Nat, time : Nat, src : Anchors]

ReadySet == [ord : Nat, time : Nat, look : Nat]

ClientSet == [cursor : Nat, last : Int, blocks : BOOLEAN, message : BOOLEAN,
              early : BOOLEAN, failed : Nat, quiet : BOOLEAN]

RunSet == [bootstrap : {"idle", "buffering", "off"}, buffer : Seq(Nat),
           work : Seq(ReadySet), rows : Seq(RowSet), known : Nat,
           mapped : BOOLEAN, day : Int]

CheckpointSet == [ordinal : Nat, cursor : Nat, anchor : Anchors, completed : Nat]

Places == {"down", "connecting", "streaming", "observing", "mapped",
           "finishing", "completing"}

Shape(f) ==
    f = [base |-> f.base, assigned |-> f.assigned, accepted |-> f.accepted,
         last |-> f.last, anchor |-> f.anchor, received |-> f.received]

IsFrontier(f) ==
    /\ Shape(f)
    /\ f.base \in Nat /\ f.assigned \in Nat /\ f.accepted \in Nat /\ f.last \in Nat
    /\ f.accepted <= f.assigned
    /\ f.anchor \in Anchors
    /\ f.received \in [f.accepted + 1..f.assigned -> Entries]

Types ==
    /\ stream \in Streams /\ feed \in stream.feeds
    /\ stop \in Nat /\ pc \in Places
    /\ client \in ClientSet /\ run \in RunSet
    /\ durable \in CheckpointSet /\ table \in Seq(RowSet)

-----------------------------------------------------------------------------
(* The session's frontier against the feed, which was read up to c.        *)

\* The event is mapped when its turn comes.
Wanted(s, e) == e.block /\ ~((s.final /\ e.step = 2) \/ e.num < s.start)

Dated(s, e) == Wanted(s, e) /\ e.time # 0

\* p is the position of the event with ordinal o.
EventIs(fd, o, p) == p \in 1..Len(fd) /\ fd[p].block /\ Ordinal(fd, p) = o

\* What is received and not accepted is the events from the frontier on, of
\* which the first waits and the filtered ones are resolved.
FrontierOK(s, fd, f, c) ==
    /\ c \in 0..Len(fd) /\ f.last \in 0..c
    /\ f.accepted = Ordinal(fd, f.last)
    /\ f.last # 0 => fd[f.last].block
    /\ \A o \in f.accepted + 1..f.assigned :
          LET p == f.received[o].cursor
          IN  /\ p \in f.last + 1..c /\ EventIs(fd, o, p)
              /\ f.received[o].routing = IF Wanted(s, fd[p]) THEN Unresolved ELSE Inherit
    /\ f.accepted < f.assigned => f.received[f.accepted + 1].routing = Unresolved

\* The anchor is that of an accepted event or of a later one, which it names
\* once that one is received.
AnchorOK(s, fd, f, c) ==
    LET a == f.anchor
        Names(d) == \E p \in 1..d : EventIs(fd, a.src, p) /\ a = AnchorAt(a.src, fd[p], a.from)
    IN  /\ a.from = "none" => a = NoAnchor
        /\ a.from = "genesis" => a = GenesisAnchor
        /\ a.from \in IF s.policy = "last_known" THEN {"none", "genesis", "accepted"}
                      ELSE {"none", "lookahead"}
        /\ a.from = "accepted" => Names(f.last)
        /\ a.from = "lookahead" /\ a.src <= f.assigned => Names(c)

\* The time that a block without one is routed by.
Known(a) == IF a = NoAnchor THEN Genesis ELSE a.secs

\* t is the time of the last dated event up to n, or Genesis.
KnownAt(s, fd, n, t) ==
    \/ t = Genesis /\ \A q \in 1..n : ~Dated(s, fd[q])
    \/ \E q \in 1..n : /\ Dated(s, fd[q]) /\ t = fd[q].time
                       /\ \A r \in q + 1..n : ~Dated(s, fd[r])

\* t is the time of the first dated event after n.
AheadAt(s, fd, n, t) ==
    \E q \in n + 1..Len(fd) : /\ Dated(s, fd[q]) /\ t = fd[q].time
                              /\ \A r \in n + 1..q - 1 : ~Dated(s, fd[r])

\* The frontier's anchor is the routing that the feed determines there.
RoutingOK(s, fd, f) ==
    s.final => IF s.policy = "last_known" THEN KnownAt(s, fd, f.last, Known(f.anchor))
               ELSE f.anchor # NoAnchor => AheadAt(s, fd, f.last, f.anchor.secs)

-----------------------------------------------------------------------------
(* Rows.                                                                   *)

\* The rows are those of the wanted events up to n, in order.
RowsOK(s, fd, rows, n) ==
    /\ {rows[i].cursor : i \in DOMAIN rows} = {p \in 1..n : Wanted(s, fd[p])}
    /\ \A i, j \in DOMAIN rows : i < j => rows[i].cursor < rows[j].cursor

\* t is the routing time of the event at p.
TimeIs(s, fd, p, t) ==
    IF fd[p].time # 0 THEN t = fd[p].time
    ELSE IF s.policy = "last_known" THEN KnownAt(s, fd, p - 1, t)
    ELSE AheadAt(s, fd, p, t)

\* A look-ahead source is the event accepted at its ordinal, or is still the
\* anchor, or an event before it has a time.
HonouredAt(fd, f, a) ==
    \/ f.anchor = a
    \/ \E p \in 1..f.last : EventIs(fd, a.src, p) /\ a = AnchorAt(a.src, fd[p], a.from)
    \/ \E p \in 1..f.last : fd[p].block /\ Ordinal(fd, p) < a.src /\ fd[p].time # 0

RoutedOK(s, fd, f, rows) ==
    \A i \in DOMAIN rows :
       /\ s.final => TimeIs(s, fd, rows[i].cursor, rows[i].time)
       /\ rows[i].src.from = "lookahead" =>
             s.policy = "lookahead" /\ HonouredAt(fd, f, rows[i].src)

-----------------------------------------------------------------------------
(* The runtime.                                                            *)

\* The held and the ready blocks are the events that wait, in order.
Waits(f) == {o \in f.accepted + 1..f.assigned : f.received[o].routing = Unresolved}

QueueOK(f, r) ==
    /\ r.buffer = <<>> \/ r.work = <<>>
    /\ \A o \in Waits(f) : \/ \E i \in DOMAIN r.buffer : r.buffer[i] = o
                           \/ \E i \in DOMAIN r.work : r.work[i].ord = o
    /\ \A i \in DOMAIN r.buffer : r.buffer[i] \in Waits(f)
    /\ \A i \in DOMAIN r.work : r.work[i].ord \in Waits(f)
    /\ \A i, j \in DOMAIN r.work : i < j => r.work[i].ord < r.work[j].ord
    /\ \A i, j \in DOMAIN r.buffer : i < j => r.buffer[i] < r.buffer[j]

\* A block is held before anything was mapped, for want of any time.
HoldOK(s, fd, f, r) ==
    r.buffer # <<>> =>
       /\ s.policy = "lookahead" /\ f.anchor = NoAnchor
       /\ r.bootstrap = "buffering" /\ ~r.mapped
       /\ \A i \in DOMAIN r.buffer : fd[f.received[r.buffer[i]].cursor].time = 0

\* The ready blocks but the last lack a time and take that of the last, which
\* has its own unless it is alone.
ReadyOK(s, fd, f, r) ==
    LET n == Len(r.work)
        Event(o) == fd[f.received[o].cursor]
    IN  r.work # <<>> =>
          /\ \A i \in 1..n - 1 :
                LET w == r.work[i]
                IN  /\ w.look = r.work[n].ord /\ w.time = r.work[n].time
                    /\ Event(w.ord).time = 0
          /\ r.work[n].look = 0
          /\ IF Event(r.work[n].ord).time # 0 THEN r.work[n].time = Event(r.work[n].ord).time
             ELSE /\ n = 1
                  /\ s.policy = "last_known" => r.work[n].time = Known(f.anchor)
                  /\ s.policy = "lookahead" =>
                        \/ r.work[n].time = 0
                        \/ f.anchor # NoAnchor /\ r.work[n].time = f.anchor.secs
          /\ n > 1 => /\ s.policy = "lookahead"
                      /\ f.anchor \in {NoAnchor, AnchorAt(r.work[n].ord, Event(r.work[n].ord),
                                                          "lookahead")}

\* The last known time is that of the anchor, or of the block at hand.
KnownOK(s, f, r) ==
    s.policy = "last_known" =>
       r.known = IF r.work = <<>> THEN Known(f.anchor) ELSE r.work[1].time

PlaceOK(at, r) ==
    /\ at = "observing" => r.work # <<>>
    /\ at \notin {"observing", "mapped"} => r.work = <<>>

\* What is mapped and not committed lies in the window's day.
DayOK(r) ==
    r.rows # <<>> => r.day # -1 /\ \A i \in DOMAIN r.rows : Day(r.rows[i].time) = r.day

-----------------------------------------------------------------------------
(* The invariant.                                                          *)

\* Every event up to the client's cursor was received, or the one block above
\* the bound of a run that wants block 0 only.
CountOK(fd, n, f, c) ==
    \/ f.assigned = Ordinal(fd, c)
    \/ n = 1 /\ \E p \in 1..c : fd[p].block /\ fd[p].num # 0

\* What a restart finds.
Durable(s, fd, d, tb) ==
    LET f == Resume(d)
    IN  /\ FrontierOK(s, fd, f, f.last) /\ AnchorOK(s, fd, f, f.last)
        /\ RoutingOK(s, fd, f)
        /\ RowsOK(s, fd, tb, f.last) /\ RoutedOK(s, fd, f, tb)
        /\ d.completed # 0 =>
              \E p \in 1..f.last : fd[p].block /\ fd[p].num >= d.completed - 1

Session(s, fd, n, f, c) ==
    /\ IsFrontier(f)
    /\ FrontierOK(s, fd, f, c) /\ AnchorOK(s, fd, f, c) /\ RoutingOK(s, fd, f)
    /\ CountOK(fd, n, f, c)

Runtime(s, fd, f, r, at) ==
    /\ QueueOK(f, r) /\ HoldOK(s, fd, f, r) /\ ReadyOK(s, fd, f, r)
    /\ KnownOK(s, f, r) /\ PlaceOK(at, r) /\ DayOK(r)

\* What a commit would make durable.
Window(s, fd, f, d, rows) ==
    d.cursor <= f.last /\ RowsOK(s, fd, rows, f.last) /\ RoutedOK(s, fd, f, rows)

StreamInv ==
    /\ Types
    /\ Durable(stream, feed, durable, table)
    /\ Session(stream, feed, stop, frontier, client.cursor)
    /\ Runtime(stream, feed, frontier, run, pc)
    /\ pc # "down" => Window(stream, feed, frontier, durable, table \o run.rows)

-----------------------------------------------------------------------------
(* Ordinals.                                                               *)

\* What the lemmas below take from the counting of finite sets and from the
\* order of numbers; LawsHold proves it.
CountLaw ==
    \A fd \in Seq(Events) : \A p, q \in 0..Len(fd) :
        /\ Ordinal(fd, p) \in Nat
        /\ Ordinal(fd, 0) = 0
        /\ p <= q => Ordinal(fd, p) <= Ordinal(fd, q)
        /\ p < q /\ fd[q].block => Ordinal(fd, p) < Ordinal(fd, q)
        /\ q = p + 1 =>
             Ordinal(fd, q) = IF fd[q].block THEN Ordinal(fd, p) + 1 ELSE Ordinal(fd, p)
LeastLaw ==
    \A a, b \in Nat : a <= b =>
        \A W \in SUBSET (a + 1..b) :
            \E n \in a..b : /\ a + 1..n \cap W = {}
                            /\ n < b => n + 1 \in W
Laws == CountLaw /\ LeastLaw

\* What a set of streams assumes of one of its feeds.
LEMMA FeedFacts ==
    ASSUME NEW s \in Streams, NEW fd \in s.feeds
    PROVE  /\ fd \in Seq(Events) /\ Len(fd) \in Nat /\ DOMAIN fd = 1..Len(fd)
           /\ \A p \in 1..Len(fd) : fd[p] \in Events
           /\ s.policy \in {"lookahead", "last_known"} /\ s.final \in BOOLEAN
           /\ s.start \in Nat /\ s.stops \in SUBSET Nat
<1>1. fd \in Seq(Events)
  BY StreamAssumption
<1>2. s.policy \in {"lookahead", "last_known"} /\ s.final \in BOOLEAN
      /\ s.start \in Nat /\ s.stops \in SUBSET Nat
  BY StreamAssumption
<1> QED
  BY <1>1, <1>2, SMTT(30)

\* The ordinal is a number that grows with each block.
LEMMA OrdinalFacts ==
    ASSUME Laws, NEW fd \in Seq(Events), NEW p \in 0..Len(fd)
    PROVE  /\ Ordinal(fd, p) \in Nat
           /\ Ordinal(fd, 0) = 0
BY DEF Laws, CountLaw

\* Ordinals follow positions, and no two events share one.
LEMMA OrdinalOrder ==
    ASSUME Laws, NEW fd \in Seq(Events), NEW p \in 0..Len(fd), NEW q \in 0..Len(fd), p <= q
    PROVE  /\ Ordinal(fd, p) <= Ordinal(fd, q)
           /\ p < q /\ fd[q].block => Ordinal(fd, p) < Ordinal(fd, q)
BY DEF Laws, CountLaw

\* The ordinal after one more position.
LEMMA OrdinalNext ==
    ASSUME Laws, NEW fd \in Seq(Events), NEW p \in 0..Len(fd) - 1
    PROVE  Ordinal(fd, p + 1) = IF fd[p + 1].block THEN Ordinal(fd, p) + 1 ELSE Ordinal(fd, p)
BY SMTT(30) DEF Laws, CountLaw

\* An ordinal has one position.
LEMMA EventUnique ==
    ASSUME Laws, NEW fd \in Seq(Events), NEW o, NEW p, NEW q, EventIs(fd, o, p), EventIs(fd, o, q)
    PROVE  p = q
<1>1. /\ p \in 1..Len(fd) /\ q \in 1..Len(fd) /\ fd[p].block /\ fd[q].block
      /\ Ordinal(fd, p) = o /\ Ordinal(fd, q) = o /\ Len(fd) \in Nat
  BY SMTT(30) DEF EventIs
<1>2. p \in 0..Len(fd) /\ q \in 0..Len(fd) /\ p \in Int /\ q \in Int
  BY <1>1, SMTT(30)
<1>3. o \in Nat
  BY <1>1, <1>2, OrdinalFacts
<1>4. ~(p < q) /\ ~(q < p)
  BY <1>1, <1>2, <1>3, OrdinalOrder, SMTT(30)
<1> QED
  BY <1>2, <1>4, SMTT(30)

\* An event follows a position when it has a greater ordinal.
LEMMA EventAfter ==
    ASSUME Laws, NEW fd \in Seq(Events), NEW o, NEW p, EventIs(fd, o, p), NEW n \in 0..Len(fd)
    PROVE  p > n <=> o > Ordinal(fd, n)
<1>1. /\ p \in 1..Len(fd) /\ fd[p].block /\ Ordinal(fd, p) = o /\ Len(fd) \in Nat
  BY SMTT(30) DEF EventIs
<1>2. p \in 0..Len(fd) /\ p \in Int /\ n \in Int
  BY <1>1, SMTT(30)
<1>3. o \in Nat /\ Ordinal(fd, n) \in Nat
  BY <1>1, <1>2, OrdinalFacts
<1>4. CASE p > n
  BY <1>1, <1>2, <1>3, <1>4, OrdinalOrder, SMTT(30)
<1>5. CASE p <= n
  BY <1>1, <1>2, <1>3, <1>5, OrdinalOrder, SMTT(30)
<1> QED
  BY <1>2, <1>4, <1>5, SMTT(30)

\* Feeds that agree up to c have the same ordinals and events up to c.
LEMMA SameOrdinals ==
    ASSUME NEW fd \in Seq(Events), NEW gd \in Seq(Events), NEW c \in Nat,
           c <= Len(fd), c <= Len(gd), \A q \in 1..c : gd[q] = fd[q]
    PROVE  /\ \A p \in 0..c : Ordinal(gd, p) = Ordinal(fd, p)
           /\ \A o : \A p \in 1..c : EventIs(gd, o, p) <=> EventIs(fd, o, p)
<1>1. ASSUME NEW p \in 0..c PROVE Ordinal(gd, p) = Ordinal(fd, p)
  <2>1. {q \in 1..p : gd[q].block} = {q \in 1..p : fd[q].block}
    BY SMTT(30)
  <2> QED
    BY <2>1 DEF Ordinal
<1>2. \A p \in 1..c : p \in 0..c /\ p \in 1..Len(fd) /\ p \in 1..Len(gd)
  BY SMTT(30)
<1> QED
  BY <1>1, <1>2 DEF EventIs

-----------------------------------------------------------------------------
(* receive, drain and accept.                                              *)

\* The three routings differ.
LEMMA Routings ==
    /\ Unresolved # Inherit
    /\ \A a : Explicit(a) # Unresolved /\ Explicit(a) # Inherit /\ Explicit(a).anchor = a
  BY DEF Unresolved, Inherit, Explicit

\* The fields of a record are what it was made of.
Fields(g, a, b, c, d, e, h) ==
    /\ g.base = a /\ g.assigned = b /\ g.accepted = c /\ g.last = d
    /\ g.anchor = e /\ g.received = h /\ Shape(g)

Record(a, b, c, d, e, h) ==
    [base |-> a, assigned |-> b, accepted |-> c, last |-> d, anchor |-> e, received |-> h]

\* The fields of a frontier written out.
LEMMA FieldsOf ==
    ASSUME NEW a, NEW b, NEW c, NEW d, NEW e, NEW h
    PROVE  Fields(Record(a, b, c, d, e, h), a, b, c, d, e, h)
<1> DEFINE g == Record(a, b, c, d, e, h)
<1>1. g.base = a /\ g.assigned = b /\ g.accepted = c /\ g.last = d /\ g.anchor = e
      /\ g.received = h
  BY DEF Record
<1>2. g = Record(g.base, g.assigned, g.accepted, g.last, g.anchor, g.received)
  BY <1>1
<1> QED
  BY <1>1, <1>2 DEF Fields, Shape, Record

\* receive appends an event that waits.
IsReceive(f, p, g) ==
    /\ IsFrontier(g)
    /\ g.base = f.base /\ g.assigned = f.assigned + 1 /\ g.accepted = f.accepted
    /\ g.last = f.last /\ g.anchor = f.anchor
    /\ \A i \in f.accepted + 1..f.assigned : g.received[i] = f.received[i]
    /\ g.received[f.assigned + 1] = [cursor |-> p, routing |-> Unresolved]

\* Receiving an event.
LEMMA ReceiveFields ==
    ASSUME NEW f, IsFrontier(f), NEW p \in Nat
    PROVE  IsReceive(f, p, Receive(f, p))
<1> DEFINE g == Receive(f, p)
           o == f.assigned + 1
           event == [cursor |-> p, routing |-> Unresolved]
           D == f.accepted + 1..o
           rec == [i \in D |-> IF i = o THEN event ELSE f.received[i]]
<1>1. /\ f.assigned \in Nat /\ f.accepted \in Nat /\ f.accepted <= f.assigned
      /\ f.base \in Nat /\ f.last \in Nat /\ f.anchor \in Anchors
      /\ f.received \in [f.accepted + 1..f.assigned -> Entries]
  BY DEF IsFrontier
<1>2. DOMAIN f.received \cup {o} = D
  BY <1>1, SMTT(30)
<1>3. g = [f EXCEPT !.assigned = o, !.received = rec]
  BY <1>2 DEF Receive
<1>4. \A i \in f.accepted + 1..f.assigned : i # o /\ i \in D
  BY <1>1, SMTT(30)
<1>5. o \in D /\ o \in Nat /\ f.accepted <= o
  BY <1>1, SMTT(30)
<1> HIDE DEF rec, o
<1>6. g = Record(f.base, o, f.accepted, f.last, f.anchor, rec)
  BY <1>3 DEF IsFrontier, Shape, Record
<1>7. rec \in [D -> Entries]
  <2>1. event \in Entries
    BY DEF Entries
  <2>2. \A i \in D : i = o \/ i \in f.accepted + 1..f.assigned
    BY <1>1, SMTT(30) DEF o
  <2> HIDE DEF D, event
  <2>3. \A i \in D : (IF i = o THEN event ELSE f.received[i]) \in Entries
    BY <1>1, <2>1, <2>2
  <2> QED
    BY <2>3 DEF rec
<1>8. Fields(g, f.base, o, f.accepted, f.last, f.anchor, rec)
  BY <1>6, FieldsOf
<1>9. IsFrontier(g)
  BY <1>1, <1>5, <1>7, <1>8 DEF IsFrontier, D, Fields
<1>10. /\ rec[o] = event
       /\ \A i \in f.accepted + 1..f.assigned : rec[i] = f.received[i]
  BY <1>4, <1>5 DEF rec
<1> HIDE DEF g
<1> QED
  BY <1>8, <1>9, <1>10 DEF IsReceive, Fields, g, o

\* drain stops before the first event that waits.
LEMMA DrainEnd ==
    ASSUME Laws, NEW a \in Nat, NEW b \in Nat, a <= b, NEW W \in SUBSET (a + 1..b)
    PROVE  \E n \in a..b : /\ a + 1..n \cap W = {}
                           /\ n < b => n + 1 \in W
<1>1. \A V \in SUBSET (a + 1..b) : \E n \in a..b : /\ a + 1..n \cap V = {}
                                                   /\ n < b => n + 1 \in V
  BY DEF Laws, LeastLaw
<1> QED
  BY <1>1

\* The greatest of a set of numbers is the one that is no smaller than any.
LEMMA MaxIs ==
    ASSUME NEW S \in SUBSET Int, NEW m \in S, \A x \in S : m >= x
    PROVE  Max(S) = m
<1>1. \A y \in S : (\A x \in S : y >= x) => y = m
  BY SMTT(30)
<1> QED
  BY <1>1 DEF Max

\* The least of a set of numbers is the one that is no greater than any.
LEMMA MinIs ==
    ASSUME NEW S \in SUBSET Int, NEW m \in S, \A x \in S : m <= x
    PROVE  Min(S) = m
<1>1. \A y \in S : (\A x \in S : y <= x) => y = m
  BY SMTT(30)
<1> QED
  BY <1>1 DEF Min

\* drain, once it is known where it stops.
DrainTo(f, end) ==
    LET drained == f.accepted + 1..end
        explicit == {i \in drained : f.received[i].routing # Inherit}
    IN  [f EXCEPT
          !.accepted = end,
          !.last = IF drained = {} THEN @ ELSE f.received[end].cursor,
          !.anchor = IF explicit = {} THEN @
                     ELSE f.received[Max(explicit)].routing.anchor,
          !.received = [i \in DOMAIN @ \ drained |-> @[i]]]

\* What drain takes and what it leaves.
IsDrain(f, g, end) ==
    /\ \A i \in f.accepted + 1..end : f.received[i].routing # Unresolved
    /\ end < f.assigned => f.received[end + 1].routing = Unresolved
    /\ Shape(g) /\ g.base = f.base /\ g.assigned = f.assigned /\ g.accepted = end
    /\ g.last = IF end = f.accepted THEN f.last ELSE f.received[end].cursor
    /\ g.received = [i \in end + 1..f.assigned |-> f.received[i]]
    /\ (\A i \in f.accepted + 1..end : f.received[i].routing = Inherit) => g.anchor = f.anchor
    /\ \A m \in f.accepted + 1..end :
          /\ f.received[m].routing # Inherit
          /\ \A i \in m + 1..end : f.received[i].routing = Inherit
          => g.anchor = f.received[m].routing.anchor

\* Draining a frontier.
LEMMA DrainFields ==
    ASSUME Laws, NEW f, Shape(f), f.accepted \in Nat, f.assigned \in Nat, f.accepted <= f.assigned,
           DOMAIN f.received = f.accepted + 1..f.assigned
    PROVE  \E end \in f.accepted..f.assigned : IsDrain(f, Drain(f), end)
<1> DEFINE Resolved(n) == n \in DOMAIN f.received /\ f.received[n].routing # Unresolved
           W == {i \in f.accepted + 1..f.assigned : f.received[i].routing = Unresolved}
           Ends(n) == /\ \A i \in f.accepted + 1..n : Resolved(i)
                      /\ ~Resolved(n + 1)
<1>1. PICK end \in f.accepted..f.assigned :
         f.accepted + 1..end \cap W = {} /\ (end < f.assigned => end + 1 \in W)
  <2>1. W \in SUBSET (f.accepted + 1..f.assigned)
    OBVIOUS
  <2> HIDE DEF W
  <2> QED
    BY <2>1, DrainEnd
<1>2. Ends(end)
  <2>1. \A i \in f.accepted + 1..end : Resolved(i)
    BY <1>1, SMTT(30)
  <2>2. ~Resolved(end + 1)
    BY <1>1, SMTT(30)
  <2> QED
    BY <2>1, <2>2
<1>3. \A n \in f.accepted..f.assigned : Ends(n) => n = end
  <2> SUFFICES ASSUME NEW n \in f.accepted..f.assigned, Ends(n) PROVE n = end
    OBVIOUS
  <2>1. CASE n < end
    <3>1. n + 1 \in f.accepted + 1..end
      BY <2>1, SMTT(30)
    <3> QED
      BY <1>2, <3>1
  <2>2. CASE end < n
    <3>1. end + 1 \in f.accepted + 1..n
      BY <2>2, SMTT(30)
    <3> QED
      BY <1>2, <3>1
  <2> QED
    BY <2>1, <2>2, SMTT(30)
<1> DEFINE drained == f.accepted + 1..end
           explicit == {i \in drained : f.received[i].routing # Inherit}
           last == IF end = f.accepted THEN f.last ELSE f.received[end].cursor
           anchor == IF explicit = {} THEN f.anchor
                     ELSE f.received[Max(explicit)].routing.anchor
           received == [i \in end + 1..f.assigned |-> f.received[i]]
<1>4. (CHOOSE n \in f.accepted..f.assigned : Ends(n)) = end
  <2> HIDE DEF Ends
  <2> QED
    BY <1>2, <1>3
<1>5. /\ (drained = {}) <=> (end = f.accepted)
      /\ DOMAIN f.received \ drained = end + 1..f.assigned
  <2>1. (drained = {}) <=> (end = f.accepted)
    BY SMTT(30)
  <2>2. (f.accepted + 1..f.assigned) \ drained = end + 1..f.assigned
    BY SMTT(30)
  <2> QED
    BY <2>1, <2>2
<1>6. Drain(f) = [f EXCEPT !.accepted = end, !.last = last, !.anchor = anchor,
                           !.received = received]
  <2>1. Drain(f) = DrainTo(f, CHOOSE n \in f.accepted..f.assigned : Ends(n))
    BY DEF Drain, DrainTo
  <2>2. Drain(f) = DrainTo(f, end)
    BY <1>4, <2>1
  <2>3. DrainTo(f, end) = [f EXCEPT !.accepted = end,
                                    !.last = IF drained = {} THEN f.last
                                             ELSE f.received[end].cursor,
                                    !.anchor = anchor,
                                    !.received = [i \in DOMAIN f.received \ drained |->
                                                     f.received[i]]]
    BY DEF DrainTo
  <2>4. last = IF drained = {} THEN f.last ELSE f.received[end].cursor
    BY <1>5
  <2>5. received = [i \in DOMAIN f.received \ drained |-> f.received[i]]
    BY <1>5
  <2> HIDE DEF last, received, anchor, drained
  <2> QED
    BY <2>2, <2>3, <2>4, <2>5
<1>7. \A i \in drained : f.received[i].routing # Unresolved
  BY <1>2
<1>8. end < f.assigned => f.received[end + 1].routing = Unresolved
  BY <1>1
<1>9. Drain(f) = Record(f.base, f.assigned, end, last, anchor, received)
  <2> HIDE DEF last, anchor, received
  <2> QED
    BY <1>6 DEF Shape, Record
<1>10. Fields(Drain(f), f.base, f.assigned, end, last, anchor, received)
  <2> HIDE DEF last, anchor, received
  <2> QED
    BY <1>9, FieldsOf
<1>11. (\A i \in drained : f.received[i].routing = Inherit) => anchor = f.anchor
  <2> SUFFICES ASSUME \A i \in drained : f.received[i].routing = Inherit
               PROVE  anchor = f.anchor
    OBVIOUS
  <2>1. explicit = {}
    OBVIOUS
  <2> QED
    BY <2>1
<1>12. ASSUME NEW m \in drained, f.received[m].routing # Inherit,
              \A i \in m + 1..end : f.received[i].routing = Inherit
       PROVE  anchor = f.received[m].routing.anchor
  <2>1. m \in explicit
    BY <1>12
  <2>2. explicit \in SUBSET Int /\ \A i \in explicit : m >= i
    BY <1>12, SMTT(30)
  <2> HIDE DEF explicit
  <2>3. Max(explicit) = m
    BY <2>1, <2>2, MaxIs
  <2> QED
    BY <2>1, <2>3
<1> HIDE DEF anchor
<1> QED
  BY <1>7, <1>8, <1>10, <1>11, <1>12 DEF IsDrain, Fields

\* accept resolves an event and drains.
Resolve(f, o, routing) == [f EXCEPT !.received[o].routing = routing]

IsResolve(f, o, routing, g) ==
    /\ Shape(g) /\ g.base = f.base /\ g.assigned = f.assigned
    /\ g.accepted = f.accepted /\ g.last = f.last /\ g.anchor = f.anchor
    /\ DOMAIN g.received = f.accepted + 1..f.assigned
    /\ \A i \in f.accepted + 1..f.assigned : i # o => g.received[i] = f.received[i]
    /\ g.received[o] = [cursor |-> f.received[o].cursor, routing |-> routing]

\* Resolving the routing of a received event.
LEMMA ResolveFields ==
    ASSUME NEW f, IsFrontier(f), NEW o \in f.accepted + 1..f.assigned, NEW routing
    PROVE  IsResolve(f, o, routing, Resolve(f, o, routing))
<1> DEFINE g == Resolve(f, o, routing)
           entry == [cursor |-> f.received[o].cursor, routing |-> routing]
           rec == [f.received EXCEPT ![o] = entry]
<1>1. f.received \in [f.accepted + 1..f.assigned -> Entries] /\ Shape(f)
  BY DEF IsFrontier
<1>2. [f.received[o] EXCEPT !.routing = routing] = entry
  <2>1. f.received[o] \in Entries
    BY <1>1
  <2> QED
    BY <2>1, SMTT(30) DEF Entries
<1>3. g = [f EXCEPT !.received = rec]
  BY <1>2 DEF Resolve
<1>4. /\ DOMAIN rec = f.accepted + 1..f.assigned
      /\ \A i \in f.accepted + 1..f.assigned : i # o => rec[i] = f.received[i]
      /\ rec[o] = entry
  BY <1>1
<1> HIDE DEF rec
<1>5. g = Record(f.base, f.assigned, f.accepted, f.last, f.anchor, rec)
  BY <1>1, <1>3 DEF Shape, Record
<1>6. Fields(g, f.base, f.assigned, f.accepted, f.last, f.anchor, rec)
  BY <1>5, FieldsOf
<1> HIDE DEF g
<1> QED
  BY <1>4, <1>6 DEF IsResolve, Fields, g

\* A part of what was received is still received.
LEMMA PartReceived ==
    ASSUME NEW a, NEW b, NEW rec, \A i \in a..b : rec[i] \in Entries
    PROVE  [i \in a..b |-> rec[i]] \in [a..b -> Entries]
  OBVIOUS

\* A filtered event: it is drained when nothing waits before it.
IsFiltered(f, p, g) ==
    /\ IsFrontier(g)
    /\ g.base = f.base /\ g.assigned = f.assigned + 1 /\ g.anchor = f.anchor
    /\ f.accepted = f.assigned => g.accepted = f.assigned + 1 /\ g.last = p
    /\ f.accepted < f.assigned =>
          /\ g.accepted = f.accepted /\ g.last = f.last
          /\ \A i \in f.accepted + 1..f.assigned : g.received[i] = f.received[i]
          /\ g.received[f.assigned + 1].cursor = p
          /\ g.received[f.assigned + 1].routing = Inherit

\* Receiving and accepting a filtered event.
LEMMA AcceptFilteredFields ==
    ASSUME Laws, NEW f, IsFrontier(f), NEW p \in Nat,
           f.accepted < f.assigned => f.received[f.accepted + 1].routing = Unresolved
    PROVE  IsFiltered(f, p, AcceptFiltered(Receive(f, p), f.assigned + 1))
<1> DEFINE g == AcceptFiltered(Receive(f, p), f.assigned + 1)
           o == f.assigned + 1
           first == f.accepted + 1
           r == Receive(f, p)
           h == Resolve(r, o, Inherit)
<1>1. /\ f.assigned \in Nat /\ f.accepted \in Nat /\ f.accepted <= f.assigned /\ f.base \in Nat
      /\ f.last \in Nat /\ f.anchor \in Anchors
      /\ f.received \in [first..f.assigned -> Entries]
  BY DEF IsFrontier
<1>2. /\ o \in Nat /\ o \in first..o /\ first \in Nat /\ f.accepted <= o
      /\ \A i \in first..f.assigned : i # o /\ i \in first..o
      /\ \A i \in first..o : i = o \/ i \in first..f.assigned
  BY <1>1, SMTT(30)
<1>3. /\ r.base = f.base /\ r.assigned = o /\ r.accepted = f.accepted /\ r.last = f.last
      /\ r.anchor = f.anchor /\ IsFrontier(r)
      /\ \A i \in first..f.assigned : r.received[i] = f.received[i]
      /\ r.received[o] = [cursor |-> p, routing |-> Unresolved]
  <2>1. IsReceive(f, p, r)
    BY ReceiveFields
  <2> HIDE DEF r
  <2> QED
    BY <2>1 DEF IsReceive
<1>4. r.received[o].cursor = p
  BY <1>3, SMTT(30)
<1>5. g = Drain(h)
  BY DEF AcceptFiltered, Accept, Resolve
<1> SUFFICES IsFiltered(f, p, g)
  OBVIOUS
<1> HIDE DEF r, o, g
<1>6. o \in r.accepted + 1..r.assigned
  BY <1>2, <1>3
<1>7. /\ Shape(h) /\ h.base = f.base /\ h.assigned = o
      /\ h.accepted = f.accepted /\ h.last = f.last /\ h.anchor = f.anchor
      /\ DOMAIN h.received = first..o
      /\ \A i \in first..o : i # o => h.received[i] = r.received[i]
      /\ h.received[o] = [cursor |-> p, routing |-> Inherit]
      /\ h.received[o].cursor = p /\ h.received[o].routing = Inherit
  <2>0. IsFrontier(r)
    BY <1>3
  <2>1. IsResolve(r, o, Inherit, h)
    BY <2>0, <1>6, ResolveFields
  <2> HIDE DEF h
  <2>2. h.received[o] = [cursor |-> p, routing |-> Inherit]
    BY <1>4, <2>1 DEF IsResolve
  <2>3. /\ Shape(h) /\ h.base = f.base /\ h.assigned = o
        /\ h.accepted = f.accepted /\ h.last = f.last /\ h.anchor = f.anchor
        /\ DOMAIN h.received = first..o
        /\ \A i \in first..o : i # o => h.received[i] = r.received[i]
    BY <1>3, <2>1 DEF IsResolve
  <2> QED
    BY <2>2, <2>3, SMTT(30)
<1> HIDE DEF h
<1>8. \A i \in first..f.assigned : h.received[i] = f.received[i]
  BY <1>2, <1>3, <1>7
<1>9. PICK end \in f.accepted..o : IsDrain(h, g, end)
  <2>1. \E end \in h.accepted..h.assigned : IsDrain(h, Drain(h), end)
    BY <1>1, <1>2, <1>7, DrainFields
  <2> QED
    BY <1>5, <1>7, <2>1
<1>9a. /\ \A i \in first..end : h.received[i].routing # Unresolved
       /\ end < o => h.received[end + 1].routing = Unresolved
       /\ Shape(g) /\ g.base = f.base /\ g.assigned = o /\ g.accepted = end
       /\ g.last = IF end = f.accepted THEN f.last ELSE h.received[end].cursor
       /\ g.received = [i \in end + 1..o |-> h.received[i]]
       /\ (\A i \in first..end : h.received[i].routing = Inherit) => g.anchor = f.anchor
  BY <1>7, <1>9 DEF IsDrain
<1>10. CASE f.accepted = f.assigned
  <2>1. first = o /\ f.accepted..o = {f.accepted, o} /\ f.accepted # o
    BY <1>1, <1>10, SMTT(30) DEF o
  <2>2. end = o
    <3>1. h.received[o].routing # Unresolved
      BY <1>7, Routings
    <3>2. f.accepted + 1 = o /\ f.accepted < o
      BY <1>1, <1>10, SMTT(30) DEF o
    <3> QED
      BY <1>9, <1>9a, <2>1, <3>1, <3>2
  <2>3. \A i \in first..end : i = o
    BY <1>2, <2>1, <2>2, SMTT(30)
  <2>4. g.anchor = f.anchor /\ g.last = p
    BY <1>7, <1>9, <1>9a, <2>1, <2>2, <2>3
  <2>5. g.received \in [o + 1..o -> Entries]
    <3>1. o + 1..o = {}
      BY <1>2, SMTT(30)
    <3>2. \A i \in o + 1..o : h.received[i] \in Entries
      BY <3>1
    <3> QED
      BY <1>9, <1>9a, <2>2, <3>2, PartReceived
  <2>6. IsFrontier(g)
    <3>1. o <= o
      BY <1>2, SMTT(30)
    <3> QED
      BY <1>1, <1>2, <1>7, <1>9a, <2>2, <2>4, <2>5, <3>1 DEF IsFrontier
  <2>7. ~(f.accepted < f.assigned)
    BY <1>1, <1>10, SMTT(30)
  <2>8. g.base = f.base /\ g.assigned = o /\ g.accepted = o
    BY <1>9a, <2>2
  <2> QED
    BY <2>4, <2>6, <2>7, <2>8 DEF o, IsFiltered
<1>11. CASE f.accepted < f.assigned
  <2>1. first \in first..f.assigned /\ h.received[first].routing = Unresolved
    BY <1>1, <1>8, <1>11, SMTT(30)
  <2>2. end = f.accepted
    <3>1. ~(first \in first..end)
      BY <1>9a, <2>1
    <3> QED
      BY <1>1, <1>2, <1>9, <3>1, SMTT(30)
  <2>3. first..end = {}
    BY <1>1, <2>2, SMTT(30)
  <2>4. /\ g.anchor = f.anchor /\ g.last = f.last
        /\ g.received = [i \in first..o |-> h.received[i]]
    BY <1>9, <1>9a, <2>2, <2>3, ZenonT(30)
  <2>5. \A i \in first..o : h.received[i] \in Entries
    <3>1. r.received \in [first..o -> Entries] /\ r.received[o] \in Entries
      BY <1>2, <1>3 DEF IsFrontier
    <3>2. h.received[o] \in Entries
      <4>1. h.received[o] = [cursor |-> p, routing |-> Inherit]
        BY <1>7
      <4> QED
        BY <4>1, SMTT(30) DEF Entries
    <3> QED
      BY <1>7, <3>1, <3>2
  <2>6. g.received \in [first..o -> Entries]
    BY <2>4, <2>5, PartReceived
  <2>7. IsFrontier(g)
    BY <1>1, <1>2, <1>9, <1>9a, <2>2, <2>4, <2>6 DEF IsFrontier
  <2>8. /\ g.received[o].cursor = p /\ g.received[o].routing = Inherit
        /\ \A i \in first..f.assigned : g.received[i] = f.received[i]
    BY <1>2, <1>7, <1>8, <2>4
  <2>9. f.accepted # f.assigned
    BY <1>1, <1>11, SMTT(30)
  <2>10. g.base = f.base /\ g.assigned = o /\ g.accepted = f.accepted
    BY <1>9a, <2>2
  <2>11. g.anchor = f.anchor /\ g.last = f.last
    BY <2>4
  <2> QED
    BY <2>7, <2>8, <2>9, <2>10, <2>11 DEF o, IsFiltered
<1> QED
  BY <1>1, <1>10, <1>11, SMTT(30)

\* A mapped event is drained with the filtered ones after it, and its routing
\* is the frontier's.
IsAccept(f, a, g, end) ==
    /\ IsFrontier(g)
    /\ g.base = f.base /\ g.assigned = f.assigned /\ g.accepted = end
    /\ g.last = f.received[end].cursor /\ g.anchor = a
    /\ \A i \in f.accepted + 2..end : f.received[i].routing = Inherit
    /\ end < f.assigned => f.received[end + 1].routing = Unresolved
    /\ \A i \in end + 1..f.assigned : g.received[i] = f.received[i]

\* Accepting the first event that waits.
LEMMA AcceptFields ==
    ASSUME Laws, NEW f, IsFrontier(f), NEW a \in Anchors, f.accepted < f.assigned
    PROVE  \E end \in f.accepted + 1..f.assigned :
              IsAccept(f, a, Accept(f, f.accepted + 1, Explicit(a)), end)
<1> DEFINE o == f.accepted + 1
           h == Resolve(f, o, Explicit(a))
           g == Accept(f, o, Explicit(a))
<1>1. /\ f.assigned \in Nat /\ f.accepted \in Nat /\ f.accepted <= f.assigned /\ f.base \in Nat
      /\ f.last \in Nat /\ f.received \in [o..f.assigned -> Entries]
  BY DEF IsFrontier
<1>2. /\ o \in Nat /\ o \in o..f.assigned /\ f.accepted < o
      /\ \A i \in o + 1..f.assigned : i # o /\ i \in o..f.assigned
  BY <1>1, SMTT(30)
<1>3. g = Drain(h)
  BY DEF Accept, Resolve
<1>4. IsResolve(f, o, Explicit(a), h)
  BY <1>2, ResolveFields
<1> SUFFICES \E end \in o..f.assigned : IsAccept(f, a, g, end)
  OBVIOUS
<1> HIDE DEF h, g
<1>5. /\ Shape(h) /\ h.base = f.base /\ h.assigned = f.assigned
      /\ h.accepted = f.accepted /\ DOMAIN h.received = o..f.assigned
      /\ \A i \in o..f.assigned : i # o => h.received[i] = f.received[i]
  BY <1>4 DEF IsResolve
<1>6. h.received[o].cursor = f.received[o].cursor /\ h.received[o].routing = Explicit(a)
  <2>1. h.received[o] = [cursor |-> f.received[o].cursor, routing |-> Explicit(a)]
    BY <1>4 DEF IsResolve
  <2> QED
    BY <2>1, SMTT(30)
<1>7. PICK end \in f.accepted..f.assigned : IsDrain(h, g, end)
  <2>1. \E end \in h.accepted..h.assigned : IsDrain(h, Drain(h), end)
    BY <1>1, <1>5, DrainFields
  <2> QED
    BY <1>3, <1>5, <2>1
<1>8. /\ \A i \in o..end : h.received[i].routing # Unresolved
      /\ end < f.assigned => h.received[end + 1].routing = Unresolved
      /\ Shape(g) /\ g.base = f.base /\ g.assigned = f.assigned /\ g.accepted = end
      /\ g.last = IF end = f.accepted THEN f.last ELSE h.received[end].cursor
      /\ g.received = [i \in end + 1..f.assigned |-> h.received[i]]
  <2>1. /\ \A i \in o..end : h.received[i].routing # Unresolved
        /\ end < f.assigned => h.received[end + 1].routing = Unresolved
    BY <1>5, <1>7 DEF IsDrain
  <2>2. Shape(g) /\ g.base = f.base /\ g.assigned = f.assigned /\ g.accepted = end
    BY <1>5, <1>7 DEF IsDrain
  <2>3. g.last = IF end = f.accepted THEN h.last ELSE h.received[end].cursor
    BY <1>5, <1>7 DEF IsDrain
  <2>4. g.received = [i \in end + 1..f.assigned |-> h.received[i]]
    BY <1>5, <1>7 DEF IsDrain
  <2>5. h.last = f.last
    BY <1>4 DEF IsResolve
  <2> QED
    BY <2>1, <2>2, <2>3, <2>4, <2>5
<1>9. /\ h.received[o].routing # Unresolved /\ h.received[o].routing # Inherit
      /\ h.received[o].routing.anchor = a
  BY <1>6, Routings
<1>10. end \in o..f.assigned /\ end \in Nat /\ end # f.accepted
  <2>1. end # f.accepted
    BY <1>8, <1>9
  <2> QED
    BY <1>1, <1>7, <2>1, SMTT(30)
<1>11. /\ \A i \in o + 1..end : i \in o..f.assigned /\ i # o /\ i \in o..end
       /\ \A i \in end + 1..f.assigned : i \in o..f.assigned /\ i # o
       /\ end + 1 # o /\ o \in o..end
       /\ end < f.assigned => end + 1 \in o..f.assigned
  BY <1>1, <1>2, <1>10, SMTT(30)
<1>12. \A i \in o + 1..end : h.received[i].routing = Inherit /\ f.received[i].routing = Inherit
  <2>1. \A i \in o..f.assigned : f.received[i].routing \in {Unresolved, Inherit}
    BY <1>1 DEF Entries
  <2>2. \A i \in o + 1..end : h.received[i] = f.received[i] /\ f.received[i].routing # Unresolved
    BY <1>5, <1>8, <1>11
  <2> QED
    BY <1>11, <2>1, <2>2
<1>13. g.anchor = a
  <2>1. \A m \in f.accepted + 1..end :
            /\ h.received[m].routing # Inherit
            /\ \A i \in m + 1..end : h.received[i].routing = Inherit
            => g.anchor = h.received[m].routing.anchor
    BY <1>5, <1>7 DEF IsDrain
  <2> QED
    BY <1>9, <1>11, <1>12, <2>1
<1>14. g.last = f.received[end].cursor
  <2>1. g.last = h.received[end].cursor
    BY <1>8, <1>10
  <2> QED
    BY <1>5, <1>6, <1>10, <2>1
<1>15. \A i \in end + 1..f.assigned : g.received[i] = f.received[i]
  BY <1>5, <1>8, <1>11
<1>16. IsFrontier(g)
  <2>1. g.received \in [end + 1..f.assigned -> Entries]
    <3>1. \A i \in end + 1..f.assigned : f.received[i] \in Entries
      BY <1>1, <1>11
    <3>2. \A i \in end + 1..f.assigned : h.received[i] \in Entries
      BY <1>5, <1>11, <3>1
    <3> QED
      BY <1>8, <3>2, PartReceived
  <2>2. g.last \in Nat
    <3>1. \A i \in o..f.assigned : f.received[i].cursor \in Nat
      BY <1>1 DEF Entries
    <3> QED
      BY <1>10, <1>14, <3>1
  <2>3. end <= f.assigned
    BY <1>1, <1>10, SMTT(30)
  <2>4. Shape(g) /\ g.base = f.base /\ g.assigned = f.assigned /\ g.accepted = end
    BY <1>8
  <2>5. g.anchor \in Anchors
    BY <1>13
  <2>6. g.received \in [g.accepted + 1..g.assigned -> Entries]
    BY <2>1, <2>4
  <2>7. g.base \in Nat /\ g.assigned \in Nat /\ g.accepted \in Nat /\ g.accepted <= g.assigned
    BY <1>1, <1>10, <2>3, <2>4
  <2> QED
    BY <2>2, <2>4, <2>5, <2>6, <2>7 DEF IsFrontier
<1>17. end < f.assigned => f.received[end + 1].routing = Unresolved
  BY <1>5, <1>8, <1>11
<1>18. g.base = f.base /\ g.assigned = f.assigned /\ g.accepted = end
  BY <1>8
<1>19. \A i \in f.accepted + 2..end : f.received[i].routing = Inherit
  <2>1. o + 1 = f.accepted + 2
    BY <1>1, SMTT(30)
  <2> QED
    BY <1>12, <2>1
<1> QED
  BY <1>10, <1>13, <1>14, <1>15, <1>16, <1>17, <1>18, <1>19 DEF IsAccept

-----------------------------------------------------------------------------
(* Beginnings.                                                             *)

\* The anchors that the model makes.
LEMMA AnchorFacts ==
    /\ NoAnchor \in Anchors /\ GenesisAnchor \in Anchors
    /\ NoAnchor.from = "none" /\ NoAnchor.secs = 0 /\ NoAnchor.src = 0
    /\ GenesisAnchor.from = "genesis" /\ GenesisAnchor.secs = Genesis
    /\ GenesisAnchor # NoAnchor
    /\ \A o \in Nat : \A e \in Events : \A from \in Froms :
          AnchorAt(o, e, from) \in Anchors
    /\ \A o, e, from : /\ AnchorAt(o, e, from).src = o /\ AnchorAt(o, e, from).secs = e.time
                       /\ AnchorAt(o, e, from).from = from
<1>1. /\ NoAnchor \in Anchors /\ NoAnchor.from = "none" /\ NoAnchor.secs = 0
      /\ NoAnchor.src = 0
  BY DEF NoAnchor, Anchors, Froms
<1>2. GenesisAnchor = [src |-> 0, num |-> 0, id |-> "none", secs |-> Genesis, from |-> "genesis"]
  <2> DEFINE a == [NoAnchor EXCEPT !.secs = Genesis]
  <2>1. a = [src |-> 0, num |-> 0, id |-> "none", secs |-> Genesis, from |-> "none"]
    BY SMTT(30) DEF NoAnchor
  <2>2. GenesisAnchor = [a EXCEPT !.from = "genesis"]
    BY DEF GenesisAnchor
  <2> HIDE DEF a
  <2> QED
    BY <2>1, <2>2
<1>3. /\ GenesisAnchor \in Anchors /\ GenesisAnchor.from = "genesis"
      /\ GenesisAnchor.secs = Genesis
  BY <1>2, StreamAssumption DEF Anchors, Froms
<1>4. \A o \in Nat : \A e \in Events : \A from \in Froms : AnchorAt(o, e, from) \in Anchors
  BY DEF AnchorAt, Anchors, Events
<1>5. \A o, e, from : /\ AnchorAt(o, e, from).src = o /\ AnchorAt(o, e, from).secs = e.time
                      /\ AnchorAt(o, e, from).from = from
  BY DEF AnchorAt
<1>6. GenesisAnchor # NoAnchor
  BY <1>1, <1>3
<1> QED
  BY <1>1, <1>3, <1>4, <1>5, <1>6, SMTT(30)

\* A session resumes with nothing received.
IsResume(d, f) ==
    /\ IsFrontier(f) /\ f.base = d.ordinal /\ f.assigned = d.ordinal
    /\ f.accepted = d.ordinal /\ f.last = d.cursor /\ f.anchor = d.anchor
    /\ f.accepted + 1..f.assigned = {}

\* Resuming a checkpoint.
LEMMA ResumeFields ==
    ASSUME NEW d \in CheckpointSet
    PROVE  IsResume(d, Resume(d))
<1> DEFINE f == Resume(d)
<1>1. d.ordinal \in Nat /\ d.cursor \in Nat /\ d.anchor \in Anchors
  BY DEF CheckpointSet
<1>2. f = Record(d.ordinal, d.ordinal, d.ordinal, d.cursor, d.anchor, <<>>)
  BY DEF Resume, Record
<1>3. Fields(f, d.ordinal, d.ordinal, d.ordinal, d.cursor, d.anchor, <<>>)
  BY <1>2, FieldsOf
<1>4. d.ordinal + 1..d.ordinal = {} /\ d.ordinal <= d.ordinal
  BY <1>1, SMTT(30)
<1>5. <<>> \in [d.ordinal + 1..d.ordinal -> Entries]
  BY <1>4, SMTT(30)
<1> HIDE DEF f
<1>6. /\ f.base = d.ordinal /\ f.assigned = d.ordinal
      /\ f.accepted = d.ordinal /\ f.last = d.cursor /\ f.anchor = d.anchor
      /\ f.received = <<>> /\ Shape(f)
  BY <1>3 DEF Fields
<1>7. IsFrontier(f)
  BY <1>1, <1>4, <1>5, <1>6 DEF IsFrontier
<1> QED
  BY <1>4, <1>6, <1>7 DEF IsResume, f

\* The initial checkpoint.
LEMMA OriginFacts ==
    /\ Origin \in CheckpointSet /\ Origin.ordinal = 0 /\ Origin.cursor = 0
    /\ Origin.anchor = NoAnchor /\ Origin.completed = 0
  BY AnchorFacts DEF Origin, CheckpointSet

\* Before anything is received or stored.
LEMMA OriginOK ==
    ASSUME Laws, NEW s \in Streams, NEW fd \in s.feeds
    PROVE  /\ Durable(s, fd, Origin, <<>>)
           /\ Session(s, fd, 0, Resume(Origin), 0)
<1> DEFINE f == Resume(Origin)
<1>1. /\ IsFrontier(f) /\ f.assigned = 0 /\ f.accepted = 0 /\ f.last = 0 /\ f.anchor = NoAnchor
      /\ f.accepted + 1..f.assigned = {}
  BY OriginFacts, ResumeFields DEF IsResume
<1>2. fd \in Seq(Events) /\ Len(fd) \in Nat /\ Ordinal(fd, 0) = 0 /\ 0 \in 0..Len(fd)
      /\ s.policy \in {"lookahead", "last_known"}
  <2>1. fd \in Seq(Events) /\ Len(fd) \in Nat /\ s.policy \in {"lookahead", "last_known"}
    BY FeedFacts
  <2>2. 0 \in 0..Len(fd)
    BY <2>1, SMTT(30)
  <2> QED
    BY <2>1, <2>2, OrdinalFacts
<1> HIDE DEF f
<1>3. FrontierOK(s, fd, f, 0)
  BY <1>1, <1>2, SMTT(30) DEF FrontierOK
<1>4. AnchorOK(s, fd, f, 0)
  <2>1. NoAnchor.from = "none"
    BY AnchorFacts
  <2> QED
    BY <1>1, <1>2, <2>1 DEF AnchorOK
<1>5. RoutingOK(s, fd, f)
  <2>1. KnownAt(s, fd, 0, Genesis)
    BY SMTT(30) DEF KnownAt
  <2>2. Known(NoAnchor) = Genesis
    BY DEF Known
  <2> QED
    BY <1>1, <2>1, <2>2 DEF RoutingOK
<1>6. CountOK(fd, 0, f, 0)
  BY <1>1, <1>2 DEF CountOK
<1>7. RowsOK(s, fd, <<>>, 0) /\ RoutedOK(s, fd, f, <<>>)
  BY SMTT(30) DEF RowsOK, RoutedOK
<1>8. Durable(s, fd, Origin, <<>>)
  BY <1>1, <1>3, <1>4, <1>5, <1>7, OriginFacts DEF Durable, f
<1> QED
  BY <1>1, <1>3, <1>4, <1>5, <1>6, <1>8 DEF Session, f

\* A new runtime holds nothing.
LEMMA NewRunOK ==
    ASSUME NEW s, NEW fd, NEW f, NEW at, IsFrontier(f), f.assigned = f.accepted,
           at # "observing"
    PROVE  Runtime(s, fd, f, NewRun(f.anchor), at)
<1> DEFINE r == NewRun(f.anchor)
<1>1. /\ r.buffer = <<>> /\ r.work = <<>> /\ r.rows = <<>>
      /\ r.known = IF f.anchor = NoAnchor THEN Genesis ELSE f.anchor.secs
  BY DEF NewRun
<1> HIDE DEF r
<1>2. Waits(f) = {}
  BY SMTT(30) DEF Waits, IsFrontier
<1>3. QueueOK(f, r)
  BY <1>1, <1>2, SMTT(30) DEF QueueOK
<1>4. KnownOK(s, f, r)
  BY <1>1 DEF KnownOK, Known
<1>5. HoldOK(s, fd, f, r) /\ ReadyOK(s, fd, f, r) /\ PlaceOK(at, r) /\ DayOK(r)
  BY <1>1 DEF HoldOK, ReadyOK, PlaceOK, DayOK
<1> QED
  BY <1>3, <1>4, <1>5 DEF Runtime, r

\* Events without a time of their own change no routing.
LEMMA AdvanceUndated ==
    ASSUME NEW s, NEW fd \in Seq(Events), NEW m \in 0..Len(fd), NEW l \in 0..m,
           \A q \in l + 1..m : ~Dated(s, fd[q])
    PROVE  /\ \A t : KnownAt(s, fd, l, t) => KnownAt(s, fd, m, t)
           /\ \A t : AheadAt(s, fd, l, t) => AheadAt(s, fd, m, t)
<1>1. Len(fd) \in Nat /\ m \in Nat /\ l \in Nat /\ l <= m
  BY SMTT(30)
<1>2. /\ \A q \in 1..l : q \in 1..m
      /\ \A q \in 1..m : q \in 1..l \/ q \in l + 1..m
      /\ \A q : \A r \in q + 1..m : q \in 1..l => r \in q + 1..l \/ r \in l + 1..m
  BY <1>1, SMTT(30)
<1>3. ASSUME NEW t, KnownAt(s, fd, l, t)
      PROVE  KnownAt(s, fd, m, t)
  BY <1>2, <1>3 DEF KnownAt
<1>4. ASSUME NEW t, AheadAt(s, fd, l, t)
      PROVE  AheadAt(s, fd, m, t)
  <2>1. PICK q \in l + 1..Len(fd) : /\ Dated(s, fd[q]) /\ t = fd[q].time
                                    /\ \A r \in l + 1..q - 1 : ~Dated(s, fd[r])
    BY <1>4 DEF AheadAt
  <2>2. ~(q \in l + 1..m)
    BY <2>1
  <2>3. q \in m + 1..Len(fd) /\ \A r \in m + 1..q - 1 : r \in l + 1..q - 1
    BY <1>1, <2>2, SMTT(30)
  <2> QED
    BY <2>1, <2>3 DEF AheadAt
<1> QED
  BY <1>3, <1>4

-----------------------------------------------------------------------------
(* Accepting a mapped block.                                               *)

\* The block w, at p, is the event that the session accepts next.
HeadIs(s, fd, f, c, w, p) ==
    /\ f.accepted < f.assigned /\ w.ord = f.accepted + 1
    /\ w.ord \in f.accepted + 1..f.assigned /\ p = f.received[w.ord].cursor
    /\ p \in f.last + 1..c /\ p \in 1..Len(fd) /\ EventIs(fd, w.ord, p) /\ Wanted(s, fd[p])

\* Events that wait are wanted, others are not.
LEMMA WaitsWanted ==
    ASSUME NEW s, NEW fd, NEW f, NEW c, FrontierOK(s, fd, f, c),
           NEW o \in f.accepted + 1..f.assigned
    PROVE  /\ o \in Waits(f) <=> Wanted(s, fd[f.received[o].cursor])
           /\ f.received[o].cursor \in f.last + 1..c
           /\ EventIs(fd, o, f.received[o].cursor)
<1>1. /\ f.received[o].cursor \in f.last + 1..c /\ EventIs(fd, o, f.received[o].cursor)
      /\ f.received[o].routing =
            IF Wanted(s, fd[f.received[o].cursor]) THEN Unresolved ELSE Inherit
  BY DEF FrontierOK
<1> QED
  BY <1>1, Routings DEF Waits

\* The block at hand is the event that the session accepts next.
LEMMA HeadFacts ==
    ASSUME NEW s, NEW fd, NEW f, NEW c, NEW r, IsFrontier(f), FrontierOK(s, fd, f, c),
           QueueOK(f, r), r.work \in Seq(ReadySet), r.work # <<>>
    PROVE  HeadIs(s, fd, f, c, r.work[1], f.received[f.accepted + 1].cursor)
<1> DEFINE w == r.work[1]
           first == f.accepted + 1
<1>1. f.assigned \in Nat /\ f.accepted \in Nat /\ f.accepted <= f.assigned
  BY DEF IsFrontier
<1>2. DOMAIN r.work = 1..Len(r.work) /\ Len(r.work) \in Nat /\ 1 \in DOMAIN r.work
  BY SMTT(30)
<1>3. r.buffer = <<>> /\ DOMAIN r.buffer = {}
  BY SMTT(30) DEF QueueOK
<1>4. \A i \in DOMAIN r.work : /\ r.work[i].ord \in Waits(f)
                               /\ r.work[i].ord \in first..f.assigned
  BY DEF QueueOK, Waits
<1>5. f.accepted < f.assigned /\ first \in first..f.assigned
  BY <1>1, <1>2, <1>4, SMTT(30)
<1>6. first \in Waits(f)
  BY <1>5 DEF FrontierOK, Waits
<1>7. PICK i \in DOMAIN r.work : r.work[i].ord = first
  BY <1>3, <1>6 DEF QueueOK
<1>8. i = 1 \/ r.work[1].ord < r.work[i].ord
  <2>1. i = 1 \/ 1 < i
    BY <1>2, SMTT(30)
  <2> QED
    BY <1>2, <2>1 DEF QueueOK
<1>9. w.ord = first
  BY <1>1, <1>2, <1>4, <1>7, <1>8, SMTT(30)
<1>10. /\ Wanted(s, fd[f.received[first].cursor])
       /\ f.received[first].cursor \in f.last + 1..c
       /\ EventIs(fd, first, f.received[first].cursor)
  BY <1>5, <1>6, WaitsWanted
<1>11. f.received[first].cursor \in 1..Len(fd)
  BY <1>10 DEF EventIs
<1> QED
  BY <1>5, <1>9, <1>10, <1>11 DEF HeadIs

\* What is received up to ordinal o is what the feed holds up to its event.
ReceivedAt(fd, f, o, x) ==
    \E i \in f.accepted + 1..o : x = f.received[i].cursor /\ i = Ordinal(fd, x)

\* An event up to a received one is received.
LEMMA Between ==
    ASSUME Laws, NEW s, NEW fd \in Seq(Events), NEW f, NEW c, IsFrontier(f), FrontierOK(s, fd, f, c),
           NEW o \in f.accepted + 1..f.assigned,
           NEW x \in f.last + 1..f.received[o].cursor, fd[x].block
    PROVE  ReceivedAt(fd, f, o, x)
<1> DEFINE p == f.received[o].cursor
           i == Ordinal(fd, x)
<1>1. f.assigned \in Nat /\ f.accepted \in Nat /\ f.accepted <= f.assigned /\ Len(fd) \in Nat
  BY SMTT(30) DEF IsFrontier
<1>2. p \in f.last + 1..c /\ EventIs(fd, o, p)
  BY WaitsWanted
<1>3. f.last \in 0..c /\ c \in 0..Len(fd) /\ f.accepted = Ordinal(fd, f.last)
  BY DEF FrontierOK
<1>4. p \in 1..Len(fd) /\ Ordinal(fd, p) = o /\ p \in 0..Len(fd)
  BY <1>2, SMTT(30) DEF EventIs
<1> HIDE DEF p
<1>5. x \in f.last + 1..p
  BY DEF p
<1>6. /\ x \in 1..Len(fd) /\ x \in 0..Len(fd) /\ f.last \in 0..Len(fd)
      /\ f.last < x /\ f.last <= x /\ x <= p
  BY <1>1, <1>3, <1>4, <1>5, SMTT(30)
<1>7. f.accepted < i /\ i <= o
  BY <1>3, <1>4, <1>6, OrdinalOrder
<1>8. i \in Nat
  BY <1>6, OrdinalFacts
<1> HIDE DEF i
<1>9. i \in f.accepted + 1..o /\ i \in f.accepted + 1..f.assigned
  BY <1>1, <1>7, <1>8, SMTT(30)
<1>10. EventIs(fd, i, x)
  BY <1>6 DEF EventIs, i
<1>11. EventIs(fd, i, f.received[i].cursor)
  BY <1>9, WaitsWanted
<1>12. x = f.received[i].cursor
  BY <1>10, <1>11, EventUnique
<1> QED
  BY <1>9, <1>12 DEF i, ReceivedAt

\* Accepting w takes the frontier over its event and over filtered ones.
LEMMA AcceptSpan ==
    ASSUME Laws, NEW s, NEW fd \in Seq(Events), NEW f, NEW c, NEW w, NEW p, NEW a, NEW g,
           IsFrontier(f), FrontierOK(s, fd, f, c), HeadIs(s, fd, f, c, w, p),
           NEW end \in f.accepted + 1..f.assigned, IsAccept(f, a, g, end)
    PROVE  /\ f.last \in Nat /\ p \in Nat /\ g.last \in Nat /\ c \in 0..Len(fd)
           /\ f.last < p /\ p <= g.last /\ g.last <= c
           /\ g.last \in 1..Len(fd) /\ EventIs(fd, end, g.last)
           /\ \A x \in f.last + 1..p - 1 : ~Wanted(s, fd[x])
           /\ \A x \in p + 1..g.last : ~Wanted(s, fd[x])
<1> DEFINE q == g.last
           o == f.accepted + 1
<1>1. /\ f.assigned \in Nat /\ f.accepted \in Nat /\ f.accepted <= f.assigned /\ Len(fd) \in Nat
      /\ f.last \in Nat
  BY SMTT(30) DEF IsFrontier
<1>2. f.last \in 0..c /\ c \in 0..Len(fd)
  BY DEF FrontierOK
<1>3. /\ p = f.received[o].cursor /\ p \in f.last + 1..c /\ EventIs(fd, o, p)
      /\ w.ord = o /\ o \in o..f.assigned
  BY DEF HeadIs
<1>4. q = f.received[end].cursor /\ \A i \in f.accepted + 2..end : f.received[i].routing = Inherit
  BY DEF IsAccept
<1>5. q \in f.last + 1..c /\ EventIs(fd, end, q)
  BY <1>4, WaitsWanted
<1>6. q \in 1..Len(fd) /\ q \in 0..Len(fd) /\ Ordinal(fd, q) = end
  BY <1>5, SMTT(30) DEF EventIs
<1> HIDE DEF q
<1>7. p \in Nat /\ q \in Nat /\ f.last < p /\ q <= c
  BY <1>1, <1>2, <1>3, <1>5, SMTT(30)
<1>8. p <= q
  <2>1. p > q <=> o > end
    BY <1>3, <1>6, EventAfter, SMTT(30)
  <2> QED
    BY <1>1, <1>7, <2>1, SMTT(30)
<1>9. ASSUME NEW x \in f.last + 1..p - 1, Wanted(s, fd[x])
      PROVE  FALSE
  <2>1. fd[x].block
    BY <1>9 DEF Wanted
  <2>2. x \in f.last + 1..f.received[o].cursor
    BY <1>1, <1>3, <1>7, SMTT(30)
  <2>3. PICK i \in f.accepted + 1..o : x = f.received[i].cursor
    <3>1. o \in f.accepted + 1..f.assigned
      BY <1>3
    <3>2. ReceivedAt(fd, f, o, x)
      BY <2>1, <2>2, <3>1, Between
    <3> QED
      BY <3>2 DEF ReceivedAt
  <2>4. i = o
    BY <1>1, SMTT(30)
  <2> QED
    BY <1>3, <1>7, <2>3, <2>4, SMTT(30)
<1>10. ASSUME NEW x \in p + 1..q, Wanted(s, fd[x])
       PROVE  FALSE
  <2>1. fd[x].block
    BY <1>10 DEF Wanted
  <2>2. x \in f.last + 1..f.received[end].cursor
    BY <1>1, <1>4, <1>7, SMTT(30)
  <2>3. PICK i \in f.accepted + 1..end : x = f.received[i].cursor
    <3>1. ReceivedAt(fd, f, end, x)
      BY <2>1, <2>2, Between
    <3> QED
      BY <3>1 DEF ReceivedAt
  <2>4. i # o
    BY <1>3, <1>7, <2>3, SMTT(30)
  <2>5. i \in f.accepted + 2..end /\ i \in f.accepted + 1..f.assigned
    BY <1>1, <2>4, SMTT(30)
  <2>6. f.received[i].routing = Inherit
    BY <1>4, <2>5
  <2>7. i \notin Waits(f)
    BY <2>6, Routings DEF Waits
  <2> QED
    BY <1>10, <2>3, <2>5, <2>7, WaitsWanted
<1> QED
  BY <1>1, <1>2, <1>5, <1>6, <1>7, <1>8, <1>9, <1>10 DEF q

\* The frontier still agrees with the feed once a mapped event is accepted.
LEMMA AcceptFrontier ==
    ASSUME Laws, NEW s, NEW fd \in Seq(Events), NEW f, NEW c, NEW w, NEW p, NEW a, NEW g,
           IsFrontier(f), FrontierOK(s, fd, f, c), HeadIs(s, fd, f, c, w, p),
           NEW end \in f.accepted + 1..f.assigned, IsAccept(f, a, g, end)
    PROVE  FrontierOK(s, fd, g, c)
<1>1. /\ f.assigned \in Nat /\ f.accepted \in Nat /\ f.accepted <= f.assigned /\ Len(fd) \in Nat
  BY SMTT(30) DEF IsFrontier
<1>2. /\ g.last \in Nat /\ c \in 0..Len(fd) /\ g.last <= c
      /\ g.last \in 1..Len(fd) /\ EventIs(fd, end, g.last)
  BY AcceptSpan
<1>3. /\ g.assigned = f.assigned /\ g.accepted = end
      /\ end < f.assigned => f.received[end + 1].routing = Unresolved
      /\ \A i \in end + 1..f.assigned : g.received[i] = f.received[i]
  BY DEF IsAccept
<1>4. g.accepted = Ordinal(fd, g.last) /\ fd[g.last].block
  BY <1>2, <1>3 DEF EventIs
<1>5. ASSUME NEW o \in end + 1..f.assigned
      PROVE  LET x == g.received[o].cursor
             IN  /\ x \in g.last + 1..c /\ EventIs(fd, o, x)
                 /\ g.received[o].routing = IF Wanted(s, fd[x]) THEN Unresolved ELSE Inherit
  <2> DEFINE x == f.received[o].cursor
  <2>1. o \in f.accepted + 1..f.assigned
    BY <1>1, SMTT(30)
  <2>2. /\ x \in f.last + 1..c /\ EventIs(fd, o, x)
        /\ f.received[o].routing = IF Wanted(s, fd[x]) THEN Unresolved ELSE Inherit
    BY <2>1 DEF FrontierOK
  <2>3. g.received[o] = f.received[o]
    BY <1>3
  <2> HIDE DEF x
  <2>4. x > g.last
    <3>1. g.last \in 0..Len(fd) /\ Ordinal(fd, g.last) = end
      BY <1>2, <1>3, <1>4, SMTT(30)
    <3>2. o > end
      BY <1>1, SMTT(30)
    <3> QED
      BY <2>2, <3>1, <3>2, EventAfter
  <2>5. x \in g.last + 1..c
    BY <1>2, <2>2, <2>4, SMTT(30)
  <2> QED
    BY <2>2, <2>3, <2>5 DEF x
<1>6. g.accepted < g.assigned => g.received[g.accepted + 1].routing = Unresolved
  <2>1. end < f.assigned => end + 1 \in end + 1..f.assigned
    BY <1>1, SMTT(30)
  <2> QED
    BY <1>3, <2>1
<1>7. g.last \in 0..c
  BY <1>2, SMTT(30)
<1> QED
  BY <1>2, <1>3, <1>4, <1>5, <1>6, <1>7 DEF FrontierOK

\* What still waits.
LEMMA AcceptWaits ==
    ASSUME NEW f, NEW a, NEW g, IsFrontier(f), NEW end \in f.accepted + 1..f.assigned,
           IsAccept(f, a, g, end)
    PROVE  /\ \A o : o \in Waits(g) <=> o \in Waits(f) /\ o # f.accepted + 1
           /\ \A o \in Waits(g) : g.received[o] = f.received[o]
           /\ \A o \in Waits(f) : o # f.accepted + 1 => o > end
<1>1. /\ f.assigned \in Nat /\ f.accepted \in Nat /\ f.accepted <= f.assigned
  BY DEF IsFrontier
<1>2. /\ g.assigned = f.assigned /\ g.accepted = end
      /\ \A i \in f.accepted + 2..end : f.received[i].routing = Inherit
      /\ \A i \in end + 1..f.assigned : g.received[i] = f.received[i]
  BY DEF IsAccept
<1>3. ASSUME NEW o \in Waits(f), o # f.accepted + 1
      PROVE  o \in end + 1..f.assigned
  <2>1. o \in f.accepted + 1..f.assigned /\ f.received[o].routing # Inherit
    BY Routings DEF Waits
  <2>2. o \notin f.accepted + 2..end
    BY <1>2, <2>1
  <2> QED
    BY <1>1, <1>3, <2>1, <2>2, SMTT(30)
<1>4. \A o \in end + 1..f.assigned : /\ o \in f.accepted + 1..f.assigned
                                     /\ o # f.accepted + 1 /\ o > end
  BY <1>1, SMTT(30)
<1>5. \A o : o \in Waits(g) <=> o \in Waits(f) /\ o # f.accepted + 1
  BY <1>2, <1>3, <1>4 DEF Waits
<1>6. \A o \in Waits(g) : g.received[o] = f.received[o]
  BY <1>2 DEF Waits
<1> QED
  BY <1>3, <1>4, <1>5, <1>6

\* MappedAnchor, for any stream and feed.
MappedTo(s, fd, f, w, a) ==
    LET e == fd[f.received[w.ord].cursor]
    IN  IF s.policy = "last_known"
        THEN /\ e.time # 0 => a = AnchorAt(w.ord, e, "accepted")
             /\ e.time = 0 /\ f.anchor # NoAnchor => a = f.anchor
             /\ e.time = 0 /\ f.anchor = NoAnchor => a = GenesisAnchor
        ELSE /\ e.time # 0 => a = NoAnchor
             /\ e.time = 0 /\ w.look # 0 =>
                   a = AnchorAt(w.look, fd[f.received[w.look].cursor], "lookahead")
             /\ e.time = 0 /\ w.look = 0 => a = f.anchor

\* The five ways in which the block w, at p, is routed and anchored by a: it
\* has a time, or takes the last known one; it has a time, or it was held and
\* takes that of the block z, or that of the restored anchor.
Own(s, fd, work, p, a) ==
    /\ s.policy = "last_known" /\ Len(work) = 1 /\ work[1].look = 0
    /\ fd[p].time # 0 /\ work[1].time = fd[p].time
    /\ a = AnchorAt(work[1].ord, fd[p], "accepted")

LastKnown(s, fd, f, work, p, a) ==
    /\ s.policy = "last_known" /\ Len(work) = 1 /\ work[1].look = 0
    /\ fd[p].time = 0 /\ work[1].time = Known(f.anchor)
    /\ a # NoAnchor /\ a.secs = work[1].time
    /\ a = f.anchor \/ a = GenesisAnchor

Timed(s, fd, work, p, a) ==
    /\ s.policy = "lookahead" /\ Len(work) = 1 /\ work[1].look = 0
    /\ fd[p].time # 0 /\ work[1].time = fd[p].time /\ a = NoAnchor

Held(s, fd, f, work, p, a, z) ==
    /\ s.policy = "lookahead" /\ Len(work) > 1 /\ work[1].look = z
    /\ work[Len(work)].ord = z /\ z \in Waits(f) /\ z > work[1].ord
    /\ fd[p].time = 0 /\ fd[f.received[z].cursor].time # 0
    /\ work[1].time = fd[f.received[z].cursor].time
    /\ a = AnchorAt(z, fd[f.received[z].cursor], "lookahead")
    /\ f.anchor \in {NoAnchor, a}
    /\ \A o \in Waits(f) : o < z => fd[f.received[o].cursor].time = 0

Restored(s, fd, f, work, p, a) ==
    /\ s.policy = "lookahead" /\ Len(work) = 1 /\ work[1].look = 0
    /\ fd[p].time = 0 /\ a = f.anchor /\ a # NoAnchor /\ a.from = "lookahead"
    /\ work[1].time = a.secs

Routed(s, fd, f, work, p, a) ==
    \/ Own(s, fd, work, p, a) \/ LastKnown(s, fd, f, work, p, a)
    \/ Timed(s, fd, work, p, a) \/ (\E z \in Nat : Held(s, fd, f, work, p, a, z))
    \/ Restored(s, fd, f, work, p, a)

\* A block at hand is routed in one of the five ways.
LEMMA RouteCases ==
    ASSUME NEW s, NEW fd, NEW f, NEW c, NEW r, NEW p, NEW a, IsFrontier(f), AnchorOK(s, fd, f, c),
           s.policy \in {"lookahead", "last_known"}, QueueOK(f, r), ReadyOK(s, fd, f, r),
           r.work \in Seq(ReadySet), r.work # <<>>, HeadIs(s, fd, f, c, r.work[1], p),
           MappedTo(s, fd, f, r.work[1], a), s.policy = "last_known" \/ r.work[1].time # 0
    PROVE  Routed(s, fd, f, r.work, p, a)
<1> DEFINE work == r.work
           w == work[1]
           n == Len(work)
           z == work[n].ord
           Event(o) == fd[f.received[o].cursor]
<1>1. p = f.received[w.ord].cursor
  BY DEF HeadIs
<1>2. n \in Nat /\ n >= 1 /\ DOMAIN work = 1..n /\ n \in 1..n /\ 1 \in 1..n
  BY SMTT(30)
<1>3. /\ \A i \in 1..n - 1 : /\ work[i].look = z /\ work[i].time = work[n].time
                             /\ Event(work[i].ord).time = 0
      /\ work[n].look = 0
      /\ IF Event(z).time # 0 THEN work[n].time = Event(z).time
         ELSE /\ n = 1
              /\ s.policy = "last_known" => work[n].time = Known(f.anchor)
              /\ s.policy = "lookahead" =>
                    work[n].time = 0 \/ (f.anchor # NoAnchor /\ work[n].time = f.anchor.secs)
      /\ n > 1 => /\ s.policy = "lookahead"
                  /\ f.anchor \in {NoAnchor, AnchorAt(z, Event(z), "lookahead")}
  BY DEF ReadyOK
<1>4. Event(w.ord) = fd[p]
  BY <1>1
<1>5. /\ \A i \in 1..n : work[i].ord \in Waits(f) /\ work[i].ord \in Nat
      /\ \A i, j \in 1..n : i < j => work[i].ord < work[j].ord
      /\ \A o \in Waits(f) : o \in Nat /\ \E i \in 1..n : work[i].ord = o
  <2>1. \A o \in Waits(f) : o \in Nat
    BY SMTT(30) DEF Waits, IsFrontier
  <2>2. r.buffer = <<>> /\ DOMAIN r.buffer = {}
    BY SMTT(30) DEF QueueOK
  <2>3. \A o \in Waits(f) : \E i \in 1..n : work[i].ord = o
    BY <1>2, <2>2 DEF QueueOK
  <2>4. \A i \in 1..n : work[i].ord \in Waits(f)
    BY <1>2 DEF QueueOK
  <2>5. \A i, j \in 1..n : i < j => work[i].ord < work[j].ord
    BY <1>2 DEF QueueOK
  <2> QED
    BY <2>1, <2>3, <2>4, <2>5
<1>6. /\ f.anchor.from = "none" => f.anchor = NoAnchor
      /\ s.policy = "lookahead" => f.anchor.from \in {"none", "lookahead"}
  BY DEF AnchorOK
<1>7. /\ s.policy = "last_known" =>
            /\ fd[p].time # 0 => a = AnchorAt(w.ord, fd[p], "accepted")
            /\ fd[p].time = 0 /\ f.anchor # NoAnchor => a = f.anchor
            /\ fd[p].time = 0 /\ f.anchor = NoAnchor => a = GenesisAnchor
      /\ s.policy = "lookahead" =>
            /\ fd[p].time # 0 => a = NoAnchor
            /\ fd[p].time = 0 /\ w.look # 0 => a = AnchorAt(w.look, Event(w.look), "lookahead")
            /\ fd[p].time = 0 /\ w.look = 0 => a = f.anchor
  BY <1>1 DEF MappedTo
<1> HIDE DEF work, n, z, Event
<1>8. CASE n > 1
  <2>1. 1 \in 1..n - 1
    BY <1>2, <1>8, SMTT(30)
  <2>2. /\ w.look = z /\ w.time = work[n].time /\ fd[p].time = 0 /\ s.policy = "lookahead"
        /\ Event(z).time # 0 /\ work[n].time = Event(z).time
    BY <1>2, <1>3, <1>4, <1>8, <2>1, SMTT(30)
  <2>3. z \in Waits(f) /\ z \in Nat /\ z > w.ord /\ w.ord \in Nat
    BY <1>2, <1>5, <1>8 DEF z
  <2>4. z # 0
    BY <2>3, SMTT(30)
  <2>5. a = AnchorAt(z, Event(z), "lookahead") /\ f.anchor \in {NoAnchor, a}
    BY <1>3, <1>7, <1>8, <2>2, <2>4
  <2>6. ASSUME NEW o \in Waits(f), o < z
        PROVE  Event(o).time = 0
    <3>1. PICK i \in 1..n : work[i].ord = o
      BY <1>5
    <3>2. i # n /\ o \in Nat
      BY <1>5, <2>3, <2>6, <3>1, SMTT(30) DEF z
    <3>3. i \in 1..n - 1
      BY <1>2, <3>2, SMTT(30)
    <3> QED
      BY <1>3, <3>1, <3>3
  <2>7. Held(s, fd, f, work, p, a, z)
    <3>1. n > 1 /\ work[n].ord = z
      BY <1>8 DEF z
    <3> QED
      BY <2>2, <2>3, <2>5, <2>6, <3>1 DEF Held, n, Event
  <2> QED
    BY <2>3, <2>7 DEF Routed, work
<1>9. CASE n = 1
  <2>1. z = w.ord /\ work[n] = w
    BY <1>9 DEF z
  <2>2. w.look = 0 /\ Event(z) = fd[p]
    BY <1>3, <1>4, <2>1
  <2>3. CASE s.policy = "last_known" /\ fd[p].time # 0
    <3>1. w.time = fd[p].time
      BY <1>3, <2>1, <2>2, <2>3
    <3>2. Own(s, fd, work, p, a)
      BY <1>7, <1>9, <2>2, <2>3, <3>1 DEF Own, n
    <3> QED
      BY <3>2 DEF Routed, work
  <2>4. CASE s.policy = "last_known" /\ fd[p].time = 0
    <3>1. w.time = Known(f.anchor)
      BY <1>3, <2>1, <2>2, <2>4
    <3>2. a # NoAnchor /\ a.secs = Known(f.anchor) /\ (a = f.anchor \/ a = GenesisAnchor)
      BY <1>7, <2>4, AnchorFacts DEF Known
    <3>3. LastKnown(s, fd, f, work, p, a)
      BY <1>9, <2>2, <2>4, <3>1, <3>2 DEF LastKnown, n
    <3> QED
      BY <3>3 DEF Routed, work
  <2>5. CASE s.policy = "lookahead" /\ fd[p].time # 0
    <3>1. w.time = fd[p].time
      BY <1>3, <2>1, <2>2, <2>5
    <3>2. Timed(s, fd, work, p, a)
      BY <1>7, <1>9, <2>2, <2>5, <3>1 DEF Timed, n
    <3> QED
      BY <3>2 DEF Routed, work
  <2>6. CASE s.policy = "lookahead" /\ fd[p].time = 0
    <3>1. w.time # 0
      BY <2>6 DEF work
    <3>2. f.anchor # NoAnchor /\ w.time = f.anchor.secs
      BY <1>3, <2>1, <2>2, <2>6, <3>1
    <3>3. a = f.anchor /\ a.from = "lookahead"
      BY <1>6, <1>7, <2>2, <2>6, <3>2
    <3>4. Restored(s, fd, f, work, p, a)
      BY <1>9, <2>2, <2>6, <3>2, <3>3 DEF Restored, n
    <3> QED
      BY <3>4 DEF Routed, work
  <2> QED
    BY <2>3, <2>4, <2>5, <2>6
<1> QED
  BY <1>2, <1>8, <1>9, SMTT(30)

\* The block at hand is accepted.
Accepting(s, fd, f, c, work, p, a, g, end) ==
    /\ fd \in Seq(Events) /\ IsFrontier(f) /\ FrontierOK(s, fd, f, c) /\ AnchorOK(s, fd, f, c)
    /\ HeadIs(s, fd, f, c, work[1], p) /\ Routed(s, fd, f, work, p, a)
    /\ end \in f.accepted + 1..f.assigned /\ IsAccept(f, a, g, end)

\* What accepting the block at hand passes over.
LEMMA AcceptingSpan ==
    ASSUME Laws, NEW s, NEW fd, NEW f, NEW c, NEW work, NEW p, NEW a, NEW g, NEW end,
           Accepting(s, fd, f, c, work, p, a, g, end)
    PROVE  /\ f.last \in Nat /\ p \in Nat /\ g.last \in Nat /\ c \in Nat /\ Len(fd) \in Nat
           /\ f.last < p /\ p <= g.last /\ g.last <= c /\ c <= Len(fd)
           /\ EventIs(fd, f.accepted + 1, p) /\ Wanted(s, fd[p]) /\ work[1].ord = f.accepted + 1
           /\ \A x \in f.last + 1..p - 1 : ~Wanted(s, fd[x])
           /\ \A x \in p + 1..g.last : ~Wanted(s, fd[x])
           /\ g.anchor = a /\ g.assigned = f.assigned
<1>1. /\ f.last \in Nat /\ p \in Nat /\ g.last \in Nat /\ c \in 0..Len(fd)
      /\ f.last < p /\ p <= g.last /\ g.last <= c
      /\ \A x \in f.last + 1..p - 1 : ~Wanted(s, fd[x])
      /\ \A x \in p + 1..g.last : ~Wanted(s, fd[x])
  BY AcceptSpan DEF Accepting
<1>2. Len(fd) \in Nat
  BY SMTT(30) DEF Accepting
<1>3. c \in Nat /\ c <= Len(fd)
  BY <1>1, <1>2, SMTT(30)
<1>4. EventIs(fd, f.accepted + 1, p) /\ Wanted(s, fd[p]) /\ work[1].ord = f.accepted + 1
  BY DEF Accepting, HeadIs
<1>5. g.anchor = a /\ g.assigned = f.assigned
  BY DEF Accepting, IsAccept
<1> QED
  BY <1>1, <1>2, <1>3, <1>4, <1>5

\* The anchor of the accepted prefix.
LEMMA AcceptAnchor ==
    ASSUME Laws, NEW s, NEW fd, NEW f, NEW c, NEW work, NEW p, NEW a, NEW g, NEW end,
           Accepting(s, fd, f, c, work, p, a, g, end)
    PROVE  AnchorOK(s, fd, g, c)
<1> DEFINE Names(b, x) == EventIs(fd, b.src, x) /\ b = AnchorAt(b.src, fd[x], b.from)
<1>1. /\ f.last \in Nat /\ p \in Nat /\ g.last \in Nat /\ c \in Nat
      /\ f.last < p /\ p <= g.last /\ g.last <= c
      /\ EventIs(fd, f.accepted + 1, p) /\ work[1].ord = f.accepted + 1
      /\ g.anchor = a /\ g.assigned = f.assigned
  BY AcceptingSpan, SMTT(30)
<1>2. p \in 1..g.last /\ \A x \in 1..f.last : x \in 1..g.last
  BY <1>1, SMTT(30)
<1>3. AnchorOK(s, fd, f, c)
  BY DEF Accepting
<1>4. CASE Own(s, fd, work, p, a)
  <2>1. s.policy = "last_known" /\ a = AnchorAt(f.accepted + 1, fd[p], "accepted")
    BY <1>1, <1>4 DEF Own
  <2>2. a.from = "accepted" /\ a.src = f.accepted + 1
    BY <2>1, AnchorFacts, SMTT(30)
  <2>3. Names(a, p)
    BY <1>1, <2>1, <2>2
  <2> QED
    BY <1>1, <1>2, <2>1, <2>2, <2>3 DEF AnchorOK
<1>5. CASE LastKnown(s, fd, f, work, p, a)
  <2>1. s.policy = "last_known" /\ (a = f.anchor \/ a = GenesisAnchor)
    BY <1>5 DEF LastKnown
  <2>2. CASE a = GenesisAnchor
    <3>1. a.from = "genesis"
      BY <2>2, AnchorFacts
    <3> QED
      BY <1>1, <2>1, <2>2, <3>1 DEF AnchorOK
  <2>3. CASE a = f.anchor
    <3>1. a.from \in {"none", "genesis", "accepted"}
      BY <1>3, <2>1, <2>3 DEF AnchorOK
    <3>2. a.from = "accepted" => \E x \in 1..g.last : Names(a, x)
      BY <1>2, <1>3, <2>3 DEF AnchorOK
    <3> QED
      BY <1>1, <1>3, <2>1, <2>3, <3>1, <3>2 DEF AnchorOK
  <2> QED
    BY <2>1, <2>2, <2>3
<1>6. CASE Timed(s, fd, work, p, a)
  <2>1. s.policy = "lookahead" /\ a = NoAnchor /\ a.from = "none"
    BY <1>6, AnchorFacts DEF Timed
  <2> QED
    BY <1>1, <2>1 DEF AnchorOK
<1>7. ASSUME NEW z \in Nat, Held(s, fd, f, work, p, a, z)
      PROVE  AnchorOK(s, fd, g, c)
  <2> DEFINE x == f.received[z].cursor
  <2>1. s.policy = "lookahead" /\ a = AnchorAt(z, fd[x], "lookahead") /\ z \in Waits(f)
    BY <1>7 DEF Held
  <2>2. a.from = "lookahead" /\ a.src = z
    BY <2>1, AnchorFacts, SMTT(30)
  <2>3. x \in f.last + 1..c /\ EventIs(fd, z, x)
    BY <2>1, WaitsWanted DEF Accepting, Waits
  <2> HIDE DEF x
  <2>4. x \in 1..c
    BY <1>1, <2>3, SMTT(30)
  <2>5. Names(a, x)
    BY <2>1, <2>2, <2>3
  <2> QED
    BY <1>1, <2>1, <2>2, <2>4, <2>5 DEF AnchorOK
<1>8. CASE Restored(s, fd, f, work, p, a)
  <2>1. s.policy = "lookahead" /\ a = f.anchor /\ a.from = "lookahead"
    BY <1>8 DEF Restored
  <2> QED
    BY <1>1, <1>3, <2>1 DEF AnchorOK
<1>9. Routed(s, fd, f, work, p, a)
  BY DEF Accepting
<1> QED
  BY <1>4, <1>5, <1>6, <1>7, <1>8, <1>9 DEF Routed

\* The first event with a time after a held block is the one it was given.
LEMMA HeldAhead ==
    ASSUME Laws, NEW s, NEW fd, NEW f, NEW c, NEW work, NEW p, NEW a, NEW g, NEW end,
           Accepting(s, fd, f, c, work, p, a, g, end),
           NEW z \in Nat, Held(s, fd, f, work, p, a, z)
    PROVE  AheadAt(s, fd, p, work[1].time)
<1> DEFINE x == f.received[z].cursor
<1>1. /\ f.last \in Nat /\ p \in Nat /\ c \in Nat /\ Len(fd) \in Nat /\ f.last < p /\ c <= Len(fd)
      /\ EventIs(fd, f.accepted + 1, p) /\ work[1].ord = f.accepted + 1
  BY AcceptingSpan, SMTT(30)
<1>2. /\ fd \in Seq(Events) /\ IsFrontier(f) /\ FrontierOK(s, fd, f, c)
  BY DEF Accepting
<1>3. /\ z \in Waits(f) /\ z > f.accepted + 1 /\ fd[x].time # 0 /\ work[1].time = fd[x].time
      /\ \A o \in Waits(f) : o < z => fd[f.received[o].cursor].time = 0
  BY <1>1 DEF Held
<1>4. z \in f.accepted + 1..f.assigned
  BY <1>3 DEF Waits
<1>5. Wanted(s, fd[x]) /\ x \in f.last + 1..c /\ EventIs(fd, z, x)
  BY <1>2, <1>3, <1>4, WaitsWanted
<1> HIDE DEF x
<1>6. x > p
  <2>1. p \in 0..Len(fd) /\ Ordinal(fd, p) = f.accepted + 1
    BY <1>1, SMTT(30) DEF EventIs
  <2> QED
    BY <1>2, <1>3, <1>5, <2>1, EventAfter, SMTT(30)
<1>7. x \in p + 1..Len(fd)
  BY <1>1, <1>5, <1>6, SMTT(30)
<1>8. ASSUME NEW y \in p + 1..x - 1, Dated(s, fd[y])
      PROVE  FALSE
  <2>1. Wanted(s, fd[y]) /\ fd[y].block /\ fd[y].time # 0
    BY <1>8 DEF Dated, Wanted
  <2>2. y \in f.last + 1..x /\ y # x
    BY <1>1, <1>5, <1>6, SMTT(30)
  <2>3. ReceivedAt(fd, f, z, y)
    BY <1>2, <1>4, <2>1, <2>2, Between DEF x
  <2>4. PICK i \in f.accepted + 1..z : y = f.received[i].cursor
    BY <2>3 DEF ReceivedAt
  <2>5. i # z
    BY <2>2, <2>4 DEF x
  <2>6. f.accepted \in Nat /\ f.assigned \in Nat
    BY <1>2 DEF IsFrontier
  <2>7. i \in f.accepted + 1..f.assigned /\ i < z
    BY <1>4, <2>5, <2>6, SMTT(30)
  <2>8. i \in Waits(f)
    BY <1>2, <2>1, <2>4, <2>7, WaitsWanted
  <2> QED
    BY <1>3, <2>1, <2>4, <2>7, <2>8
<1>9. Dated(s, fd[x])
  BY <1>3, <1>5 DEF Dated
<1> QED
  BY <1>3, <1>7, <1>8, <1>9 DEF AheadAt

\* The accepted block has the routing that the feed determines.
LEMMA AcceptRouting ==
    ASSUME Laws, NEW s, NEW fd, NEW f, NEW c, NEW work, NEW p, NEW a, NEW g, NEW end,
           Accepting(s, fd, f, c, work, p, a, g, end), RoutingOK(s, fd, f), s.final
    PROVE  TimeIs(s, fd, p, work[1].time) /\ RoutingOK(s, fd, g)
<1> DEFINE t == work[1].time
<1>1. /\ f.last \in Nat /\ p \in Nat /\ g.last \in Nat /\ c \in Nat /\ Len(fd) \in Nat
      /\ f.last < p /\ p <= g.last /\ g.last <= c /\ c <= Len(fd)
      /\ Wanted(s, fd[p]) /\ g.anchor = a
      /\ \A x \in f.last + 1..p - 1 : ~Wanted(s, fd[x])
      /\ \A x \in p + 1..g.last : ~Wanted(s, fd[x])
  BY AcceptingSpan, SMTT(30)
<1>2. fd \in Seq(Events)
  BY DEF Accepting
<1>3. /\ p \in 1..g.last /\ p - 1 \in 0..Len(fd) /\ f.last \in 0..p - 1 /\ p \in 0..Len(fd)
      /\ g.last \in 0..Len(fd) /\ p \in 0..g.last /\ f.last \in 0..p /\ f.last \in 0..g.last
      /\ \A x \in f.last + 1..p : x = p \/ x \in f.last + 1..p - 1
      /\ \A x \in f.last + 1..g.last : x = p \/ x \in f.last + 1..p - 1 \/ x \in p + 1..g.last
  BY <1>1, SMTT(30)
<1>4. /\ \A x \in f.last + 1..p - 1 : ~Dated(s, fd[x])
      /\ \A x \in p + 1..g.last : ~Dated(s, fd[x])
  BY <1>1 DEF Dated
<1>5. CASE Own(s, fd, work, p, a)
  <2>1. /\ s.policy = "last_known" /\ fd[p].time # 0 /\ t = fd[p].time
        /\ a = AnchorAt(work[1].ord, fd[p], "accepted")
    BY <1>5 DEF Own
  <2>2. a.secs = fd[p].time /\ a.from = "accepted"
    BY <2>1, AnchorFacts, SMTT(30)
  <2>3. Known(a) = fd[p].time
    BY <2>2, AnchorFacts DEF Known
  <2>4. Dated(s, fd[p])
    BY <1>1, <2>1 DEF Dated
  <2>5. KnownAt(s, fd, g.last, Known(a))
    BY <1>3, <1>4, <2>3, <2>4 DEF KnownAt
  <2>6. TimeIs(s, fd, p, t)
    BY <2>1 DEF TimeIs
  <2> QED
    BY <1>1, <2>1, <2>5, <2>6 DEF RoutingOK
<1>6. CASE LastKnown(s, fd, f, work, p, a)
  <2>1. /\ s.policy = "last_known" /\ fd[p].time = 0 /\ t = Known(f.anchor)
        /\ a # NoAnchor /\ a.secs = t
    BY <1>6 DEF LastKnown
  <2>2. KnownAt(s, fd, f.last, t)
    BY <2>1 DEF RoutingOK
  <2>3. KnownAt(s, fd, p - 1, t)
    BY <1>2, <1>3, <1>4, <2>2, AdvanceUndated
  <2>4. \A x \in f.last + 1..g.last : ~Dated(s, fd[x])
    BY <1>3, <1>4, <2>1 DEF Dated
  <2>5. KnownAt(s, fd, g.last, t)
    BY <1>2, <1>3, <2>2, <2>4, AdvanceUndated, ZenonT(30)
  <2>6. Known(a) = t
    BY <2>1 DEF Known
  <2>7. TimeIs(s, fd, p, t)
    BY <2>1, <2>3 DEF TimeIs
  <2> QED
    BY <1>1, <2>1, <2>5, <2>6, <2>7 DEF RoutingOK
<1>7. CASE Timed(s, fd, work, p, a)
  <2>1. s.policy = "lookahead" /\ fd[p].time # 0 /\ t = fd[p].time /\ a = NoAnchor
    BY <1>7 DEF Timed
  <2> QED
    BY <1>1, <2>1 DEF RoutingOK, TimeIs
<1>8. ASSUME NEW z \in Nat, Held(s, fd, f, work, p, a, z)
      PROVE  TimeIs(s, fd, p, t) /\ RoutingOK(s, fd, g)
  <2>1. AheadAt(s, fd, p, t)
    BY <1>8, HeldAhead
  <2>2. AheadAt(s, fd, g.last, t)
    BY <1>2, <1>3, <1>4, <2>1, AdvanceUndated, ZenonT(30)
  <2>3. /\ s.policy = "lookahead" /\ fd[p].time = 0 /\ t = fd[f.received[z].cursor].time
        /\ a = AnchorAt(z, fd[f.received[z].cursor], "lookahead")
    BY <1>8 DEF Held
  <2>4. a.secs = t
    BY <2>3, AnchorFacts, SMTT(30)
  <2> QED
    BY <1>1, <2>1, <2>2, <2>3, <2>4 DEF RoutingOK, TimeIs
<1>9. CASE Restored(s, fd, f, work, p, a)
  <2>1. s.policy = "lookahead" /\ fd[p].time = 0 /\ a = f.anchor /\ a # NoAnchor /\ t = a.secs
    BY <1>9 DEF Restored
  <2>2. AheadAt(s, fd, f.last, t)
    BY <2>1 DEF RoutingOK
  <2>3. ~Dated(s, fd[p])
    BY <2>1 DEF Dated
  <2>4. AheadAt(s, fd, p, t)
    <3>1. \A x \in f.last + 1..p : ~Dated(s, fd[x])
      BY <1>3, <1>4, <2>3
    <3> QED
      BY <1>2, <1>3, <2>2, <3>1, AdvanceUndated
  <2>5. AheadAt(s, fd, g.last, t)
    BY <1>2, <1>3, <1>4, <2>4, AdvanceUndated, ZenonT(30)
  <2> QED
    BY <1>1, <2>1, <2>4, <2>5 DEF RoutingOK, TimeIs
<1>10. Routed(s, fd, f, work, p, a)
  BY DEF Accepting
<1> QED
  BY <1>5, <1>6, <1>7, <1>8, <1>9, <1>10 DEF Routed

\* The accepted block's row follows those of the events before it.
LEMMA AcceptRows ==
    ASSUME Laws, NEW s, NEW fd, NEW f, NEW c, NEW work, NEW p, NEW a, NEW g, NEW end,
           Accepting(s, fd, f, c, work, p, a, g, end),
           NEW rows \in Seq(RowSet), NEW row, row.cursor = p, RowsOK(s, fd, rows, f.last)
    PROVE  RowsOK(s, fd, Append(rows, row), g.last)
<1> DEFINE all == Append(rows, row)
           n == Len(rows)
<1>1. /\ f.last \in Nat /\ p \in Nat /\ g.last \in Nat /\ f.last < p /\ p <= g.last
      /\ Wanted(s, fd[p])
      /\ \A x \in f.last + 1..p - 1 : ~Wanted(s, fd[x])
      /\ \A x \in p + 1..g.last : ~Wanted(s, fd[x])
  BY AcceptingSpan
<1>2. /\ n \in Nat /\ DOMAIN rows = 1..n /\ DOMAIN all = 1..n + 1
      /\ all[n + 1] = row /\ \A i \in 1..n : all[i] = rows[i]
  BY SMTT(30)
<1> HIDE DEF all, n
<1>3. /\ \A i \in 1..n + 1 : i = n + 1 \/ i \in 1..n
      /\ \A i \in 1..n : i \in 1..n + 1
      /\ n + 1 \in 1..n + 1
      /\ \A i, j \in 1..n + 1 : i < j => i \in 1..n
  BY <1>2, SMTT(30)
<1>4. /\ {rows[i].cursor : i \in 1..n} = {x \in 1..f.last : Wanted(s, fd[x])}
      /\ \A i, j \in 1..n : i < j => rows[i].cursor < rows[j].cursor
  BY <1>2 DEF RowsOK
<1>5. {all[i].cursor : i \in 1..n + 1} = {rows[i].cursor : i \in 1..n} \cup {p}
  BY <1>2, <1>3
<1>6. {x \in 1..g.last : Wanted(s, fd[x])} = {x \in 1..f.last : Wanted(s, fd[x])} \cup {p}
  <2>1. \A x : x \in 1..g.last <=> \/ x \in 1..f.last \/ x = p
                                   \/ x \in f.last + 1..p - 1 \/ x \in p + 1..g.last
    BY <1>1, SMTT(30)
  <2> QED
    BY <1>1, <2>1
<1>7. ASSUME NEW i \in 1..n + 1, NEW j \in 1..n + 1, i < j
      PROVE  all[i].cursor < all[j].cursor
  <2>1. i \in 1..n /\ all[i] = rows[i]
    BY <1>2, <1>3, <1>7
  <2>2. CASE j = n + 1
    <3>1. rows[i].cursor \in 1..f.last
      BY <1>4, <2>1
    <3> QED
      BY <1>1, <1>2, <2>1, <2>2, <3>1, SMTT(30)
  <2>3. CASE j \in 1..n
    BY <1>2, <1>4, <1>7, <2>1, <2>3
  <2> QED
    BY <1>3, <2>2, <2>3
<1> QED
  BY <1>2, <1>4, <1>5, <1>6, <1>7 DEF RowsOK, all

\* A row's look-ahead source stays honoured: the anchor that names it is given
\* up for the time of an earlier event only.
LEMMA AcceptHonoured ==
    ASSUME Laws, NEW s, NEW fd, NEW f, NEW c, NEW work, NEW p, NEW a, NEW g, NEW end,
           Accepting(s, fd, f, c, work, p, a, g, end),
           NEW b, b.from = "lookahead", s.policy = "lookahead", HonouredAt(fd, f, b)
    PROVE  HonouredAt(fd, g, b)
<1>1. /\ f.last \in Nat /\ p \in Nat /\ g.last \in Nat /\ f.last < p /\ p <= g.last
      /\ c \in Nat /\ Len(fd) \in Nat /\ c <= Len(fd)
      /\ EventIs(fd, f.accepted + 1, p) /\ g.anchor = a
  BY AcceptingSpan, SMTT(30)
<1>2. p \in 1..g.last /\ \A x \in 1..f.last : x \in 1..g.last
  BY <1>1, SMTT(30)
<1>3. CASE \E x \in 1..f.last : EventIs(fd, b.src, x) /\ b = AnchorAt(b.src, fd[x], b.from)
  BY <1>2, <1>3 DEF HonouredAt
<1>4. CASE \E x \in 1..f.last : fd[x].block /\ Ordinal(fd, x) < b.src /\ fd[x].time # 0
  BY <1>2, <1>4 DEF HonouredAt
<1>5. CASE f.anchor = b
  <2>1. b # NoAnchor
    BY AnchorFacts
  <2>2. CASE a = b
    BY <1>1, <2>2 DEF HonouredAt
  <2>3. CASE Timed(s, fd, work, p, a)
    <3>1. fd[p].time # 0
      BY <2>3 DEF Timed
    <3>2. fd[p].block /\ Ordinal(fd, p) = f.accepted + 1 /\ p \in 0..Len(fd)
      BY <1>1, SMTT(30) DEF EventIs
    <3>3. /\ IsFrontier(f) /\ FrontierOK(s, fd, f, c) /\ AnchorOK(s, fd, f, c)
          /\ HeadIs(s, fd, f, c, work[1], p) /\ fd \in Seq(Events)
      BY DEF Accepting
    <3>4. /\ f.accepted \in Nat /\ f.assigned \in Nat /\ b.src \in Nat
          /\ f.accepted < f.assigned
      BY <1>5, <3>3 DEF IsFrontier, HeadIs, Anchors
    <3>5. CASE b.src > f.accepted + 1
      <4>1. Ordinal(fd, p) < b.src
        BY <3>2, <3>4, <3>5
      <4> QED
        BY <1>2, <3>1, <3>2, <4>1 DEF HonouredAt
    <3>6. CASE b.src <= f.accepted + 1
      <4>1. b.src <= f.assigned
        BY <3>4, <3>6, SMTT(30)
      <4>2. PICK x \in 1..c : EventIs(fd, b.src, x) /\ b = AnchorAt(b.src, fd[x], b.from)
        BY <1>5, <3>3, <4>1 DEF AnchorOK
      <4>3. ~(x > p)
        <5>1. x > p <=> b.src > Ordinal(fd, p)
          BY <3>2, <3>3, <4>2, EventAfter
        <5> QED
          BY <3>2, <3>4, <3>6, <5>1, SMTT(30)
      <4>4. x \in 1..g.last
        BY <1>1, <4>3, SMTT(30)
      <4> QED
        BY <4>2, <4>4 DEF HonouredAt
    <3> QED
      BY <3>4, <3>5, <3>6, SMTT(30)
  <2>4. a = b \/ Timed(s, fd, work, p, a)
    <3>1. Routed(s, fd, f, work, p, a)
      BY DEF Accepting
    <3>2. ~Own(s, fd, work, p, a) /\ ~LastKnown(s, fd, f, work, p, a)
      BY DEF Own, LastKnown
    <3>3. \A z : Held(s, fd, f, work, p, a, z) => a = b
      BY <1>5, <2>1 DEF Held
    <3>4. Restored(s, fd, f, work, p, a) => a = b
      BY <1>5 DEF Restored
    <3> QED
      BY <3>1, <3>2, <3>3, <3>4 DEF Routed
  <2> QED
    BY <2>2, <2>3, <2>4
<1> QED
  BY <1>3, <1>4, <1>5 DEF HonouredAt

\* Every row, the new one included, is routed as the feed determines.
LEMMA AcceptRouted ==
    ASSUME Laws, NEW s, NEW fd, NEW f, NEW c, NEW work, NEW p, NEW a, NEW g, NEW end,
           Accepting(s, fd, f, c, work, p, a, g, end), RoutingOK(s, fd, f),
           NEW rows \in Seq(RowSet), NEW row, row.cursor = p, row.time = work[1].time,
           row.src = a, RoutedOK(s, fd, f, rows)
    PROVE  RoutedOK(s, fd, g, Append(rows, row))
<1> DEFINE all == Append(rows, row)
           n == Len(rows)
<1>1. /\ n \in Nat /\ DOMAIN rows = 1..n /\ DOMAIN all = 1..n + 1
      /\ all[n + 1] = row /\ \A i \in 1..n : all[i] = rows[i]
  BY SMTT(30)
<1> HIDE DEF all, n
<1>2. \A i \in 1..n + 1 : i = n + 1 \/ i \in 1..n
  BY <1>1, SMTT(30)
<1>3. ASSUME NEW i \in DOMAIN rows
      PROVE  /\ s.final => TimeIs(s, fd, rows[i].cursor, rows[i].time)
             /\ rows[i].src.from = "lookahead" =>
                   s.policy = "lookahead" /\ HonouredAt(fd, g, rows[i].src)
  <2>1. /\ s.final => TimeIs(s, fd, rows[i].cursor, rows[i].time)
        /\ rows[i].src.from = "lookahead" =>
              s.policy = "lookahead" /\ HonouredAt(fd, f, rows[i].src)
    BY DEF RoutedOK
  <2> DEFINE b == rows[i].src
  <2>2. b.from = "lookahead" => s.policy = "lookahead" /\ HonouredAt(fd, f, b)
    BY <2>1
  <2> HIDE DEF b
  <2>3. b.from = "lookahead" => HonouredAt(fd, g, b)
    BY <2>2, AcceptHonoured
  <2> QED
    BY <2>1, <2>3 DEF b
<1>4. s.final => TimeIs(s, fd, p, row.time)
  BY AcceptRouting
<1>5. a.from = "lookahead" => s.policy = "lookahead" /\ HonouredAt(fd, g, a)
  <2>1. g.anchor = a
    BY AcceptingSpan, SMTT(30)
  <2>2. AnchorOK(s, fd, g, c)
    BY AcceptAnchor
  <2>3. a.from = "lookahead" => s.policy # "last_known"
    BY <2>1, <2>2 DEF AnchorOK
  <2>4. Routed(s, fd, f, work, p, a)
    BY DEF Accepting
  <2>5. s.policy = "last_known" \/ s.policy = "lookahead"
    BY <2>4, ZenonT(30) DEF Routed, Own, LastKnown, Timed, Held, Restored
  <2> QED
    BY <2>1, <2>3, <2>5 DEF HonouredAt
<1>6. ASSUME NEW i \in 1..n + 1
      PROVE  /\ s.final => TimeIs(s, fd, all[i].cursor, all[i].time)
             /\ all[i].src.from = "lookahead" =>
                   s.policy = "lookahead" /\ HonouredAt(fd, g, all[i].src)
  <2>1. CASE i = n + 1
    BY <1>1, <1>4, <1>5, <2>1
  <2>2. CASE i \in 1..n
    BY <1>1, <1>3, <2>2
  <2> QED
    BY <1>2, <2>1, <2>2
<1> QED
  BY <1>1, <1>6 DEF RoutedOK, all

-----------------------------------------------------------------------------
(* The runtime once a block is accepted.                                   *)

\* The tail of a sequence.
LEMMA TailFacts ==
    ASSUME NEW S, NEW w \in Seq(S), w # <<>>
    PROVE  /\ Len(w) \in Nat /\ Len(w) >= 1 /\ DOMAIN w = 1..Len(w)
           /\ Tail(w) \in Seq(S) /\ Len(Tail(w)) = Len(w) - 1
           /\ DOMAIN Tail(w) = 1..Len(w) - 1
           /\ \A i \in 1..Len(w) - 1 : Tail(w)[i] = w[i + 1]
           /\ \A i \in 1..Len(w) : w[i] \in S
           /\ Len(w) = 1 => Tail(w) = <<>>
<1>1. /\ Len(w) \in Nat /\ Len(w) >= 1 /\ DOMAIN w = 1..Len(w) /\ Tail(w) \in Seq(S)
      /\ Len(Tail(w)) = Len(w) - 1 /\ \A i \in 1..Len(w) : w[i] \in S
  BY SMTT(30)
<1>2. ASSUME NEW i \in 1..Len(w) - 1 PROVE Tail(w)[i] = w[i + 1]
  BY <1>1, SMTT(30)
<1>3. Len(w) = 1 => Tail(w) = <<>>
  <2>1. ASSUME NEW t \in Seq(S), Len(t) = 0 PROVE t = <<>>
    BY <2>1, SMTT(30)
  <2>2. Len(w) = 1 => Len(Tail(w)) = 0
    BY <1>1, SMTT(30)
  <2> QED
    BY <1>1, <2>1, <2>2, ZenonT(30)
<1>4. DOMAIN Tail(w) = 1..Len(w) - 1
  BY <1>1, SMTT(30)
<1> QED
  BY <1>1, <1>2, <1>3, <1>4

\* The blocks after the accepted one are ready.
LEMMA AcceptRuntime ==
    ASSUME Laws, NEW s, NEW fd, NEW f, NEW c, NEW r, NEW q, NEW p, NEW a, NEW g, NEW end, NEW row,
           Accepting(s, fd, f, c, r.work, p, a, g, end), Runtime(s, fd, f, r, "observing"),
           r.work \in Seq(ReadySet), r.rows \in Seq(RowSet), row.time = r.work[1].time,
           q.work = Tail(r.work), q.buffer = r.buffer, q.known = r.known,
           q.day = Day(row.time), q.rows = Append(r.rows, row),
           r.rows # <<>> /\ r.day # -1 => r.day = Day(row.time)
    PROVE  Runtime(s, fd, g, q, "mapped")
<1> DEFINE work == r.work
           n == Len(work)
           z == work[n].ord
           Event(o) == fd[f.received[o].cursor]
<1>1. /\ QueueOK(f, r) /\ ReadyOK(s, fd, f, r) /\ KnownOK(s, f, r) /\ DayOK(r) /\ work # <<>>
  BY ZenonT(30) DEF Runtime, PlaceOK
<1>2. /\ n \in Nat /\ n >= 1 /\ DOMAIN work = 1..n /\ Len(q.work) = n - 1
      /\ DOMAIN q.work = 1..n - 1 /\ \A i \in 1..n - 1 : q.work[i] = work[i + 1]
      /\ work[1].time \in Nat /\ (\A i \in 1..n : work[i] \in ReadySet)
      /\ n = 1 => q.work = <<>>
  <2>1. /\ n \in Nat /\ n >= 1 /\ DOMAIN work = 1..n /\ Len(q.work) = n - 1
        /\ DOMAIN q.work = 1..n - 1 /\ \A i \in 1..n - 1 : q.work[i] = work[i + 1]
        /\ \A i \in 1..n : work[i] \in ReadySet
        /\ n = 1 => q.work = <<>>
    BY <1>1, TailFacts
  <2>2. work[1] \in ReadySet
    BY <2>1, SMTT(30)
  <2>3. work[1].time \in Nat
    BY <2>2 DEF ReadySet
  <2> QED
    BY <2>1, <2>3
<1>3. /\ \A i \in 1..n - 1 : i + 1 \in 1..n /\ i + 1 # 1 /\ 1 < i + 1
      /\ \A i \in 1..n : i = 1 \/ (i - 1 \in 1..n - 1 /\ (i - 1) + 1 = i)
      /\ \A i, j \in 1..n - 1 : i < j => i + 1 < j + 1
      /\ 1 \in 1..n /\ n \in 1..n
  BY <1>2, SMTT(30)
<1>4. /\ work[1].ord = f.accepted + 1 /\ g.anchor = a
  BY AcceptingSpan, SMTT(30)
<1>5. /\ \A o : o \in Waits(g) <=> o \in Waits(f) /\ o # f.accepted + 1
      /\ \A o \in Waits(g) : g.received[o] = f.received[o]
  BY AcceptWaits DEF Accepting
<1>6. r.buffer = <<>> /\ q.buffer = <<>> /\ DOMAIN q.buffer = {} /\ DOMAIN r.buffer = {}
  BY <1>1, SMTT(30) DEF QueueOK
<1>7. /\ \A i \in 1..n : work[i].ord \in Waits(f) /\ work[i].ord \in Nat
      /\ \A i, j \in 1..n : i < j => work[i].ord < work[j].ord
      /\ \A o \in Waits(f) : \E i \in 1..n : work[i].ord = o
  <2>1. ASSUME NEW i \in 1..n PROVE work[i].ord \in Nat
    <3>1. work[i] \in ReadySet
      BY <1>2
    <3> QED
      BY <3>1 DEF ReadySet
  <2>2. \A i \in 1..n : work[i].ord \in Waits(f)
    BY <1>1, <1>2 DEF QueueOK
  <2>3. \A i, j \in 1..n : i < j => work[i].ord < work[j].ord
    BY <1>1, <1>2 DEF QueueOK
  <2>4. \A o \in Waits(f) : \E i \in 1..n : work[i].ord = o
    BY <1>1, <1>2, <1>6 DEF QueueOK
  <2> QED
    BY <2>1, <2>2, <2>3, <2>4
<1>8. /\ \A i \in 1..n - 1 : /\ work[i].look = z /\ work[i].time = work[n].time
                             /\ Event(work[i].ord).time = 0
      /\ work[n].look = 0
      /\ n > 1 => Event(z).time # 0 /\ work[n].time = Event(z).time /\ s.policy = "lookahead"
  <2>1. /\ \A i \in 1..n - 1 : /\ work[i].look = z /\ work[i].time = work[n].time
                               /\ Event(work[i].ord).time = 0
        /\ work[n].look = 0
        /\ IF Event(z).time # 0 THEN work[n].time = Event(z).time ELSE n = 1
        /\ n > 1 => s.policy = "lookahead"
    BY <1>1 DEF ReadyOK
  <2>2. n > 1 => n # 1
    BY <1>2, SMTT(30)
  <2> HIDE DEF n, work, z, Event
  <2> QED
    BY <2>1, <2>2
<1>9. n > 1 => a = AnchorAt(z, Event(z), "lookahead")
  <2>1. Routed(s, fd, f, work, p, a)
    BY DEF Accepting
  <2>2. n > 1 => \E y \in Nat : Held(s, fd, f, work, p, a, y)
    <3>1. n > 1 => n # 1
      BY <1>2, SMTT(30)
    <3>2. /\ Own(s, fd, work, p, a) => n = 1
          /\ LastKnown(s, fd, f, work, p, a) => n = 1
          /\ Timed(s, fd, work, p, a) => n = 1
          /\ Restored(s, fd, f, work, p, a) => n = 1
      BY DEF Own, LastKnown, Timed, Restored
    <3> QED
      BY <2>1, <3>1, <3>2 DEF Routed
  <2> QED
    BY <2>2 DEF Held
<1>10. n = 1 /\ s.policy = "last_known" => Known(a) = work[1].time
  <2>1. Routed(s, fd, f, work, p, a)
    BY DEF Accepting
  <2>2. CASE Own(s, fd, work, p, a)
    <3>1. a = AnchorAt(work[1].ord, fd[p], "accepted") /\ work[1].time = fd[p].time
      BY <2>2 DEF Own
    <3>2. a.secs = work[1].time /\ a # NoAnchor
      <4>1. a.from = "accepted" /\ a.secs = fd[p].time
        BY <3>1, AnchorFacts, SMTT(30)
      <4> QED
        BY <3>1, <4>1, AnchorFacts
    <3> QED
      BY <3>2 DEF Known
  <2>3. CASE LastKnown(s, fd, f, work, p, a)
    BY <2>3 DEF LastKnown, Known
  <2>4. s.policy = "last_known" => Own(s, fd, work, p, a) \/ LastKnown(s, fd, f, work, p, a)
    BY <2>1 DEF Routed, Timed, Held, Restored
  <2> QED
    BY <2>2, <2>3, <2>4
<1>11. s.policy = "last_known" => r.known = work[1].time
  BY <1>1 DEF KnownOK
<1> HIDE DEF work, n, z, Event
<1>12. QueueOK(g, q)
  <2>1. ASSUME NEW i \in 1..n - 1
        PROVE  q.work[i].ord \in Waits(g)
    <3>1. work[1].ord < work[i + 1].ord /\ work[i + 1].ord \in Waits(f)
      <4>1. 1 \in 1..n /\ i + 1 \in 1..n /\ 1 < i + 1
        BY <1>3
      <4> QED
        BY <1>7, <4>1
    <3>2. work[i + 1].ord # f.accepted + 1
      BY <1>3, <1>4, <1>7, <3>1, SMTT(30)
    <3>3. q.work[i] = work[i + 1]
      BY <1>2
    <3> QED
      BY <1>5, <3>1, <3>2, <3>3
  <2>2. ASSUME NEW o \in Waits(g)
        PROVE  \E i \in 1..n - 1 : q.work[i].ord = o
    <3>1. PICK i \in 1..n : work[i].ord = o
      BY <1>5, <1>7
    <3>2. i # 1
      BY <1>4, <1>5, <3>1
    <3>3. i - 1 \in 1..n - 1 /\ (i - 1) + 1 = i
      BY <1>3, <3>2
    <3> QED
      BY <1>2, <3>1, <3>3
  <2>3. ASSUME NEW i \in 1..n - 1, NEW j \in 1..n - 1, i < j
        PROVE  q.work[i].ord < q.work[j].ord
    <3>1. i + 1 \in 1..n /\ j + 1 \in 1..n /\ i + 1 < j + 1
      BY <1>3, <2>3
    <3>2. q.work[i] = work[i + 1] /\ q.work[j] = work[j + 1]
      BY <1>2
    <3>3. work[i + 1].ord < work[j + 1].ord
      BY <1>7, <3>1
    <3> QED
      BY <3>2, <3>3
  <2> QED
    BY <1>2, <1>6, <2>1, <2>2, <2>3 DEF QueueOK
<1>13. ReadyOK(s, fd, g, q)
  <2>1. SUFFICES ASSUME n > 1
                 PROVE  ReadyOK(s, fd, g, q)
    <3>1. n > 1 \/ n = 1
      BY <1>2, SMTT(30)
    <3>2. q.work = <<>> => ReadyOK(s, fd, g, q)
      BY ZenonT(30) DEF ReadyOK
    <3> QED
      BY <1>2, <2>1, <3>1, <3>2
  <2> DEFINE m == n - 1
             Later(o) == fd[g.received[o].cursor]
  <2>10. \A o : Later(o) = fd[g.received[o].cursor]
    BY ZenonT(30)
  <2>2. m \in Nat /\ m >= 1 /\ m \in 1..m /\ m + 1 = n /\ \A i \in 1..m - 1 : i \in 1..m /\ i + 1 \in 1..n - 1
    BY <1>2, <2>1, SMTT(30)
  <2>3. q.work[m] = work[n] /\ q.work[m].ord = z
    BY <1>2, <2>2, ZenonT(30) DEF z
  <2>4. \A i \in 1..m : q.work[i].ord \in Waits(g)
    BY <1>12, <1>2 DEF QueueOK
  <2>5. \A i \in 1..m : Later(q.work[i].ord) = Event(q.work[i].ord)
    BY <1>5, <2>4, ZenonT(30) DEF Event
  <2>6. ASSUME NEW i \in 1..m - 1
        PROVE  /\ q.work[i].look = q.work[m].ord /\ q.work[i].time = q.work[m].time
               /\ Later(q.work[i].ord).time = 0
    <3>1. i \in 1..m /\ i + 1 \in 1..n - 1 /\ q.work[i] = work[i + 1]
      BY <1>2, <2>2
    <3> HIDE DEF m, Later
    <3> QED
      BY <1>8, <2>3, <2>5, <3>1, ZenonT(30)
  <2>7. Later(q.work[m].ord).time # 0 /\ q.work[m].time = Later(q.work[m].ord).time
    <3> HIDE DEF Later, m
    <3>1. Later(q.work[m].ord) = Event(z)
      BY <2>2, <2>3, <2>5
    <3> QED
      BY <1>8, <2>1, <2>3, <3>1
  <2>8. g.anchor = AnchorAt(q.work[m].ord, Later(q.work[m].ord), "lookahead")
    <3> HIDE DEF Later, m
    <3>1. Later(q.work[m].ord) = Event(z)
      BY <2>2, <2>3, <2>5
    <3> QED
      BY <1>4, <1>9, <2>1, <2>3, <3>1, ZenonT(30)
  <2>9. q.work[m].look = 0 /\ s.policy = "lookahead" /\ Len(q.work) = m
    BY <1>2, <1>8, <2>1, <2>3
  <2> HIDE DEF m, Later
  <2> SUFFICES /\ \A i \in 1..m - 1 :
                     /\ q.work[i].look = q.work[m].ord /\ q.work[i].time = q.work[m].time
                     /\ Later(q.work[i].ord).time = 0
               /\ q.work[m].look = 0
               /\ Later(q.work[m].ord).time # 0 /\ q.work[m].time = Later(q.work[m].ord).time
               /\ s.policy = "lookahead"
               /\ g.anchor = AnchorAt(q.work[m].ord, Later(q.work[m].ord), "lookahead")
    BY <2>9, ZenonT(30) DEF ReadyOK, Later
  <2> QED
    BY <2>6, <2>7, <2>8, <2>9
<1>14. KnownOK(s, g, q)
  <2>1. s.policy = "last_known" => n = 1
    BY <1>2, <1>8, SMTT(30)
  <2> QED
    BY <1>2, <1>4, <1>10, <1>11, <2>1, ZenonT(30) DEF KnownOK
<1>15. DayOK(q)
  <2>1. Day(row.time) # -1
    BY <1>2, SMTT(30) DEF Day, work
  <2>2. ASSUME NEW i \in DOMAIN q.rows
        PROVE  Day(q.rows[i].time) = q.day
    <3>1. CASE i = Len(r.rows) + 1
      BY <3>1, SMTT(30)
    <3>2. CASE i \in DOMAIN r.rows
      <4>1. r.rows # <<>> /\ q.rows[i] = r.rows[i]
        BY <3>2, SMTT(30)
      <4>2. r.day # -1 /\ Day(r.rows[i].time) = r.day
        BY <1>1, <3>2, <4>1 DEF DayOK
      <4> QED
        BY <4>1, <4>2
    <3> QED
      BY <3>1, <3>2, SMTT(30)
  <2> QED
    BY <2>1, <2>2 DEF DayOK
<1>16. HoldOK(s, fd, g, q) /\ PlaceOK("mapped", q)
  BY <1>6 DEF HoldOK, PlaceOK
<1> QED
  BY <1>12, <1>13, <1>14, <1>15, <1>16 DEF Runtime

-----------------------------------------------------------------------------
(* Commits.                                                                *)

\* An acknowledged frontier differs in what is durable only.
Same(f, g) ==
    /\ g.assigned = f.assigned /\ g.accepted = f.accepted /\ g.last = f.last
    /\ g.anchor = f.anchor /\ g.received = f.received

SameRun(r, q) ==
    /\ q.bootstrap = r.bootstrap /\ q.buffer = r.buffer /\ q.work = r.work
    /\ q.known = r.known /\ q.mapped = r.mapped

\* An acknowledged frontier agrees with the feed as before.
LEMMA SameSession ==
    ASSUME NEW s, NEW fd, NEW n, NEW f, NEW g, NEW c, Same(f, g), IsFrontier(g),
           Session(s, fd, n, f, c)
    PROVE  Session(s, fd, n, g, c)
<1>1. FrontierOK(s, fd, g, c)
  <2>1. FrontierOK(s, fd, f, c)
    BY DEF Session
  <2> QED
    BY <2>1 DEF FrontierOK, Same
<1>2. AnchorOK(s, fd, g, c)
  <2>1. AnchorOK(s, fd, f, c)
    BY DEF Session
  <2> QED
    BY <2>1 DEF AnchorOK, Same
<1>3. RoutingOK(s, fd, g) /\ CountOK(fd, n, g, c)
  <2>1. RoutingOK(s, fd, f) /\ CountOK(fd, n, f, c)
    BY DEF Session
  <2> QED
    BY <2>1 DEF RoutingOK, CountOK, Same
<1> QED
  BY <1>1, <1>2, <1>3 DEF Session

\* The runtime agrees with an acknowledged frontier as before.
LEMMA SameRuntime ==
    ASSUME NEW s, NEW fd, NEW f, NEW g, NEW r, NEW q, NEW at, NEW to, Same(f, g), SameRun(r, q),
           Runtime(s, fd, f, r, at), PlaceOK(to, q), DayOK(q)
    PROVE  Runtime(s, fd, g, q, to)
<1>1. QueueOK(g, q)
  <2>1. QueueOK(f, r)
    BY DEF Runtime
  <2>2. Waits(g) = Waits(f)
    BY DEF Waits, Same
  <2> QED
    BY <2>1, <2>2 DEF QueueOK, SameRun
<1>2. HoldOK(s, fd, g, q)
  <2>1. HoldOK(s, fd, f, r)
    BY DEF Runtime
  <2> QED
    BY <2>1 DEF HoldOK, Same, SameRun
<1>3. ReadyOK(s, fd, g, q)
  <2>1. ReadyOK(s, fd, f, r)
    BY DEF Runtime
  <2> QED
    BY <2>1 DEF ReadyOK, Same, SameRun
<1>4. KnownOK(s, g, q)
  <2>1. KnownOK(s, f, r)
    BY DEF Runtime
  <2> QED
    BY <2>1 DEF KnownOK, Same, SameRun
<1> QED
  BY <1>1, <1>2, <1>3, <1>4 DEF Runtime

\* The rows are routed by an acknowledged frontier as before.
LEMMA SameWindow ==
    ASSUME NEW s, NEW fd, NEW f, NEW g, NEW rows, Same(f, g), RoutedOK(s, fd, f, rows)
    PROVE  RoutedOK(s, fd, g, rows)
<1>1. \A a : HonouredAt(fd, g, a) <=> HonouredAt(fd, f, a)
  BY DEF HonouredAt, Same
<1> QED
  BY <1>1 DEF RoutedOK

\* The frontier of a session becomes what a restart finds: the event that its
\* anchor names, if it was accepted, is at or before the last accepted one.
LEMMA CommitDurable ==
    ASSUME Laws, NEW s \in Streams, NEW fd \in s.feeds, NEW n, NEW f, NEW c, NEW rows, NEW tb,
           NEW d \in CheckpointSet, NEW e \in CheckpointSet,
           e.ordinal = f.accepted, e.cursor = f.last, e.anchor = f.anchor,
           e.completed = d.completed,
           Durable(s, fd, d, tb), Session(s, fd, n, f, c), Window(s, fd, f, d, rows)
    PROVE  Durable(s, fd, e, rows) /\ Window(s, fd, f, e, rows)
<1> DEFINE g == Resume(e)
<1>1. /\ IsFrontier(g) /\ g.assigned = f.accepted /\ g.accepted = f.accepted
      /\ g.last = f.last /\ g.anchor = f.anchor /\ g.accepted + 1..g.assigned = {}
  BY ResumeFields DEF IsResume
<1> HIDE DEF g
<1>2. fd \in Seq(Events) /\ Len(fd) \in Nat
  BY FeedFacts
<1>3. /\ c \in 0..Len(fd) /\ f.last \in 0..c /\ f.last \in 0..f.last /\ f.last \in 0..Len(fd)
      /\ f.accepted = Ordinal(fd, f.last)
      /\ f.last # 0 => fd[f.last].block
      /\ f.accepted \in Nat /\ f.assigned \in Nat /\ f.accepted <= f.assigned
      /\ f.anchor \in Anchors
  BY <1>2, SMTT(30) DEF Session, FrontierOK, IsFrontier
<1>4. FrontierOK(s, fd, g, g.last)
  <2>1. ~(g.accepted < g.assigned)
    BY <1>1, <1>3, SMTT(30)
  <2> QED
    BY <1>1, <1>3, <2>1 DEF FrontierOK
<1>5. AnchorOK(s, fd, g, g.last)
  <2> DEFINE a == f.anchor
             Names(p) == EventIs(fd, a.src, p) /\ a = AnchorAt(a.src, fd[p], a.from)
  <2>1. AnchorOK(s, fd, f, c)
    BY DEF Session
  <2>2. ASSUME a.from = "lookahead", a.src <= f.accepted
        PROVE  \E p \in 1..f.last : Names(p)
    <3>1. a.src \in Nat
      BY <1>3 DEF Anchors
    <3>2. a.src <= f.assigned
      BY <1>3, <2>2, <3>1, SMTT(30)
    <3>3. PICK p \in 1..c : Names(p)
      BY <2>1, <2>2, <3>2 DEF AnchorOK
    <3>4. ~(p > f.last)
      BY <1>2, <1>3, <2>2, <3>1, <3>3, EventAfter, SMTT(30)
    <3> QED
      BY <1>3, <3>3, <3>4, SMTT(30)
  <2> QED
    BY <1>1, <2>1, <2>2 DEF AnchorOK
<1>6. RoutingOK(s, fd, g)
  <2>1. RoutingOK(s, fd, f)
    BY DEF Session
  <2> QED
    BY <1>1, <2>1 DEF RoutingOK
<1>7. RowsOK(s, fd, rows, g.last)
  BY <1>1 DEF Window
<1>8. RoutedOK(s, fd, g, rows)
  <2>1. RoutedOK(s, fd, f, rows)
    BY DEF Window
  <2>2. \A a : HonouredAt(fd, g, a) <=> HonouredAt(fd, f, a)
    BY <1>1 DEF HonouredAt
  <2> QED
    BY <2>1, <2>2 DEF RoutedOK
<1>9. e.completed # 0 => \E p \in 1..g.last : fd[p].block /\ fd[p].num >= e.completed - 1
  <2> DEFINE h == Resume(d)
  <2>1. d.completed # 0 =>
           \E p \in 1..h.last : fd[p].block /\ fd[p].num >= d.completed - 1
    BY DEF Durable
  <2>2. h.last = d.cursor /\ d.cursor \in Nat
    BY ResumeFields DEF IsResume, CheckpointSet
  <2>3. d.cursor <= f.last
    BY DEF Window
  <2> HIDE DEF h
  <2>4. \A p \in 1..h.last : p \in 1..g.last
    BY <1>1, <1>3, <2>2, <2>3, SMTT(30)
  <2> QED
    BY <2>1, <2>4
<1>10. Durable(s, fd, e, rows)
  BY <1>4, <1>5, <1>6, <1>7, <1>8, <1>9 DEF Durable, g
<1>11. e.cursor <= f.last
  BY <1>3, SMTT(30)
<1> QED
  BY <1>10, <1>11 DEF Window

-----------------------------------------------------------------------------
(* Connections.                                                            *)

\* Two feeds of the stream that agree up to c.
Agree(s, fd, gd, c) ==
    /\ s \in Streams /\ fd \in s.feeds /\ gd \in s.feeds
    /\ c \in Nat /\ c <= Len(fd) /\ c <= Len(gd) /\ \A q \in 1..c : gd[q] = fd[q]

\* Feeds that agree up to c have the same events up to c.
LEMMA AgreeFacts ==
    ASSUME NEW s, NEW fd, NEW gd, NEW c, Agree(s, fd, gd, c)
    PROVE  /\ s.final => gd = fd
           /\ \A q \in 1..c : gd[q] = fd[q]
           /\ \A p \in 0..c : Ordinal(gd, p) = Ordinal(fd, p)
           /\ \A o : \A p \in 1..c : EventIs(gd, o, p) <=> EventIs(fd, o, p)
           /\ Len(gd) \in Nat /\ c \in 0..Len(gd)
<1>1. fd \in Seq(Events) /\ gd \in Seq(Events) /\ Len(gd) \in Nat
  BY FeedFacts DEF Agree
<1>2. s.final => gd = fd
  BY StreamAssumption DEF Agree
<1>3. c \in Nat /\ c <= Len(fd) /\ c <= Len(gd) /\ \A q \in 1..c : gd[q] = fd[q]
  BY DEF Agree
<1>4. c \in 0..Len(gd)
  BY <1>1, <1>3, SMTT(30)
<1> QED
  BY <1>1, <1>2, <1>3, <1>4, SameOrdinals

\* A frontier up to c agrees with either feed.
LEMMA AgreeFrontier ==
    ASSUME NEW s, NEW fd, NEW gd, NEW c, NEW b \in 0..c, NEW f, Agree(s, fd, gd, c),
           IsFrontier(f), FrontierOK(s, fd, f, b)
    PROVE  FrontierOK(s, gd, f, b)
<1>1. /\ \A q \in 1..c : gd[q] = fd[q]
      /\ \A p \in 0..c : Ordinal(gd, p) = Ordinal(fd, p)
      /\ \A o : \A p \in 1..c : EventIs(gd, o, p) <=> EventIs(fd, o, p)
  BY AgreeFacts, SMTT(30)
<1>2. c \in Nat /\ Len(gd) \in Nat /\ c \in 0..Len(gd)
  BY AgreeFacts DEF Agree
<1>3. b \in 0..Len(gd) /\ b \in Nat
  BY <1>2, SMTT(30)
<1>4. f.last \in 0..b /\ f.accepted = Ordinal(fd, f.last) /\ (f.last # 0 => fd[f.last].block)
  BY DEF FrontierOK
<1>5. f.last \in 0..c /\ (f.last # 0 => f.last \in 1..c)
  BY <1>2, <1>3, <1>4, SMTT(30)
<1>6. f.accepted = Ordinal(gd, f.last) /\ (f.last # 0 => gd[f.last].block)
  BY <1>1, <1>4, <1>5
<1>7. ASSUME NEW o \in f.accepted + 1..f.assigned
      PROVE  LET p == f.received[o].cursor
             IN  /\ p \in f.last + 1..b /\ EventIs(gd, o, p)
                 /\ f.received[o].routing = IF Wanted(s, gd[p]) THEN Unresolved ELSE Inherit
  <2> DEFINE p == f.received[o].cursor
  <2>1. /\ p \in f.last + 1..b /\ EventIs(fd, o, p)
        /\ f.received[o].routing = IF Wanted(s, fd[p]) THEN Unresolved ELSE Inherit
    BY DEF FrontierOK
  <2> HIDE DEF p
  <2>2. p \in 1..c
    BY <1>2, <1>3, <1>4, <2>1, SMTT(30)
  <2> QED
    BY <1>1, <2>1, <2>2 DEF p
<1>8. f.accepted < f.assigned => f.received[f.accepted + 1].routing = Unresolved
  BY DEF FrontierOK
<1> QED
  BY <1>3, <1>4, <1>6, <1>7, <1>8 DEF FrontierOK

\* So does its anchor.
LEMMA AgreeAnchor ==
    ASSUME NEW s, NEW fd, NEW gd, NEW c, NEW b \in 0..c, NEW f, Agree(s, fd, gd, c),
           f.last \in 0..b, AnchorOK(s, fd, f, b)
    PROVE  AnchorOK(s, gd, f, b)
<1> DEFINE a == f.anchor
           Names(hd, p) == EventIs(hd, a.src, p) /\ a = AnchorAt(a.src, hd[p], a.from)
<1>1. /\ \A q \in 1..c : gd[q] = fd[q]
      /\ \A o : \A p \in 1..c : EventIs(gd, o, p) <=> EventIs(fd, o, p)
  BY AgreeFacts, SMTT(30)
<1>2. c \in Nat
  BY DEF Agree
<1>3. \A p \in 1..b : p \in 1..c
  BY <1>2, SMTT(30)
<1>4. \A p \in 1..f.last : p \in 1..c
  BY <1>2, SMTT(30)
<1>5. /\ (\E p \in 1..b : Names(fd, p)) => \E p \in 1..b : Names(gd, p)
      /\ (\E p \in 1..f.last : Names(fd, p)) => \E p \in 1..f.last : Names(gd, p)
  BY <1>1, <1>3, <1>4
<1> QED
  BY <1>5 DEF AnchorOK

\* So do the rows.
LEMMA AgreeRows ==
    ASSUME NEW s, NEW fd, NEW gd, NEW c, NEW f, NEW rows, Agree(s, fd, gd, c),
           f.last \in 0..c, RowsOK(s, fd, rows, f.last), RoutedOK(s, fd, f, rows)
    PROVE  RowsOK(s, gd, rows, f.last) /\ RoutedOK(s, gd, f, rows)
<1>1. /\ \A q \in 1..c : gd[q] = fd[q]
      /\ \A p \in 0..c : Ordinal(gd, p) = Ordinal(fd, p)
      /\ \A o : \A p \in 1..c : EventIs(gd, o, p) <=> EventIs(fd, o, p)
      /\ s.final => gd = fd
  BY AgreeFacts, SMTT(30)
<1>2. c \in Nat
  BY DEF Agree
<1>3. \A p \in 1..f.last : p \in 1..c /\ p \in 0..c
  BY <1>2, SMTT(30)
<1>4. {p \in 1..f.last : Wanted(s, gd[p])} = {p \in 1..f.last : Wanted(s, fd[p])}
  BY <1>1, <1>3
<1>5. RowsOK(s, gd, rows, f.last)
  BY <1>4 DEF RowsOK
<1>6. \A a : HonouredAt(fd, f, a) => HonouredAt(gd, f, a)
  BY <1>1, <1>3 DEF HonouredAt
<1>7. RoutedOK(s, gd, f, rows)
  BY <1>1, <1>6 DEF RoutedOK
<1> QED
  BY <1>5, <1>7

\* So does the checkpoint.
LEMMA AgreeDurable ==
    ASSUME NEW s, NEW fd, NEW gd, NEW c, NEW d \in CheckpointSet, NEW tb, Agree(s, fd, gd, c),
           d.cursor <= c, Durable(s, fd, d, tb)
    PROVE  Durable(s, gd, d, tb)
<1> DEFINE f == Resume(d)
<1>1. IsFrontier(f) /\ f.last = d.cursor /\ d.cursor \in Nat
  BY ResumeFields DEF IsResume, CheckpointSet
<1>2. /\ FrontierOK(s, fd, f, f.last) /\ AnchorOK(s, fd, f, f.last)
      /\ RoutingOK(s, fd, f) /\ RowsOK(s, fd, tb, f.last) /\ RoutedOK(s, fd, f, tb)
      /\ d.completed # 0 =>
            \E p \in 1..f.last : fd[p].block /\ fd[p].num >= d.completed - 1
  BY DEF Durable
<1> HIDE DEF f
<1>3. c \in Nat /\ \A q \in 1..c : gd[q] = fd[q]
  BY DEF Agree
<1>4. f.last \in 0..c /\ f.last \in 0..f.last /\ \A p \in 1..f.last : p \in 1..c
  BY <1>1, <1>3, SMTT(30)
<1>5. FrontierOK(s, gd, f, f.last)
  BY <1>1, <1>2, <1>4, AgreeFrontier
<1>6. AnchorOK(s, gd, f, f.last)
  BY <1>2, <1>4, AgreeAnchor
<1>7. RowsOK(s, gd, tb, f.last) /\ RoutedOK(s, gd, f, tb)
  BY <1>2, <1>4, AgreeRows
<1>8. RoutingOK(s, gd, f)
  BY <1>2, AgreeFacts, SMTT(30) DEF RoutingOK
<1>9. d.completed # 0 => \E p \in 1..f.last : gd[p].block /\ gd[p].num >= d.completed - 1
  BY <1>2, <1>3, <1>4
<1> QED
  BY <1>5, <1>6, <1>7, <1>8, <1>9 DEF Durable, f

\* So does the session.
LEMMA AgreeSession ==
    ASSUME NEW s, NEW fd, NEW gd, NEW c, NEW n, NEW f, Agree(s, fd, gd, c),
           Session(s, fd, n, f, c)
    PROVE  Session(s, gd, n, f, c)
<1>1. /\ IsFrontier(f) /\ FrontierOK(s, fd, f, c) /\ AnchorOK(s, fd, f, c)
      /\ RoutingOK(s, fd, f) /\ CountOK(fd, n, f, c)
  BY DEF Session
<1>2. c \in 0..c /\ f.last \in 0..c
  BY <1>1, SMTT(30) DEF Agree, FrontierOK
<1>3. FrontierOK(s, gd, f, c)
  BY <1>1, <1>2, AgreeFrontier
<1>4. AnchorOK(s, gd, f, c)
  BY <1>1, <1>2, AgreeAnchor
<1>5. RoutingOK(s, gd, f)
  BY <1>1, AgreeFacts, SMTT(30) DEF RoutingOK
<1>6. CountOK(gd, n, f, c)
  BY <1>1, <1>2, AgreeFacts, SMTT(30) DEF CountOK
<1> QED
  BY <1>1, <1>3, <1>4, <1>5, <1>6 DEF Session

\* So does a runtime without ready blocks.
LEMMA AgreeRuntime ==
    ASSUME NEW s, NEW fd, NEW gd, NEW c, NEW f, NEW r, NEW at, NEW to, Agree(s, fd, gd, c),
           FrontierOK(s, fd, f, c), Runtime(s, fd, f, r, at), r.work = <<>>, to # "observing"
    PROVE  Runtime(s, gd, f, r, to)
<1>1. HoldOK(s, gd, f, r)
  <2>1. HoldOK(s, fd, f, r) /\ QueueOK(f, r)
    BY DEF Runtime
  <2>2. \A i \in DOMAIN r.buffer : r.buffer[i] \in f.accepted + 1..f.assigned
    BY <2>1 DEF QueueOK, Waits
  <2>3. \A o \in f.accepted + 1..f.assigned : f.received[o].cursor \in 1..c
    <3>1. \A o \in f.accepted + 1..f.assigned : f.received[o].cursor \in f.last + 1..c
      BY DEF FrontierOK
    <3>2. c \in Nat /\ f.last \in 0..c
      BY DEF Agree, FrontierOK
    <3>3. \A p \in f.last + 1..c : p \in 1..c
      BY <3>2, SMTT(30)
    <3> QED
      BY <3>1, <3>3
  <2>4. \A q \in 1..c : gd[q] = fd[q]
    BY DEF Agree
  <2>5. \A i \in DOMAIN r.buffer :
           gd[f.received[r.buffer[i]].cursor] = fd[f.received[r.buffer[i]].cursor]
    BY <2>2, <2>3, <2>4
  <2> QED
    BY <2>1, <2>5 DEF HoldOK
<1>2. PlaceOK(to, r) /\ ReadyOK(s, gd, f, r)
  BY DEF PlaceOK, ReadyOK
<1> QED
  BY <1>1, <1>2 DEF Runtime

-----------------------------------------------------------------------------
(* Messages.                                                               *)

\* Events that are not wanted change no routing and no rows.
LEMMA Advance ==
    ASSUME NEW s, NEW fd \in Seq(Events), NEW m \in 0..Len(fd), NEW l \in 0..m,
           \A q \in l + 1..m : ~Wanted(s, fd[q])
    PROVE  /\ \A t : KnownAt(s, fd, l, t) => KnownAt(s, fd, m, t)
           /\ \A t : AheadAt(s, fd, l, t) => AheadAt(s, fd, m, t)
           /\ \A rows : RowsOK(s, fd, rows, l) => RowsOK(s, fd, rows, m)
<1>1. Len(fd) \in Nat /\ m \in Nat /\ l \in Nat /\ l <= m
  BY SMTT(30)
<1>2. /\ \A q \in 1..l : q \in 1..m
      /\ \A q \in 1..m : q \in 1..l \/ q \in l + 1..m
  BY <1>1, SMTT(30)
<1>3. \A q \in l + 1..m : ~Dated(s, fd[q])
  BY DEF Dated
<1>4. /\ \A t : KnownAt(s, fd, l, t) => KnownAt(s, fd, m, t)
      /\ \A t : AheadAt(s, fd, l, t) => AheadAt(s, fd, m, t)
  BY <1>3, AdvanceUndated
<1>5. {p \in 1..m : Wanted(s, fd[p])} = {p \in 1..l : Wanted(s, fd[p])}
  BY <1>2
<1>6. \A rows : RowsOK(s, fd, rows, l) => RowsOK(s, fd, rows, m)
  BY <1>5 DEF RowsOK
<1> QED
  BY <1>4, <1>6

\* What holds when the client has read up to c holds when it has read more.
LEMMA ReadOn ==
    ASSUME NEW s, NEW fd \in Seq(Events), NEW f, NEW c \in Nat, c + 1 <= Len(fd),
           FrontierOK(s, fd, f, c), AnchorOK(s, fd, f, c)
    PROVE  FrontierOK(s, fd, f, c + 1) /\ AnchorOK(s, fd, f, c + 1)
<1>1. Len(fd) \in Nat /\ c + 1 \in 0..Len(fd) /\ \A p \in 1..c : p \in 1..c + 1
  BY SMTT(30)
<1>2. f.last \in 0..c + 1 /\ \A p \in f.last + 1..c : p \in f.last + 1..c + 1
  BY SMTT(30) DEF FrontierOK
<1>3. FrontierOK(s, fd, f, c + 1)
  BY <1>1, <1>2 DEF FrontierOK
<1>4. AnchorOK(s, fd, f, c + 1)
  BY <1>1 DEF AnchorOK
<1> QED
  BY <1>3, <1>4

\* The client passes over a message.
LEMMA IgnoredOK ==
    ASSUME Laws, NEW s \in Streams, NEW fd \in s.feeds, NEW n, NEW f, NEW c \in Nat,
           c + 1 <= Len(fd), Session(s, fd, n, f, c),
           ~fd[c + 1].block \/ (n = 1 /\ fd[c + 1].num # 0)
    PROVE  Session(s, fd, n, f, c + 1)
<1>1. fd \in Seq(Events) /\ Len(fd) \in Nat
  BY FeedFacts
<1>2. FrontierOK(s, fd, f, c + 1) /\ AnchorOK(s, fd, f, c + 1)
  BY <1>1, ReadOn DEF Session
<1>3. CountOK(fd, n, f, c + 1)
  <2>1. CountOK(fd, n, f, c)
    BY DEF Session
  <2>2. \A p \in 1..c : p \in 1..c + 1
    BY SMTT(30)
  <2>3. c + 1 \in 1..c + 1
    BY SMTT(30)
  <2>4. CASE n = 1 /\ \E p \in 1..c : fd[p].block /\ fd[p].num # 0
    BY <2>2, <2>4 DEF CountOK
  <2>5. CASE f.assigned = Ordinal(fd, c) /\ ~fd[c + 1].block
    <3>1. c \in 0..Len(fd) - 1
      BY <1>1, SMTT(30)
    <3>2. Ordinal(fd, c + 1) = Ordinal(fd, c)
      BY <1>1, <2>5, <3>1, OrdinalNext
    <3> QED
      BY <2>5, <3>2 DEF CountOK
  <2>6. CASE fd[c + 1].block /\ n = 1 /\ fd[c + 1].num # 0
    BY <2>3, <2>6 DEF CountOK
  <2> QED
    BY <2>1, <2>4, <2>5, <2>6 DEF CountOK
<1> QED
  BY <1>2, <1>3 DEF Session

\* A block that reaches the session is the next event: a run that wants block
\* 0 only has passed over none, since block 0 does not come after another.
LEMMA NextEvent ==
    ASSUME Laws, NEW s \in Streams, NEW fd \in s.feeds, NEW n \in Nat, NEW f, NEW c \in Nat,
           c + 1 <= Len(fd), CountOK(fd, n, f, c),
           fd[c + 1].block, n = 0 \/ fd[c + 1].num < n
    PROVE  /\ f.assigned = Ordinal(fd, c) /\ Ordinal(fd, c + 1) = f.assigned + 1
           /\ EventIs(fd, f.assigned + 1, c + 1)
<1>1. fd \in Seq(Events) /\ Len(fd) \in Nat /\ DOMAIN fd = 1..Len(fd)
      /\ \A p \in 1..Len(fd) : fd[p] \in Events
  BY FeedFacts
<1>2. c \in 0..Len(fd) - 1 /\ c + 1 \in 1..Len(fd)
  BY <1>1, SMTT(30)
<1>3. f.assigned = Ordinal(fd, c)
  <2>1. SUFFICES ASSUME n = 1, NEW p \in 1..c, fd[p].block, fd[p].num # 0
                 PROVE  FALSE
    BY DEF CountOK
  <2>2. fd[c + 1].num = 0
    <3>1. fd[c + 1].num \in Nat
      BY <1>1, <1>2 DEF Events
    <3> QED
      BY <2>1, <3>1, SMTT(30)
  <2>3. p \in DOMAIN fd /\ c + 1 \in DOMAIN fd /\ p < c + 1
    BY <1>1, <1>2, SMTT(30)
  <2>4. p < c + 1 /\ fd[p].block /\ fd[c + 1].block => (fd[c + 1].num = 0 => fd[p].num = 0)
    BY <2>3, StreamAssumption
  <2> QED
    BY <2>1, <2>2, <2>3, <2>4
<1>4. Ordinal(fd, c + 1) = f.assigned + 1
  BY <1>1, <1>2, <1>3, OrdinalNext
<1> QED
  BY <1>2, <1>3, <1>4 DEF EventIs

\* The event that the anchor of a look-ahead names, if it is the next one.
NotRefused(f, e) ==
    f.anchor.from = "lookahead" /\ f.anchor.src = f.assigned + 1 =>
       f.anchor = AnchorAt(f.anchor.src, e, "lookahead")

\* A message reaches the session.
LEMMA ReceivedAnchor ==
    ASSUME NEW s, NEW fd \in Seq(Events), NEW f, NEW g, NEW c \in Nat, c + 1 <= Len(fd),
           IsFrontier(f), g.assigned = f.assigned + 1, g.anchor = f.anchor,
           g.last \in Nat, f.last \in Nat, f.last <= g.last,
           AnchorOK(s, fd, f, c), NotRefused(f, fd[c + 1]), EventIs(fd, f.assigned + 1, c + 1)
    PROVE  AnchorOK(s, fd, g, c + 1)
<1> DEFINE a == f.anchor
           Names(p) == EventIs(fd, a.src, p) /\ a = AnchorAt(a.src, fd[p], a.from)
<1>1. c + 1 \in 1..c + 1 /\ \A p \in 1..c : p \in 1..c + 1
  BY SMTT(30)
<1>2. \A p \in 1..f.last : p \in 1..g.last
  BY SMTT(30)
<1>3. f.assigned \in Nat /\ a.src \in Nat
  BY DEF IsFrontier, Anchors
<1>4. a.from = "lookahead" /\ a.src <= f.assigned => \E p \in 1..c : Names(p)
  BY DEF AnchorOK
<1>5. a.from = "lookahead" /\ a.src = f.assigned + 1 => Names(c + 1)
  BY DEF NotRefused
<1>6. a.src <= f.assigned + 1 => a.src <= f.assigned \/ a.src = f.assigned + 1
  BY <1>3, SMTT(30)
<1>7. a.from = "lookahead" /\ a.src <= g.assigned => \E p \in 1..c + 1 : Names(p)
  BY <1>1, <1>4, <1>5, <1>6
<1>8. a.from = "accepted" => \E p \in 1..g.last : Names(p)
  BY <1>2 DEF AnchorOK
<1> QED
  BY <1>7, <1>8 DEF AnchorOK

\* A wanted event is received, and waits.
LEMMA ReceiveOK ==
    ASSUME Laws, NEW s \in Streams, NEW fd \in s.feeds, NEW n \in Nat, NEW f, NEW g, NEW c \in Nat,
           c + 1 <= Len(fd), Session(s, fd, n, f, c), IsReceive(f, c + 1, g),
           Wanted(s, fd[c + 1]), n = 0 \/ fd[c + 1].num < n, NotRefused(f, fd[c + 1])
    PROVE  Session(s, fd, n, g, c + 1)
<1> DEFINE p == c + 1
           o == f.assigned + 1
<1>1. fd \in Seq(Events) /\ Len(fd) \in Nat
  BY FeedFacts
<1>2. /\ IsFrontier(f) /\ FrontierOK(s, fd, f, c) /\ AnchorOK(s, fd, f, c)
      /\ RoutingOK(s, fd, f) /\ CountOK(fd, n, f, c)
  BY DEF Session
<1>3. fd[p].block
  BY DEF Wanted
<1>4. f.assigned = Ordinal(fd, c) /\ Ordinal(fd, p) = o /\ EventIs(fd, o, p)
  BY <1>2, <1>3, NextEvent
<1>5. /\ IsFrontier(g) /\ g.assigned = o /\ g.accepted = f.accepted
      /\ g.last = f.last /\ g.anchor = f.anchor
      /\ \A i \in f.accepted + 1..f.assigned : g.received[i] = f.received[i]
      /\ g.received[o] = [cursor |-> p, routing |-> Unresolved]
  BY DEF IsReceive
<1>6. /\ f.assigned \in Nat /\ f.accepted \in Nat /\ f.accepted <= f.assigned /\ f.last \in Nat
  BY <1>2 DEF IsFrontier
<1>7. /\ f.last \in 0..c /\ f.accepted = Ordinal(fd, f.last) /\ (f.last # 0 => fd[f.last].block)
  BY <1>2 DEF FrontierOK
<1>8. g.received[o].cursor = p /\ g.received[o].routing = Unresolved
  BY <1>5, SMTT(30)
<1>9. ASSUME NEW i \in g.accepted + 1..g.assigned
      PROVE  LET q == g.received[i].cursor
             IN  /\ q \in g.last + 1..p /\ EventIs(fd, i, q)
                 /\ g.received[i].routing = IF Wanted(s, fd[q]) THEN Unresolved ELSE Inherit
  <2>1. CASE i = o
    <3>1. p \in g.last + 1..p
      BY <1>5, <1>7, SMTT(30)
    <3> QED
      BY <1>4, <1>8, <2>1, <3>1
  <2>2. CASE i # o
    <3> DEFINE q == f.received[i].cursor
    <3>1. i \in f.accepted + 1..f.assigned
      BY <1>5, <1>6, <2>2, SMTT(30)
    <3>2. /\ q \in f.last + 1..c /\ EventIs(fd, i, q)
          /\ f.received[i].routing = IF Wanted(s, fd[q]) THEN Unresolved ELSE Inherit
      BY <1>2, <3>1 DEF FrontierOK
    <3>3. g.received[i] = f.received[i]
      BY <1>5, <3>1
    <3> HIDE DEF q
    <3>4. q \in g.last + 1..p
      BY <1>5, <1>6, <3>2, SMTT(30)
    <3> QED
      BY <3>2, <3>3, <3>4 DEF q
  <2> QED
    BY <2>1, <2>2
<1>10. g.accepted < g.assigned => g.received[g.accepted + 1].routing = Unresolved
  <2>1. CASE f.accepted = f.assigned
    BY <1>5, <1>8, <2>1
  <2>2. CASE f.accepted # f.assigned
    <3>1. f.accepted < f.assigned /\ f.accepted + 1 \in f.accepted + 1..f.assigned
      BY <1>6, <2>2, SMTT(30)
    <3>2. f.received[f.accepted + 1].routing = Unresolved
      BY <1>2, <3>1 DEF FrontierOK
    <3> QED
      BY <1>5, <3>1, <3>2
  <2> QED
    BY <2>1, <2>2
<1>11. p \in 0..Len(fd) /\ g.last \in 0..p
  BY <1>1, <1>5, <1>7, SMTT(30)
<1>12. FrontierOK(s, fd, g, p)
  <2>1. g.accepted = Ordinal(fd, g.last) /\ (g.last # 0 => fd[g.last].block)
    BY <1>5, <1>7
  <2> QED
    BY <1>9, <1>10, <1>11, <2>1 DEF FrontierOK
<1>13. AnchorOK(s, fd, g, p)
  <2>1. g.last \in Nat /\ f.last <= g.last /\ g.assigned = f.assigned + 1 /\ g.anchor = f.anchor
    BY <1>5, <1>6, SMTT(30)
  <2> QED
    BY <1>1, <1>2, <1>4, <1>6, <2>1, ReceivedAnchor
<1>14. RoutingOK(s, fd, g)
  BY <1>2, <1>5 DEF RoutingOK
<1>15. CountOK(fd, n, g, p)
  BY <1>4, <1>5 DEF CountOK
<1> QED
  BY <1>5, <1>12, <1>13, <1>14, <1>15 DEF Session

\* No event lies between the last accepted one and the client's cursor when
\* nothing waits.
LEMMA Caught ==
    ASSUME Laws, NEW s, NEW fd \in Seq(Events), NEW f, NEW c \in Nat, c + 1 <= Len(fd),
           IsFrontier(f), FrontierOK(s, fd, f, c), f.accepted = f.assigned,
           f.assigned = Ordinal(fd, c), ~Wanted(s, fd[c + 1])
    PROVE  \A q \in f.last + 1..c + 1 : ~Wanted(s, fd[q])
<1>1. f.last \in 0..c /\ f.accepted = Ordinal(fd, f.last) /\ f.accepted \in Nat
  BY DEF FrontierOK, IsFrontier
<1>2. ASSUME NEW q \in f.last + 1..c, fd[q].block
      PROVE  FALSE
  <2>1. q \in 0..Len(fd) /\ f.last \in 0..Len(fd) /\ c \in 0..Len(fd) /\ f.last < q /\ q <= c
        /\ f.last <= q
    BY <1>1, SMTT(30)
  <2>2. Ordinal(fd, f.last) < Ordinal(fd, q) /\ Ordinal(fd, q) <= Ordinal(fd, c)
    BY <1>2, <2>1, OrdinalOrder
  <2>3. Ordinal(fd, q) \in Nat
    BY <2>1, OrdinalFacts
  <2> QED
    BY <1>1, <2>2, <2>3, SMTT(30)
<1>3. \A q \in f.last + 1..c + 1 : q = c + 1 \/ q \in f.last + 1..c
  BY <1>1, SMTT(30)
<1> QED
  BY <1>2, <1>3 DEF Wanted

\* An event is filtered.
LEMMA FilteredFrontier ==
    ASSUME NEW s, NEW fd \in Seq(Events), NEW f, NEW g, NEW c \in Nat, c + 1 <= Len(fd),
           IsFrontier(f), FrontierOK(s, fd, f, c), IsFiltered(f, c + 1, g),
           ~Wanted(s, fd[c + 1]), EventIs(fd, f.assigned + 1, c + 1)
    PROVE  FrontierOK(s, fd, g, c + 1)
<1> DEFINE p == c + 1
           o == f.assigned + 1
<1>1. /\ f.assigned \in Nat /\ f.accepted \in Nat /\ f.accepted <= f.assigned /\ f.last \in Nat
  BY DEF IsFrontier
<1>2. /\ IsFrontier(g) /\ g.assigned = o
      /\ f.accepted = f.assigned => g.accepted = o /\ g.last = p
      /\ f.accepted < f.assigned =>
            /\ g.accepted = f.accepted /\ g.last = f.last
            /\ \A i \in f.accepted + 1..f.assigned : g.received[i] = f.received[i]
            /\ g.received[o].cursor = p /\ g.received[o].routing = Inherit
  BY DEF IsFiltered
<1>3. p \in 0..Len(fd) /\ p \in 1..Len(fd) /\ fd[p].block /\ Ordinal(fd, p) = o
  BY SMTT(30) DEF EventIs
<1>4. /\ f.last \in 0..c /\ f.accepted = Ordinal(fd, f.last) /\ (f.last # 0 => fd[f.last].block)
  BY DEF FrontierOK
<1>5. CASE f.accepted = f.assigned
  <2>1. g.accepted = o /\ g.last = p /\ g.assigned = o
    BY <1>2, <1>5
  <2>2. g.accepted + 1..g.assigned = {} /\ ~(g.accepted < g.assigned) /\ g.last \in 0..p
    BY <1>1, <2>1, SMTT(30)
  <2>3. g.accepted = Ordinal(fd, g.last) /\ fd[g.last].block
    BY <1>3, <2>1
  <2> QED
    BY <1>3, <2>2, <2>3 DEF FrontierOK
<1>6. CASE f.accepted < f.assigned
  <2>1. /\ g.accepted = f.accepted /\ g.last = f.last /\ g.assigned = o
        /\ \A i \in f.accepted + 1..f.assigned : g.received[i] = f.received[i]
        /\ g.received[o].cursor = p /\ g.received[o].routing = Inherit
    BY <1>2, <1>6
  <2>2. ASSUME NEW i \in g.accepted + 1..g.assigned
        PROVE  LET q == g.received[i].cursor
               IN  /\ q \in g.last + 1..p /\ EventIs(fd, i, q)
                   /\ g.received[i].routing = IF Wanted(s, fd[q]) THEN Unresolved ELSE Inherit
    <3>1. CASE i = o
      <4>1. p \in g.last + 1..p
        BY <1>4, <2>1, SMTT(30)
      <4> QED
        BY <2>1, <3>1, <4>1
    <3>2. CASE i # o
      <4> DEFINE q == f.received[i].cursor
      <4>1. i \in f.accepted + 1..f.assigned
        BY <1>1, <2>1, <3>2, SMTT(30)
      <4>2. /\ q \in f.last + 1..c /\ EventIs(fd, i, q)
            /\ f.received[i].routing = IF Wanted(s, fd[q]) THEN Unresolved ELSE Inherit
        BY <4>1 DEF FrontierOK
      <4>3. g.received[i] = f.received[i]
        BY <2>1, <4>1
      <4> HIDE DEF q
      <4>4. q \in g.last + 1..p
        BY <1>1, <2>1, <4>2, SMTT(30)
      <4> QED
        BY <4>2, <4>3, <4>4 DEF q
    <3> QED
      BY <3>1, <3>2
  <2>3. g.received[g.accepted + 1].routing = Unresolved
    <3>1. f.accepted + 1 \in f.accepted + 1..f.assigned
      BY <1>1, <1>6, SMTT(30)
    <3>2. f.received[f.accepted + 1].routing = Unresolved
      BY <1>6 DEF FrontierOK
    <3> QED
      BY <2>1, <3>1, <3>2
  <2>4. g.last \in 0..p /\ g.accepted = Ordinal(fd, g.last) /\ (g.last # 0 => fd[g.last].block)
    BY <1>4, <2>1, SMTT(30)
  <2> QED
    BY <1>3, <2>2, <2>3, <2>4 DEF FrontierOK
<1> QED
  BY <1>1, <1>5, <1>6, SMTT(30)

\* What filtering an event passes over is not wanted.
LEMMA FilteredSpan ==
    ASSUME Laws, NEW s \in Streams, NEW fd \in s.feeds, NEW n, NEW f, NEW g, NEW c \in Nat,
           c + 1 <= Len(fd), Session(s, fd, n, f, c), IsFiltered(f, c + 1, g),
           f.assigned = Ordinal(fd, c), ~Wanted(s, fd[c + 1])
    PROVE  /\ g.last \in 0..Len(fd) /\ f.last \in 0..g.last /\ g.anchor = f.anchor
           /\ \A q \in f.last + 1..g.last : ~Wanted(s, fd[q])
<1>1. fd \in Seq(Events) /\ Len(fd) \in Nat
  BY FeedFacts
<1>2. /\ IsFrontier(f) /\ FrontierOK(s, fd, f, c) /\ f.last \in 0..c
      /\ f.accepted \in Nat /\ f.assigned \in Nat /\ f.accepted <= f.assigned
  BY DEF Session, IsFrontier, FrontierOK
<1>3. g.anchor = f.anchor
  BY DEF IsFiltered
<1>4. CASE f.accepted = f.assigned
  <2>1. g.last = c + 1
    BY <1>4 DEF IsFiltered
  <2>2. \A q \in f.last + 1..c + 1 : ~Wanted(s, fd[q])
    BY <1>1, <1>2, <1>4, Caught
  <2> QED
    BY <1>1, <1>2, <1>3, <2>1, <2>2, SMTT(30)
<1>5. CASE f.accepted < f.assigned
  <2>1. g.last = f.last
    BY <1>5 DEF IsFiltered
  <2>2. f.last + 1..g.last = {}
    BY <1>2, <2>1, SMTT(30)
  <2> QED
    BY <1>1, <1>2, <1>3, <2>1, <2>2, SMTT(30)
<1> QED
  BY <1>2, <1>4, <1>5, SMTT(30)

\* A filtered event is received, and accepted in its turn.
LEMMA FilteredOK ==
    ASSUME Laws, NEW s \in Streams, NEW fd \in s.feeds, NEW n \in Nat, NEW f, NEW g, NEW c \in Nat,
           c + 1 <= Len(fd), Session(s, fd, n, f, c), IsFiltered(f, c + 1, g),
           fd[c + 1].block, ~Wanted(s, fd[c + 1]), n = 0 \/ fd[c + 1].num < n,
           NotRefused(f, fd[c + 1])
    PROVE  Session(s, fd, n, g, c + 1)
<1>1. fd \in Seq(Events) /\ Len(fd) \in Nat
  BY FeedFacts
<1>2. /\ IsFrontier(f) /\ FrontierOK(s, fd, f, c) /\ AnchorOK(s, fd, f, c)
      /\ RoutingOK(s, fd, f) /\ CountOK(fd, n, f, c)
  BY DEF Session
<1>3. /\ f.assigned = Ordinal(fd, c) /\ Ordinal(fd, c + 1) = f.assigned + 1
      /\ EventIs(fd, f.assigned + 1, c + 1)
  BY <1>2, NextEvent
<1>4. /\ g.last \in 0..Len(fd) /\ f.last \in 0..g.last /\ g.anchor = f.anchor
      /\ \A q \in f.last + 1..g.last : ~Wanted(s, fd[q])
  BY <1>3, FilteredSpan
<1>5. FrontierOK(s, fd, g, c + 1)
  BY <1>1, <1>2, <1>3, FilteredFrontier
<1>6. g.assigned = f.assigned + 1 /\ IsFrontier(g)
  BY DEF IsFiltered
<1>7. AnchorOK(s, fd, g, c + 1)
  <2>1. g.last \in Nat /\ f.last \in Nat /\ f.last <= g.last
    BY <1>4, SMTT(30)
  <2> QED
    BY <1>1, <1>2, <1>3, <1>4, <1>6, <2>1, ReceivedAnchor
<1>8. RoutingOK(s, fd, g)
  <2>1. /\ \A t : KnownAt(s, fd, f.last, t) => KnownAt(s, fd, g.last, t)
        /\ \A t : AheadAt(s, fd, f.last, t) => AheadAt(s, fd, g.last, t)
    BY <1>1, <1>4, Advance, ZenonT(30)
  <2> QED
    BY <1>2, <1>4, <2>1 DEF RoutingOK
<1>9. CountOK(fd, n, g, c + 1)
  BY <1>3, <1>6 DEF CountOK
<1> QED
  BY <1>5, <1>6, <1>7, <1>8, <1>9 DEF Session

\* A source stays honoured when more is accepted.
LEMMA HonouredOn ==
    ASSUME NEW fd, NEW f, NEW g, f.last \in Nat, g.last \in Nat, f.last <= g.last, NEW a,
           HonouredAt(fd, f, a), g.anchor = f.anchor
    PROVE  HonouredAt(fd, g, a)
<1>1. \A p \in 1..f.last : p \in 1..g.last
  BY SMTT(30)
<1> QED
  BY <1>1 DEF HonouredAt

\* A filtered event adds no row to the window.
LEMMA FilteredWindow ==
    ASSUME Laws, NEW s \in Streams, NEW fd \in s.feeds, NEW n, NEW f, NEW g, NEW c \in Nat,
           c + 1 <= Len(fd), Session(s, fd, n, f, c), IsFiltered(f, c + 1, g),
           f.assigned = Ordinal(fd, c), ~Wanted(s, fd[c + 1]),
           NEW d \in CheckpointSet, NEW rows, Window(s, fd, f, d, rows)
    PROVE  Window(s, fd, g, d, rows)
<1>1. /\ g.last \in 0..Len(fd) /\ f.last \in 0..g.last /\ g.anchor = f.anchor
      /\ \A q \in f.last + 1..g.last : ~Wanted(s, fd[q])
  BY FilteredSpan
<1>2. fd \in Seq(Events) /\ Len(fd) \in Nat
  BY FeedFacts
<1>3. g.last \in Nat /\ f.last \in Nat /\ f.last <= g.last /\ d.cursor \in Nat
  BY <1>1, <1>2, SMTT(30) DEF CheckpointSet
<1>4. RowsOK(s, fd, rows, g.last)
  BY <1>1, <1>2, Advance DEF Window
<1>5. RoutedOK(s, fd, g, rows)
  <2>1. RoutedOK(s, fd, f, rows)
    BY DEF Window
  <2>2. \A a : HonouredAt(fd, f, a) => HonouredAt(fd, g, a)
    BY <1>1, <1>3, HonouredOn
  <2> QED
    BY <2>1, <2>2 DEF RoutedOK
<1>6. d.cursor <= g.last
  BY <1>3, SMTT(30) DEF Window
<1> QED
  BY <1>4, <1>5, <1>6 DEF Window

\* A filtered event is not one that waits.
LEMMA FilteredRuntime ==
    ASSUME NEW s, NEW fd, NEW f, NEW g, NEW p, NEW r, NEW at,
           IsFrontier(f), IsFiltered(f, p, g), Runtime(s, fd, f, r, at), r.work = <<>>
    PROVE  Runtime(s, fd, g, r, at)
<1>1. f.assigned \in Nat /\ f.accepted \in Nat /\ f.accepted <= f.assigned
  BY DEF IsFrontier
<1>2. /\ g.anchor = f.anchor /\ g.assigned = f.assigned + 1
      /\ f.accepted = f.assigned => g.accepted = f.assigned + 1
      /\ f.accepted < f.assigned =>
            /\ g.accepted = f.accepted
            /\ \A i \in f.accepted + 1..f.assigned : g.received[i] = f.received[i]
            /\ g.received[f.assigned + 1].routing = Inherit
  BY DEF IsFiltered
<1>3. Waits(g) = Waits(f) /\ \A o \in Waits(f) : g.received[o] = f.received[o]
  <2>1. CASE f.accepted = f.assigned
    BY <1>1, <1>2, <2>1, SMTT(30) DEF Waits
  <2>2. CASE f.accepted < f.assigned
    <3>1. \A o : o \in g.accepted + 1..g.assigned <=>
                 o \in f.accepted + 1..f.assigned \/ o = f.assigned + 1
      BY <1>1, <1>2, <2>2, SMTT(30)
    <3>2. f.assigned + 1 \notin f.accepted + 1..f.assigned
      BY <1>1, SMTT(30)
    <3>3. \A o \in f.accepted + 1..f.assigned : g.received[o] = f.received[o]
      BY <1>2, <2>2
    <3>4. g.received[f.assigned + 1].routing # Unresolved
      BY <1>2, <2>2, Routings
    <3>5. \A o : o \in Waits(g) <=> o \in Waits(f)
      BY <3>1, <3>3, <3>4 DEF Waits
    <3>6. \A o \in Waits(f) : g.received[o] = f.received[o]
      BY <3>3 DEF Waits
    <3> QED
      BY <3>5, <3>6, ZenonT(30)
  <2> QED
    BY <1>1, <2>1, <2>2, SMTT(30)
<1>4. QueueOK(g, r)
  BY <1>3, ZenonT(30) DEF Runtime, QueueOK
<1>5. HoldOK(s, fd, g, r)
  <2>1. HoldOK(s, fd, f, r) /\ QueueOK(f, r)
    BY DEF Runtime
  <2>2. \A i \in DOMAIN r.buffer : g.received[r.buffer[i]] = f.received[r.buffer[i]]
    BY <1>3, <2>1 DEF QueueOK
  <2> QED
    BY <1>2, <2>1, <2>2 DEF HoldOK
<1>6. ReadyOK(s, fd, g, r) /\ KnownOK(s, g, r)
  BY <1>2 DEF ReadyOK, KnownOK, Runtime
<1> QED
  BY <1>4, <1>5, <1>6 DEF Runtime

\* A received event waits after those that wait already.
LEMMA ReceiveWaits ==
    ASSUME NEW f, NEW g, NEW p, IsFrontier(f), IsReceive(f, p, g)
    PROVE  /\ \A o : o \in Waits(g) <=> o \in Waits(f) \/ o = f.assigned + 1
           /\ \A o \in Waits(f) : /\ g.received[o] = f.received[o] /\ o \in Nat
                                  /\ o < f.assigned + 1
           /\ g.received[f.assigned + 1].cursor = p
           /\ g.anchor = f.anchor
<1>1. f.assigned \in Nat /\ f.accepted \in Nat /\ f.accepted <= f.assigned
  BY DEF IsFrontier
<1>2. /\ g.assigned = f.assigned + 1 /\ g.accepted = f.accepted /\ g.anchor = f.anchor
      /\ \A i \in f.accepted + 1..f.assigned : g.received[i] = f.received[i]
      /\ g.received[f.assigned + 1] = [cursor |-> p, routing |-> Unresolved]
  BY DEF IsReceive
<1>3. \A o : o \in g.accepted + 1..g.assigned <=>
             o \in f.accepted + 1..f.assigned \/ o = f.assigned + 1
  BY <1>1, <1>2, SMTT(30)
<1>4. g.received[f.assigned + 1].cursor = p /\ g.received[f.assigned + 1].routing = Unresolved
  BY <1>2, SMTT(30)
<1>5. \A o : o \in Waits(g) <=> o \in Waits(f) \/ o = f.assigned + 1
  BY <1>2, <1>3, <1>4 DEF Waits
<1>6. \A o \in Waits(f) : /\ g.received[o] = f.received[o] /\ o \in Nat /\ o < f.assigned + 1
  BY <1>1, <1>2, SMTT(30) DEF Waits
<1> QED
  BY <1>2, <1>4, <1>5, <1>6

\* A block without a time is held.
LEMMA BufferedRuntime ==
    ASSUME NEW s, NEW fd, NEW f, NEW g, NEW p, NEW r, NEW q, NEW at, at = "streaming",
           IsFrontier(f), IsReceive(f, p, g), Runtime(s, fd, f, r, at), r.buffer \in Seq(Nat),
           s.policy = "lookahead", f.anchor = NoAnchor, ~r.mapped, fd[p].time = 0,
           q.bootstrap = "buffering", q.buffer = Append(r.buffer, f.assigned + 1),
           q.work = r.work, q.rows = r.rows, q.mapped = r.mapped, q.day = r.day
    PROVE  Runtime(s, fd, g, q, at)
<1> DEFINE o == f.assigned + 1
           n == Len(r.buffer) + 1
<1>1. /\ \A w : w \in Waits(g) <=> w \in Waits(f) \/ w = o
      /\ \A w \in Waits(f) : g.received[w] = f.received[w] /\ w \in Nat /\ w < o
      /\ g.received[o].cursor = p /\ g.anchor = f.anchor
  BY ReceiveWaits
<1>2. f.assigned \in Nat
  BY DEF IsFrontier
<1>3. /\ QueueOK(f, r) /\ HoldOK(s, fd, f, r) /\ PlaceOK(at, r) /\ DayOK(r) /\ r.work = <<>>
  BY DEF Runtime, PlaceOK
<1>4. /\ n \in Nat /\ DOMAIN q.buffer = 1..n /\ DOMAIN r.buffer = 1..n - 1
      /\ q.buffer[n] = o /\ \A i \in 1..n - 1 : q.buffer[i] = r.buffer[i]
      /\ n \in 1..n /\ \A i \in 1..n : i = n \/ i \in 1..n - 1
      /\ \A i \in 1..n - 1 : i \in 1..n
  BY <1>2, SMTT(30)
<1>5. \A i \in 1..n - 1 : r.buffer[i] \in Waits(f)
  BY <1>3, <1>4 DEF QueueOK
<1> HIDE DEF n, o
<1>6. QueueOK(g, q)
  <2>1. q.work = <<>>
    BY <1>3
  <2>2. \A w \in Waits(g) : \E i \in DOMAIN q.buffer : q.buffer[i] = w
    <3>1. \A w \in Waits(f) : \E i \in DOMAIN r.buffer : r.buffer[i] = w
      BY <1>3, SMTT(30) DEF QueueOK
    <3> QED
      BY <1>1, <1>4, <3>1, SMTT(30)
  <2>3. \A i \in DOMAIN q.buffer : q.buffer[i] \in Waits(g)
    BY <1>1, <1>4, <1>5
  <2>4. \A i, j \in DOMAIN q.buffer : i < j => q.buffer[i] < q.buffer[j]
    <3>1. \A i, j \in 1..n : i < j => i \in 1..n - 1 /\ (j = n \/ j \in 1..n - 1)
      BY <1>4, SMTT(30)
    <3>2. \A i, j \in 1..n - 1 : i < j => r.buffer[i] < r.buffer[j]
      BY <1>3, <1>4, ZenonT(30) DEF QueueOK
    <3> QED
      BY <1>1, <1>4, <1>5, <3>1, <3>2, SMTT(30)
  <2> QED
    BY <2>1, <2>2, <2>3, <2>4, SMTT(30) DEF QueueOK
<1>7. HoldOK(s, fd, g, q)
  <2>1. ASSUME NEW i \in DOMAIN q.buffer
        PROVE  fd[g.received[q.buffer[i]].cursor].time = 0
    <3>1. CASE i = n
      BY <1>1, <1>4, <3>1
    <3>2. CASE i \in 1..n - 1
      <4>1. r.buffer # <<>>
        BY <1>4, <3>2, SMTT(30)
      <4>2. fd[f.received[r.buffer[i]].cursor].time = 0
        BY <1>3, <1>4, <3>2, <4>1 DEF HoldOK
      <4>3. g.received[q.buffer[i]] = f.received[r.buffer[i]]
        BY <1>1, <1>4, <1>5, <3>2
      <4> QED
        BY <4>2, <4>3
    <3> QED
      BY <1>4, <3>1, <3>2, ZenonT(30)
  <2> QED
    BY <1>1, <2>1 DEF HoldOK
<1>8. ReadyOK(s, fd, g, q) /\ KnownOK(s, g, q) /\ PlaceOK(at, q) /\ DayOK(q)
  BY <1>3 DEF ReadyOK, KnownOK, PlaceOK, DayOK
<1> QED
  BY <1>6, <1>7, <1>8 DEF Runtime

\* The held blocks and this one are ready.
Ready(r, o, t, work) ==
    LET n == Len(r.buffer) + 1
    IN  /\ n \in Nat /\ n >= 1 /\ Len(work) = n
        /\ DOMAIN work = 1..n /\ DOMAIN r.buffer = 1..n - 1
        /\ work[n] = [ord |-> o, time |-> t, look |-> 0]
        /\ \A i \in 1..n - 1 : work[i] = [ord |-> r.buffer[i], time |-> t, look |-> o]

\* The sequence that observe_block makes is that of the held blocks and this one.
LEMMA ReadyIs ==
    ASSUME NEW r, r.buffer \in Seq(Nat), NEW o \in Nat, NEW t \in Nat
    PROVE  LET work == [i \in DOMAIN r.buffer |-> [ord |-> r.buffer[i], time |-> t, look |-> o]]
                       \o <<[ord |-> o, time |-> t, look |-> 0]>>
           IN  Ready(r, o, t, work) /\ work \in Seq(ReadySet)
<1> DEFINE held == [i \in DOMAIN r.buffer |-> [ord |-> r.buffer[i], time |-> t, look |-> o]]
           last == [ord |-> o, time |-> t, look |-> 0]
           work == held \o <<last>>
           m == Len(r.buffer)
<1>1. m \in Nat /\ DOMAIN r.buffer = 1..m /\ \A i \in 1..m : r.buffer[i] \in Nat
  BY SMTT(30)
<1>2. \A i \in 1..m : /\ held[i] = [ord |-> r.buffer[i], time |-> t, look |-> o]
                      /\ held[i] \in ReadySet
  BY <1>1 DEF ReadySet
<1>3. last \in ReadySet
  BY DEF ReadySet
<1> HIDE DEF last
<1>4. held \in Seq(ReadySet) /\ Len(held) = m
  <2>1. held \in [1..m -> ReadySet]
    BY <1>1, <1>2
  <2> HIDE DEF held
  <2> QED
    BY <1>1, <2>1, SMTT(30)
<1> HIDE DEF held
<1>5. /\ work \in Seq(ReadySet) /\ Len(work) = m + 1 /\ work[m + 1] = last
      /\ \A i \in 1..m : work[i] = held[i]
  BY <1>1, <1>3, <1>4, SMTT(30)
<1>6. m + 1 - 1 = m /\ m + 1 \in Nat /\ m + 1 >= 1
  BY <1>1, SMTT(30)
<1> HIDE DEF m, work
<1>7. DOMAIN work = 1..m + 1
  BY <1>5, SMTT(30)
<1>8. Ready(r, o, t, work)
  <2>1. \A i \in 1..m : work[i] = [ord |-> r.buffer[i], time |-> t, look |-> o]
    BY <1>2, <1>5
  <2> SUFFICES /\ m + 1 \in Nat /\ m + 1 >= 1 /\ Len(work) = m + 1 /\ DOMAIN work = 1..m + 1
               /\ DOMAIN r.buffer = 1..m + 1 - 1 /\ work[m + 1] = last
               /\ \A i \in 1..m + 1 - 1 :
                     work[i] = [ord |-> r.buffer[i], time |-> t, look |-> o]
    BY SMTT(30) DEF Ready, m, last
  <2> QED
    BY <1>1, <1>5, <1>6, <1>7, <2>1
<1> QED
  BY <1>5, <1>8 DEF work, held, last

\* The same, of the blocks under a name.
LEMMA ReadyWork ==
    ASSUME NEW r, r.buffer \in Seq(Nat), NEW o \in Nat, NEW t \in Nat, NEW w,
           w = [i \in DOMAIN r.buffer |-> [ord |-> r.buffer[i], time |-> t, look |-> o]]
               \o <<[ord |-> o, time |-> t, look |-> 0]>>
    PROVE  Ready(r, o, t, w) /\ w \in Seq(ReadySet)
BY ReadyIs

\* The runtime once the held blocks and the received one are ready.
LEMMA ReadyRuntime ==
    ASSUME NEW s, NEW fd, NEW f, NEW g, NEW p, NEW r, NEW q, NEW at, at = "streaming", NEW t,
           IsFrontier(f), IsReceive(f, p, g), Runtime(s, fd, f, r, at),
           Ready(r, f.assigned + 1, t, q.work), q.buffer = <<>>, q.rows = r.rows, q.day = r.day,
           s.policy = "last_known" => q.known = t,
           fd[p].time # 0 => t = fd[p].time,
           fd[p].time = 0 => /\ r.buffer = <<>>
                             /\ s.policy = "last_known" => t = r.known
                             /\ s.policy = "lookahead" =>
                                   t = 0 \/ (f.anchor # NoAnchor /\ t = f.anchor.secs)
    PROVE  Runtime(s, fd, g, q, "observing")
<1> DEFINE o == f.assigned + 1
           n == Len(r.buffer) + 1
<1>1. /\ \A w : w \in Waits(g) <=> w \in Waits(f) \/ w = o
      /\ \A w \in Waits(f) : g.received[w] = f.received[w] /\ w \in Nat /\ w < o
      /\ g.received[o].cursor = p /\ g.anchor = f.anchor
  BY ReceiveWaits
<1>2. f.assigned \in Nat /\ o \in Nat
  BY SMTT(30) DEF IsFrontier
<1>3. /\ QueueOK(f, r) /\ HoldOK(s, fd, f, r) /\ KnownOK(s, f, r) /\ DayOK(r) /\ r.work = <<>>
  BY DEF Runtime, PlaceOK
<1>4. /\ n \in Nat /\ n >= 1 /\ Len(q.work) = n /\ DOMAIN q.work = 1..n /\ DOMAIN r.buffer = 1..n - 1
      /\ q.work[n] = [ord |-> o, time |-> t, look |-> 0]
      /\ \A i \in 1..n - 1 : q.work[i] = [ord |-> r.buffer[i], time |-> t, look |-> o]
  BY DEF Ready
<1>5. /\ \A i \in 1..n - 1 : r.buffer[i] \in Waits(f)
      /\ \A i, j \in 1..n - 1 : i < j => r.buffer[i] < r.buffer[j]
      /\ \A w \in Waits(f) : \E i \in 1..n - 1 : r.buffer[i] = w
  BY <1>3, <1>4, SMTT(30) DEF QueueOK
<1>6. /\ q.work[n].ord = o /\ q.work[n].time = t /\ q.work[n].look = 0
      /\ \A i \in 1..n - 1 : /\ q.work[i].ord = r.buffer[i] /\ q.work[i].time = t
                             /\ q.work[i].look = o
  <2>1. q.work[n].ord = o /\ q.work[n].time = t /\ q.work[n].look = 0
    BY <1>4, SMTT(30)
  <2>2. ASSUME NEW i \in 1..n - 1
        PROVE  q.work[i].ord = r.buffer[i] /\ q.work[i].time = t /\ q.work[i].look = o
    <3>1. q.work[i] = [ord |-> r.buffer[i], time |-> t, look |-> o]
      BY <1>4
    <3> HIDE DEF n, o
    <3> QED
      BY <3>1, SMTT(30)
  <2> QED
    BY <2>1, <2>2
<1>7. /\ n \in 1..n /\ 1 \in 1..n /\ \A i \in 1..n : i = n \/ i \in 1..n - 1
      /\ \A i \in 1..n - 1 : i \in 1..n
      /\ \A i, j \in 1..n : i < j => i \in 1..n - 1
  BY <1>4, SMTT(30)
<1> HIDE DEF n, o
<1>8. ASSUME NEW i \in 1..n
      PROVE  q.work[i].ord \in Waits(g) /\ q.work[i].time = t
  <2>1. CASE i = n
    BY <1>1, <1>6, <2>1, ZenonT(30)
  <2>2. CASE i \in 1..n - 1
    BY <1>1, <1>5, <1>6, <2>2
  <2> QED
    BY <1>7, <2>1, <2>2
<1>9. QueueOK(g, q)
  <2>1. ASSUME NEW w \in Waits(g)
        PROVE  \E i \in DOMAIN q.work : q.work[i].ord = w
    <3>1. CASE w = o
      BY <1>4, <1>6, <1>7, <3>1
    <3>2. CASE w \in Waits(f)
      <4>1. PICK i \in 1..n - 1 : r.buffer[i] = w
        BY <1>5, <3>2
      <4> QED
        BY <1>4, <1>6, <1>7, <4>1
    <3> QED
      BY <1>1, <3>1, <3>2
  <2>2. \A i, j \in DOMAIN q.work : i < j => q.work[i].ord < q.work[j].ord
    <3>1. ASSUME NEW i \in 1..n, NEW j \in 1..n, i < j
          PROVE  q.work[i].ord < q.work[j].ord
      <4>1. i \in 1..n - 1 /\ q.work[i].ord = r.buffer[i] /\ r.buffer[i] \in Waits(f)
        BY <1>5, <1>6, <1>7, <3>1
      <4>2. CASE j = n
        BY <1>1, <1>6, <4>1, <4>2
      <4>3. CASE j \in 1..n - 1
        BY <1>5, <1>6, <3>1, <4>1, <4>3
      <4> QED
        BY <1>7, <4>2, <4>3
    <3> QED
      BY <1>4, <3>1
  <2>3. DOMAIN q.buffer = {}
    BY SMTT(30)
  <2>4. \A i \in DOMAIN q.work : q.work[i].ord \in Waits(g)
    BY <1>4, <1>8
  <2> QED
    BY <2>1, <2>2, <2>3, <2>4 DEF QueueOK
<1>10. ReadyOK(s, fd, g, q)
  <2> DEFINE Event(w) == fd[g.received[w].cursor]
  <2>1. \A i \in 1..n - 1 : /\ q.work[i].look = q.work[n].ord /\ q.work[i].time = q.work[n].time
                            /\ Event(q.work[i].ord).time = 0
    <3>1. ASSUME NEW i \in 1..n - 1
          PROVE  Event(q.work[i].ord).time = 0
      <4>1. r.buffer # <<>>
        BY <1>4, SMTT(30)
      <4>2. fd[f.received[r.buffer[i]].cursor].time = 0
        BY <1>3, <1>4, <4>1 DEF HoldOK
      <4>3. g.received[q.work[i].ord] = f.received[r.buffer[i]]
        BY <1>1, <1>5, <1>6
      <4> QED
        BY <4>2, <4>3, ZenonT(30)
    <3> QED
      BY <1>6, <3>1
  <2>2. Event(q.work[n].ord) = fd[p]
    BY <1>1, <1>6
  <2>3. ASSUME fd[p].time = 0
        PROVE  /\ n = 1
               /\ s.policy = "last_known" => t = Known(g.anchor)
               /\ s.policy = "lookahead" => t = 0 \/ (g.anchor # NoAnchor /\ t = g.anchor.secs)
    <3>1. r.buffer = <<>>
      BY <2>3
    <3>2. n = 1
      BY <3>1, SMTT(30) DEF n
    <3>3. s.policy = "last_known" => t = Known(f.anchor)
      BY <1>3, <2>3 DEF KnownOK
    <3> QED
      BY <1>1, <2>3, <3>2, <3>3
  <2>4. n > 1 => s.policy = "lookahead" /\ g.anchor = NoAnchor
    <3>1. n > 1 => r.buffer # <<>>
      BY <1>4, SMTT(30)
    <3> QED
      BY <1>1, <1>3, <3>1, ZenonT(30) DEF HoldOK
  <2>5. Len(q.work) = n
    BY <1>4
  <2> HIDE DEF Event
  <2> SUFFICES /\ \A i \in 1..n - 1 :
                     /\ q.work[i].look = q.work[n].ord /\ q.work[i].time = q.work[n].time
                     /\ Event(q.work[i].ord).time = 0
               /\ q.work[n].look = 0
               /\ IF Event(q.work[n].ord).time # 0
                  THEN q.work[n].time = Event(q.work[n].ord).time
                  ELSE /\ n = 1
                       /\ s.policy = "last_known" => q.work[n].time = Known(g.anchor)
                       /\ s.policy = "lookahead" =>
                             \/ q.work[n].time = 0
                             \/ g.anchor # NoAnchor /\ q.work[n].time = g.anchor.secs
               /\ n > 1 => /\ s.policy = "lookahead"
                           /\ g.anchor \in {NoAnchor, AnchorAt(q.work[n].ord,
                                                      Event(q.work[n].ord), "lookahead")}
    BY <2>5, ZenonT(30) DEF ReadyOK, Event
  <2>6. q.work[n].look = 0 /\ q.work[n].time = t
    BY <1>6
  <2> QED
    BY <2>1, <2>2, <2>3, <2>4, <2>6
<1>11. KnownOK(s, g, q) /\ PlaceOK("observing", q)
  <2>1. q.work # <<>>
    BY <1>4, <1>7, SMTT(30)
  <2>2. q.work[1].time = t
    BY <1>7, <1>8
  <2> QED
    BY <2>1, <2>2 DEF KnownOK, PlaceOK
<1>12. HoldOK(s, fd, g, q) /\ DayOK(q)
  BY <1>3 DEF HoldOK, DayOK
<1> QED
  BY <1>9, <1>10, <1>11, <1>12 DEF Runtime
=============================================================================
