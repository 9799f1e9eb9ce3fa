------------------------- MODULE IngestStreamProofs -------------------------
(* For every set of streams, every feed of them and any number of faults    *)
(* and crashes: what is durable is the mapped prefix of the feed, routed as *)
(* the feed determines, a session accepts every block it has mapped, a      *)
(* completed bound is true and a flush holds the rows of one day.           *)
EXTENDS FrontierProofs

USE Zenon

-----------------------------------------------------------------------------
(* The head of the ready work is routed and accepted.                       *)

\* The conditions of MayAccept on the anchor a, for any stream and feed: the
\* event that an anchor names is received, or the last accepted one, or the
\* anchor is not a new one.
Sourced(fd, f, a) ==
    /\ a.src \in DOMAIN f.received => a = AnchorAt(a.src, fd[f.received[a.src].cursor], a.from)
    /\ a.src = f.accepted /\ f.last # 0 => a = AnchorAt(a.src, fd[f.last], a.from)
    /\ a.src \in DOMAIN f.received \/ (a.src = f.accepted /\ f.last # 0) \/ a = f.anchor

Fits(s, fd, f, w, p, a) ==
    /\ w.look # 0 => /\ s.policy = "lookahead" /\ w.look > w.ord
                     /\ w.look \in DOMAIN f.received
                     /\ fd[f.received[w.look].cursor].time # 0 /\ fd[p].time = 0
    /\ s.policy = "lookahead" /\ fd[p].time # 0 => w.time = fd[p].time
    /\ s.policy = "lookahead" /\ fd[p].time = 0 => a.from = "lookahead"
    /\ a # NoAnchor => w.time = a.secs
    /\ a.src > f.assigned => a = f.anchor
    /\ a.from \notin {"none", "genesis"} => Sourced(fd, f, a)

\* The anchor of the frontier names the event that it is compared with.
LEMMA AnchorSourced ==
    ASSUME Laws, NEW s, NEW fd \in Seq(Events), NEW f, NEW c, IsFrontier(f), FrontierOK(s, fd, f, c),
           AnchorOK(s, fd, f, c), f.anchor.from \in {"accepted", "lookahead"}
    PROVE  Sourced(fd, f, f.anchor)
<1> DEFINE a == f.anchor
<1>1. /\ DOMAIN f.received = f.accepted + 1..f.assigned /\ f.accepted \in Nat
      /\ f.assigned \in Nat /\ f.accepted <= f.assigned /\ a \in Anchors /\ f.last \in Nat
  BY DEF IsFrontier
<1>2. a.src \in Nat
  BY <1>1 DEF Anchors
<1>3. /\ c \in 0..Len(fd) /\ f.last \in 0..c /\ f.accepted = Ordinal(fd, f.last)
      /\ f.last # 0 => fd[f.last].block
      /\ \A o \in f.accepted + 1..f.assigned : EventIs(fd, o, f.received[o].cursor)
  BY DEF FrontierOK
<1>4. f.last # 0 => EventIs(fd, f.accepted, f.last)
  BY <1>1, <1>3, SMTT(30) DEF EventIs
<1>5. a.src \in DOMAIN f.received \/ (a.src = f.accepted /\ f.last # 0) =>
         \E x \in 1..c : EventIs(fd, a.src, x) /\ a = AnchorAt(a.src, fd[x], a.from)
  <2>1. a.src \in DOMAIN f.received \/ a.src = f.accepted => a.src <= f.assigned
    BY <1>1, <1>2, SMTT(30)
  <2>2. \A x \in 1..f.last : x \in 1..c
    BY <1>1, <1>3, SMTT(30)
  <2> QED
    BY <2>1, <2>2 DEF AnchorOK
<1>6. ASSUME a.src \in DOMAIN f.received
      PROVE  a = AnchorAt(a.src, fd[f.received[a.src].cursor], a.from)
  <2>1. PICK x \in 1..c : EventIs(fd, a.src, x) /\ a = AnchorAt(a.src, fd[x], a.from)
    BY <1>5, <1>6
  <2>2. EventIs(fd, a.src, f.received[a.src].cursor)
    BY <1>1, <1>3, <1>6
  <2>3. x = f.received[a.src].cursor
    BY <2>1, <2>2, EventUnique
  <2> QED
    BY <2>1, <2>3
<1>7. ASSUME a.src = f.accepted, f.last # 0
      PROVE  a = AnchorAt(a.src, fd[f.last], a.from)
  <2>1. PICK x \in 1..c : EventIs(fd, a.src, x) /\ a = AnchorAt(a.src, fd[x], a.from)
    BY <1>5, <1>7
  <2>2. EventIs(fd, a.src, f.last)
    BY <1>4, <1>7
  <2>3. x = f.last
    BY <2>1, <2>2, EventUnique
  <2> QED
    BY <2>1, <2>3
<1> QED
  BY <1>6, <1>7 DEF Sourced

\* Whatever way a block is routed, its anchor fits.
LEMMA RoutedFits ==
    ASSUME Laws, NEW s, NEW fd \in Seq(Events), NEW f, NEW c, NEW work, NEW p, NEW a,
           s.policy \in {"lookahead", "last_known"},
           IsFrontier(f), FrontierOK(s, fd, f, c), AnchorOK(s, fd, f, c),
           HeadIs(s, fd, f, c, work[1], p), Routed(s, fd, f, work, p, a)
    PROVE  Fits(s, fd, f, work[1], p, a)
<1> DEFINE w == work[1]
<1>1. /\ DOMAIN f.received = f.accepted + 1..f.assigned /\ f.accepted \in Nat
      /\ f.assigned \in Nat /\ f.accepted <= f.assigned /\ f.anchor \in Anchors
  BY DEF IsFrontier
<1>2. /\ w.ord = f.accepted + 1 /\ w.ord \in f.accepted + 1..f.assigned
      /\ p = f.received[w.ord].cursor
  BY DEF HeadIs
<1>3. "lookahead" # "last_known"
  OBVIOUS
<1>4. /\ NoAnchor.src = 0 /\ NoAnchor.from = "none" /\ GenesisAnchor.src = 0
      /\ GenesisAnchor.from = "genesis" /\ ~(0 > f.assigned)
  <2>1. GenesisAnchor.src = 0
    BY DEF GenesisAnchor, NoAnchor
  <2> QED
    BY <1>1, <2>1, AnchorFacts, SMTT(30)
<1> HIDE DEF w
<1>5. CASE Own(s, fd, work, p, a)
  <2>1. /\ s.policy = "last_known" /\ w.look = 0 /\ w.time = fd[p].time
        /\ a = AnchorAt(w.ord, fd[p], "accepted")
    BY <1>5 DEF Own, w
  <2>2. a.src = w.ord /\ a.secs = w.time /\ a.from = "accepted"
    BY <2>1, AnchorFacts, SMTT(30)
  <2>3. a.src \in DOMAIN f.received /\ ~(a.src > f.assigned) /\ a.src # f.accepted
    BY <1>1, <1>2, <2>2, SMTT(30)
  <2>4. Sourced(fd, f, a)
    BY <1>2, <2>1, <2>2, <2>3 DEF Sourced
  <2> QED
    BY <1>3, <2>1, <2>2, <2>3, <2>4 DEF Fits, w
<1>6. CASE LastKnown(s, fd, f, work, p, a)
  <2>1. /\ s.policy = "last_known" /\ w.look = 0 /\ a.secs = w.time
        /\ a = f.anchor \/ a = GenesisAnchor
    BY <1>6 DEF LastKnown, w
  <2>2. f.anchor.from \in {"none", "genesis", "accepted"}
    BY <1>3, <2>1 DEF AnchorOK
  <2>3. a.from \notin {"none", "genesis"} => Sourced(fd, f, a)
    BY <1>4, <2>1, <2>2, AnchorSourced
  <2>4. a.src > f.assigned => a = f.anchor
    BY <1>4, <2>1
  <2> QED
    BY <1>3, <2>1, <2>3, <2>4 DEF Fits, w
<1>7. CASE Timed(s, fd, work, p, a)
  <2>1. /\ s.policy = "lookahead" /\ w.look = 0 /\ fd[p].time # 0
        /\ w.time = fd[p].time /\ a = NoAnchor
    BY <1>7 DEF Timed, w
  <2> QED
    BY <1>4, <2>1 DEF Fits, w
<1>8. ASSUME NEW z \in Nat, Held(s, fd, f, work, p, a, z)
      PROVE  Fits(s, fd, f, work[1], p, a)
  <2>1. /\ s.policy = "lookahead" /\ w.look = z /\ z \in Waits(f) /\ z > w.ord
        /\ fd[p].time = 0 /\ fd[f.received[z].cursor].time # 0
        /\ w.time = fd[f.received[z].cursor].time
        /\ a = AnchorAt(z, fd[f.received[z].cursor], "lookahead")
    BY <1>8 DEF Held, w
  <2>2. a.src = z /\ a.secs = w.time /\ a.from = "lookahead"
    BY <2>1, AnchorFacts, SMTT(30)
  <2>3. z \in f.accepted + 1..f.assigned
    BY <2>1 DEF Waits
  <2>4. z \in DOMAIN f.received /\ ~(z > f.assigned) /\ z # f.accepted
    BY <1>1, <2>3, SMTT(30)
  <2>5. Sourced(fd, f, a)
    BY <2>1, <2>2, <2>4 DEF Sourced
  <2> QED
    BY <2>1, <2>2, <2>4, <2>5 DEF Fits, w
<1>9. CASE Restored(s, fd, f, work, p, a)
  <2>1. /\ s.policy = "lookahead" /\ w.look = 0 /\ fd[p].time = 0 /\ a = f.anchor
        /\ a.from = "lookahead" /\ w.time = a.secs
    BY <1>9 DEF Restored, w
  <2>2. Sourced(fd, f, a)
    BY <2>1, AnchorSourced
  <2> QED
    BY <2>1, <2>2 DEF Fits, w
<1> QED
  BY <1>5, <1>6, <1>7, <1>8, <1>9 DEF Routed

\* The block at hand is routed in one of the five ways, and the session
\* accepts it.
LEMMA HeadAccepted ==
    ASSUME Laws, NEW w, w = run.work[1], NEW p, p = frontier.received[frontier.accepted + 1].cursor,
           NEW a, a = MappedAnchor(frontier, w),
           Types, Session(stream, feed, stop, frontier, client.cursor),
           Runtime(stream, feed, frontier, run, pc), run.work # <<>>,
           Nullable \/ w.time # 0
    PROVE  /\ HeadIs(stream, feed, frontier, client.cursor, w, p)
           /\ Routed(stream, feed, frontier, run.work, p, a)
           /\ MayAccept(frontier, w)
<1>1. /\ feed \in Seq(Events) /\ stream.policy \in {"lookahead", "last_known"}
  BY FeedFacts DEF Types
<1>2. /\ IsFrontier(frontier) /\ FrontierOK(stream, feed, frontier, client.cursor)
      /\ AnchorOK(stream, feed, frontier, client.cursor)
      /\ QueueOK(frontier, run) /\ ReadyOK(stream, feed, frontier, run)
  BY ZenonT(30) DEF Session, Runtime
<1>3. run.work \in Seq(ReadySet)
  BY DEF Types, RunSet
<1>4. HeadIs(stream, feed, frontier, client.cursor, w, p)
  BY <1>2, <1>3, HeadFacts, ZenonT(30)
<1>5. MappedTo(stream, feed, frontier, w, a)
  BY ZenonT(30) DEF MappedTo, MappedAnchor, EventAt, Nullable
<1>6. Routed(stream, feed, frontier, run.work, p, a)
  BY <1>1, <1>2, <1>3, <1>4, <1>5, RouteCases, ZenonT(30) DEF Nullable
<1>7. Fits(stream, feed, frontier, w, p, a)
  BY <1>1, <1>2, <1>4, <1>6, RoutedFits, SMTT(30)
<1>8. /\ w.ord = frontier.accepted + 1 /\ w.ord \in DOMAIN frontier.received
      /\ EventAt(frontier, w.ord) = feed[p]
  BY <1>2, <1>4, ZenonT(30) DEF HeadIs, EventAt, IsFrontier
<1>9. Nullable <=> stream.policy # "lookahead"
  BY <1>1 DEF Nullable
<1>10. w.look # 0 => /\ ~Nullable
                     /\ w.look > w.ord
                     /\ w.look \in DOMAIN frontier.received
                     /\ EventAt(frontier, w.look).time # 0
                     /\ EventAt(frontier, w.ord).time = 0
  BY <1>7, <1>8, <1>9 DEF Fits, EventAt
<1>11. /\ ~Nullable /\ EventAt(frontier, w.ord).time # 0 => w.time = EventAt(frontier, w.ord).time
       /\ ~Nullable /\ EventAt(frontier, w.ord).time = 0 => a.from = "lookahead"
       /\ a # NoAnchor => w.time = a.secs
       /\ a.src > frontier.assigned => a = frontier.anchor
       /\ a.from \notin {"none", "genesis"} => Sourced(feed, frontier, a)
  BY <1>7, <1>8, <1>9 DEF Fits
<1>12. ASSUME Sourced(feed, frontier, a)
       PROVE  CASE a.src \in DOMAIN frontier.received ->
                      a = AnchorAt(a.src, EventAt(frontier, a.src), a.from)
                [] a.src = frontier.accepted /\ frontier.last # 0 ->
                      a = AnchorAt(a.src, feed[frontier.last], a.from)
                [] OTHER -> a = frontier.anchor
  BY <1>12 DEF Sourced, EventAt
<1>13. MayAccept(frontier, w)
  BY <1>8, <1>10, <1>11, <1>12 DEF MayAccept
<1> QED
  BY <1>4, <1>6, <1>13

-----------------------------------------------------------------------------
(* The steps.                                                              *)

\* The invariant after a step.
LEMMA After ==
    ASSUME Types', Durable(stream', feed', durable', table'),
           Session(stream', feed', stop', frontier', client'.cursor),
           Runtime(stream', feed', frontier', run', pc'),
           pc' # "down" => Window(stream', feed', frontier', durable', table' \o run'.rows)
    PROVE  StreamInv'
BY DEF StreamInv

\* A new client starts from the cursor, with nothing seen.
LEMMA NewClientFacts ==
    ASSUME NEW c \in Nat
    PROVE  NewClient(c) \in ClientSet /\ NewClient(c).cursor = c
<1>1. NewClient(c) = [cursor |-> c, last |-> -1, blocks |-> FALSE, message |-> FALSE,
                      early |-> FALSE, failed |-> 0, quiet |-> FALSE]
  BY DEF NewClient
<1> QED
  BY <1>1, SMTT(30) DEF ClientSet

\* A new run holds nothing.
LEMMA NewRunFacts ==
    ASSUME NEW a \in Anchors
    PROVE  NewRun(a) \in RunSet /\ NewRun(a).rows = <<>>
<1>1. (IF a = NoAnchor THEN Genesis ELSE a.secs) \in Nat
  BY StreamAssumption DEF Anchors
<1>2. /\ <<>> \in Seq(Nat) /\ <<>> \in Seq(ReadySet) /\ <<>> \in Seq(RowSet)
      /\ -1 \in Int /\ "idle" \in {"idle", "buffering", "off"}
  BY SMTT(30)
<1> QED
  BY <1>1, <1>2 DEF NewRun, RunSet

\* What the step leaves alone.
LEMMA InvFacts ==
    ASSUME StreamInv
    PROVE  /\ stream \in Streams /\ feed \in stream.feeds /\ feed \in Seq(Events)
           /\ Len(feed) \in Nat /\ stop \in Nat /\ pc \in Places
           /\ client \in ClientSet /\ client.cursor \in Nat /\ run \in RunSet
           /\ durable \in CheckpointSet /\ table \in Seq(RowSet)
           /\ run.rows \in Seq(RowSet) /\ run.work \in Seq(ReadySet) /\ run.buffer \in Seq(Nat)
           /\ run.known \in Nat /\ durable.cursor \in Nat
           /\ stream.policy \in {"lookahead", "last_known"}
           /\ Durable(stream, feed, durable, table)
           /\ Session(stream, feed, stop, frontier, client.cursor)
           /\ Runtime(stream, feed, frontier, run, pc) /\ IsFrontier(frontier)
           /\ pc # "down" => Window(stream, feed, frontier, durable, table \o run.rows)
<1>1. Types
  BY DEF StreamInv
<1>2. /\ stream \in Streams /\ feed \in stream.feeds /\ stop \in Nat /\ pc \in Places
      /\ client \in ClientSet /\ run \in RunSet /\ durable \in CheckpointSet
      /\ table \in Seq(RowSet)
  BY <1>1 DEF Types
<1>3. feed \in Seq(Events) /\ Len(feed) \in Nat /\ stream.policy \in {"lookahead", "last_known"}
  BY <1>2, FeedFacts
<1>4. client.cursor \in Nat
  BY <1>2 DEF ClientSet
<1>5. /\ run.rows \in Seq(RowSet) /\ run.work \in Seq(ReadySet) /\ run.buffer \in Seq(Nat)
      /\ run.known \in Nat
  BY <1>2 DEF RunSet
<1>6. durable.cursor \in Nat
  BY <1>2 DEF CheckpointSet
<1>7. IsFrontier(frontier)
  BY DEF StreamInv, Session
<1> QED
  BY <1>2, <1>3, <1>4, <1>5, <1>6, <1>7 DEF StreamInv

\* Nothing was received or stored.
LEMMA InitOK ==
    ASSUME Laws, Init
    PROVE  StreamInv
<1>1. /\ stream \in Streams /\ feed \in stream.feeds /\ stop = 0 /\ pc = "down"
      /\ client = NewClient(0) /\ frontier = Resume(Origin) /\ run = NewRun(NoAnchor)
      /\ durable = Origin /\ table = <<>>
  BY DEF Init
<1>2. Durable(stream, feed, durable, table) /\ Session(stream, feed, stop, frontier, 0)
  BY <1>1, OriginOK
<1>3. /\ client \in ClientSet /\ client.cursor = 0 /\ run \in RunSet
  BY <1>1, NewClientFacts, NewRunFacts, AnchorFacts
<1>4. /\ frontier.anchor = NoAnchor /\ frontier.assigned = frontier.accepted
      /\ IsFrontier(frontier)
  BY <1>1, ResumeFields, OriginFacts DEF IsResume
<1>5. Runtime(stream, feed, frontier, run, pc)
  BY <1>1, <1>4, NewRunOK
<1>6. Types
  <2>1. table \in Seq(RowSet) /\ stop \in Nat /\ pc \in Places /\ durable \in CheckpointSet
    BY <1>1, OriginFacts, SMTT(30) DEF Places
  <2> QED
    BY <1>1, <1>3, <2>1 DEF Types
<1> QED
  BY <1>1, <1>2, <1>3, <1>5, <1>6 DEF StreamInv

\* The process ends, and what is durable survives.
LEMMA ExitOK ==
    ASSUME Laws, StreamInv, Exit, stream' = stream, feed' = feed, table' = table,
           durable' \in CheckpointSet, Durable(stream, feed, durable', table)
    PROVE  StreamInv'
<1>1. /\ stream \in Streams /\ feed \in stream.feeds /\ table \in Seq(RowSet)
  BY InvFacts
<1>2. /\ stop' = 0 /\ pc' = "down" /\ client' = NewClient(0) /\ frontier' = Resume(Origin)
      /\ run' = NewRun(NoAnchor)
  BY DEF Exit
<1>3. Session(stream', feed', stop', frontier', 0)
  BY <1>1, <1>2, OriginOK
<1>4. /\ client' \in ClientSet /\ client'.cursor = 0 /\ run' \in RunSet
  BY <1>2, NewClientFacts, NewRunFacts, AnchorFacts
<1>5. /\ frontier'.anchor = NoAnchor /\ frontier'.assigned = frontier'.accepted
      /\ IsFrontier(frontier')
  BY <1>2, ResumeFields, OriginFacts DEF IsResume
<1>6. Runtime(stream', feed', frontier', run', pc')
  BY <1>2, <1>5, NewRunOK
<1>7. Types'
  <2>1. stop' \in Nat /\ pc' \in Places
    BY <1>2 DEF Places
  <2> QED
    BY <1>1, <1>4, <2>1 DEF Types
<1> QED
  BY <1>2, <1>3, <1>4, <1>6, <1>7, After

\* A step of the client that handles no message.
LEMMA ClientOK ==
    ASSUME StreamInv, stream' = stream, feed' = feed, stop' = stop, frontier' = frontier,
           run' = run, durable' = durable, table' = table, client' \in ClientSet,
           client'.cursor = client.cursor, pc' \in Places, pc # "down", PlaceOK(pc', run)
    PROVE  StreamInv'
<1>1. Same(frontier, frontier) /\ SameRun(run, run)
  BY DEF Same, SameRun
<1>2. DayOK(run)
  BY InvFacts DEF Runtime
<1>3. Runtime(stream, feed, frontier, run, pc')
  BY <1>1, <1>2, InvFacts, SameRuntime
<1>4. Types'
  BY InvFacts DEF Types
<1> QED
  BY <1>3, <1>4, InvFacts, After

\* The window becomes durable and the frontier acknowledges it.
LEMMA CommitOK ==
    ASSUME Laws, StreamInv, Commit, stream' = stream, feed' = feed, stop' = stop,
           client' \in ClientSet, client'.cursor = client.cursor,
           pc # "down", pc' \in Places, PlaceOK(pc', run)
    PROVE  StreamInv'
<1>1. /\ durable' = [durable EXCEPT !.ordinal = frontier.accepted, !.cursor = frontier.last,
                                    !.anchor = frontier.anchor]
      /\ table' = table \o run.rows
      /\ frontier' = [frontier EXCEPT !.base = frontier.accepted]
      /\ run' = [run EXCEPT !.rows = <<>>]
  BY DEF Commit
<1>2. /\ stream \in Streams /\ feed \in stream.feeds /\ stop \in Nat /\ run \in RunSet
      /\ durable \in CheckpointSet /\ table \in Seq(RowSet) /\ run.rows \in Seq(RowSet)
      /\ IsFrontier(frontier) /\ Durable(stream, feed, durable, table)
      /\ Session(stream, feed, stop, frontier, client.cursor)
      /\ Runtime(stream, feed, frontier, run, pc)
      /\ Window(stream, feed, frontier, durable, table \o run.rows)
  BY InvFacts
<1>3. /\ frontier.accepted \in Nat /\ frontier.last \in Nat /\ frontier.anchor \in Anchors
      /\ Shape(frontier)
  BY <1>2 DEF IsFrontier
<1>4. /\ durable' \in CheckpointSet /\ durable'.ordinal = frontier.accepted
      /\ durable'.cursor = frontier.last /\ durable'.anchor = frontier.anchor
      /\ durable'.completed = durable.completed
  <2> DEFINE e == [ordinal |-> frontier.accepted, cursor |-> frontier.last,
                   anchor |-> frontier.anchor, completed |-> durable.completed]
  <2>1. durable' = e /\ durable.completed \in Nat
    <3>1. durable = [ordinal |-> durable.ordinal, cursor |-> durable.cursor,
                     anchor |-> durable.anchor, completed |-> durable.completed]
      BY <1>2 DEF CheckpointSet
    <3>2. durable.completed \in Nat
      BY <1>2 DEF CheckpointSet
    <3> QED
      BY <1>1, <3>1, <3>2
  <2>2. e \in CheckpointSet
    BY <1>3, <2>1 DEF CheckpointSet
  <2> QED
    BY <2>1, <2>2
<1>5. /\ run' \in RunSet /\ run'.rows = <<>> /\ SameRun(run, run')
  <2>1. <<>> \in Seq(RowSet)
    BY SMTT(30)
  <2> QED
    BY <1>1, <1>2, <2>1 DEF RunSet, SameRun
<1>6. IsFrontier(frontier') /\ Same(frontier, frontier')
  <2> DEFINE f == frontier
             g == Record(f.accepted, f.assigned, f.accepted, f.last, f.anchor, f.received)
  <2>1. frontier' = g
    BY <1>1, <1>3 DEF Shape, Record
  <2>2. Fields(g, f.accepted, f.assigned, f.accepted, f.last, f.anchor, f.received)
    BY FieldsOf
  <2> HIDE DEF g
  <2>3. /\ g.base = f.accepted /\ g.assigned = f.assigned /\ g.accepted = f.accepted
        /\ g.last = f.last /\ g.anchor = f.anchor /\ g.received = f.received /\ Shape(g)
    BY <2>2 DEF Fields
  <2>4. IsFrontier(g)
    BY <1>2, <2>3 DEF IsFrontier
  <2> QED
    BY <2>1, <2>3, <2>4 DEF Same
<1>7. /\ table' \in Seq(RowSet) /\ table' \o run'.rows = table'
  BY <1>1, <1>2, <1>5, SMTT(30)
<1>8. /\ Durable(stream, feed, durable', table')
      /\ Window(stream, feed, frontier, durable', table')
  <2>1. Window(stream, feed, frontier, durable, table')
    BY <1>1, <1>2
  <2>2. ASSUME NEW e \in CheckpointSet, e.ordinal = frontier.accepted,
               e.cursor = frontier.last, e.anchor = frontier.anchor,
               e.completed = durable.completed
        PROVE  Durable(stream, feed, e, table') /\ Window(stream, feed, frontier, e, table')
    BY <1>2, <2>1, <2>2, CommitDurable
  <2> QED
    BY <1>4, <2>2
<1>9. Session(stream, feed, stop, frontier', client.cursor)
  BY <1>2, <1>6, SameSession
<1>10. Runtime(stream, feed, frontier', run', pc')
  <2>1. PlaceOK(pc', run') /\ DayOK(run')
    BY <1>5 DEF PlaceOK, DayOK, SameRun
  <2> QED
    BY <1>2, <1>5, <1>6, <2>1, SameRuntime
<1>11. Window(stream, feed, frontier', durable', table')
  <2>1. RoutedOK(stream, feed, frontier', table')
    BY <1>6, <1>8, SameWindow DEF Window
  <2> QED
    BY <1>6, <1>8, <2>1 DEF Window, Same
<1>12. Types'
  BY <1>2, <1>4, <1>5, <1>7 DEF Types
<1> QED
  BY <1>7, <1>8, <1>9, <1>10, <1>11, <1>12, After

\* A session resumes what is durable.
LEMMA StartOK ==
    ASSUME StreamInv, NEW s, Start(s)
    PROVE  StreamInv'
<1>1. /\ s \in stream.stops /\ stop' = s /\ pc' = "connecting"
      /\ client' = NewClient(durable.cursor) /\ frontier' = Resume(durable)
      /\ run' = NewRun(durable.anchor) /\ stream' = stream /\ feed' = feed
      /\ durable' = durable /\ table' = table
  BY DEF Start
<1>2. /\ stream \in Streams /\ feed \in stream.feeds /\ table \in Seq(RowSet)
      /\ durable \in CheckpointSet /\ durable.cursor \in Nat
      /\ Durable(stream, feed, durable, table)
  BY InvFacts
<1>3. stop' \in Nat
  BY <1>1, <1>2, FeedFacts
<1>4. durable.anchor \in Anchors
  BY <1>2 DEF CheckpointSet
<1>5. /\ client' \in ClientSet /\ client'.cursor = durable.cursor
      /\ run' \in RunSet /\ run'.rows = <<>>
  BY <1>1, <1>2, <1>4, NewClientFacts, NewRunFacts
<1>6. /\ IsFrontier(frontier') /\ frontier'.anchor = durable.anchor
      /\ frontier'.assigned = frontier'.accepted /\ frontier'.last = durable.cursor
  BY <1>1, <1>2, ResumeFields DEF IsResume
<1>7. /\ FrontierOK(stream, feed, frontier', durable.cursor)
      /\ AnchorOK(stream, feed, frontier', durable.cursor)
      /\ RoutingOK(stream, feed, frontier') /\ RowsOK(stream, feed, table, durable.cursor)
      /\ RoutedOK(stream, feed, frontier', table)
  BY <1>1, <1>2, <1>6 DEF Durable
<1>8. CountOK(feed, stop', frontier', durable.cursor)
  BY <1>6, <1>7 DEF CountOK, FrontierOK
<1>9. Session(stream, feed, stop', frontier', client'.cursor)
  BY <1>5, <1>6, <1>7, <1>8 DEF Session
<1>10. Runtime(stream, feed, frontier', run', pc')
  BY <1>1, <1>6, NewRunOK
<1>11. table \o run'.rows = table
  BY <1>2, <1>5, SMTT(30)
<1>12. Window(stream, feed, frontier', durable, table)
  BY <1>2, <1>6, <1>7, SMTT(30) DEF Window
<1>13. Types'
  BY <1>1, <1>2, <1>3, <1>5 DEF Types, Places
<1> QED
  BY <1>1, <1>2, <1>9, <1>10, <1>11, <1>12, <1>13, After

\* Another feed continues the client's cursor.
LEMMA ConnectOK ==
    ASSUME StreamInv, Connect
    PROVE  StreamInv'
<1> DEFINE c == client.cursor
<1>1. /\ pc = "connecting" /\ pc' = "streaming" /\ feed' \in stream.feeds
      /\ Len(feed') >= c /\ SubSeq(feed', 1, c) = SubSeq(feed, 1, c)
      /\ client' = [client EXCEPT !.blocks = FALSE, !.message = FALSE]
      /\ stream' = stream /\ stop' = stop /\ frontier' = frontier /\ run' = run
      /\ durable' = durable /\ table' = table
  BY DEF Connect
<1>2. /\ stream \in Streams /\ feed \in stream.feeds /\ client \in ClientSet /\ c \in Nat
      /\ durable \in CheckpointSet /\ durable.cursor \in Nat
      /\ Durable(stream, feed, durable, table)
      /\ Session(stream, feed, stop, frontier, c)
      /\ Runtime(stream, feed, frontier, run, pc)
      /\ Window(stream, feed, frontier, durable, table \o run.rows)
  BY <1>1, InvFacts
<1>3. client' \in ClientSet /\ client'.cursor = c
  BY <1>1, <1>2 DEF ClientSet
<1>4. /\ feed \in Seq(Events) /\ feed' \in Seq(Events)
      /\ Len(feed) \in Nat /\ Len(feed') \in Nat
  BY <1>1, <1>2, FeedFacts
<1>5. /\ FrontierOK(stream, feed, frontier, c) /\ c \in 0..Len(feed) /\ frontier.last \in 0..c
      /\ run.work = <<>> /\ durable.cursor <= frontier.last
      /\ RowsOK(stream, feed, table \o run.rows, frontier.last)
      /\ RoutedOK(stream, feed, frontier, table \o run.rows)
  BY <1>1, <1>2 DEF Session, Runtime, Window, PlaceOK, FrontierOK
<1> HIDE DEF c
<1>6. Agree(stream, feed, feed', c)
  <2>1. ASSUME NEW q \in 1..c
        PROVE  feed'[q] = feed[q]
    <3>1. SubSeq(feed', 1, c)[q] = feed'[q]
      BY <1>1, <1>2, <1>4, SMTT(30)
    <3>2. SubSeq(feed, 1, c)[q] = feed[q]
      BY <1>2, <1>4, <1>5, SMTT(30)
    <3> QED
      BY <1>1, <3>1, <3>2
  <2>2. c <= Len(feed) /\ c <= Len(feed')
    BY <1>1, <1>2, <1>4, <1>5, SMTT(30)
  <2> QED
    BY <1>1, <1>2, <2>1, <2>2 DEF Agree
<1>7. durable.cursor <= c
  BY <1>2, <1>5, SMTT(30)
<1>8. Durable(stream, feed', durable, table)
  BY <1>2, <1>6, <1>7, AgreeDurable
<1>9. Session(stream, feed', stop, frontier, c)
  BY <1>2, <1>6, AgreeSession
<1>10. Runtime(stream, feed', frontier, run, pc')
  BY <1>1, <1>2, <1>5, <1>6, AgreeRuntime
<1>11. Window(stream, feed', frontier, durable, table \o run.rows)
  BY <1>5, <1>6, AgreeRows DEF Window
<1>12. Types'
  BY <1>1, <1>2, <1>3, InvFacts DEF Types, Places
<1> QED
  BY <1>1, <1>3, <1>8, <1>9, <1>10, <1>11, <1>12, After

\* A bound is completed by the block that the checkpoint stands on.
LEMMA CompleteOK ==
    ASSUME Laws, StreamInv, CompleteRequest
    PROVE  StreamInv'
<1>1. /\ durable' = IF Proven THEN [durable EXCEPT !.completed = stop] ELSE durable
      /\ Exit /\ stream' = stream /\ feed' = feed /\ table' = table
  BY DEF CompleteRequest
<1>2. /\ durable \in CheckpointSet /\ durable.cursor \in Nat /\ stop \in Nat
      /\ Durable(stream, feed, durable, table)
  BY InvFacts
<1>3. CASE ~Proven
  BY <1>1, <1>2, <1>3, ExitOK
<1>4. CASE Proven
  <2>1. /\ durable' \in CheckpointSet /\ durable'.completed = stop
        /\ durable'.ordinal = durable.ordinal /\ durable'.cursor = durable.cursor
        /\ durable'.anchor = durable.anchor
    BY <1>1, <1>2, <1>4 DEF CheckpointSet
  <2>2. durable.cursor # 0 /\ feed[durable.cursor].num >= stop - 1
    BY <1>4 DEF Proven
  <2>3. Resume(durable') = Resume(durable)
    BY <2>1 DEF Resume
  <2>4. Resume(durable).last = durable.cursor
    BY <1>2, ResumeFields DEF IsResume
  <2>5. feed[durable.cursor].block
    BY <1>2, <2>2, <2>4 DEF Durable, FrontierOK
  <2>6. durable.cursor \in 1..durable.cursor
    BY <1>2, <2>2, SMTT(30)
  <2>7. \E p \in 1..durable.cursor : feed[p].block /\ feed[p].num >= durable'.completed - 1
    BY <2>1, <2>2, <2>5, <2>6
  <2>8. Durable(stream, feed, durable', table)
    BY <1>2, <2>3, <2>4, <2>7 DEF Durable
  <2> QED
    BY <1>1, <2>1, <2>8, ExitOK
<1> QED
  BY <1>3, <1>4

-----------------------------------------------------------------------------
(* The steps of a message.                                                 *)

\* The maximum of two numbers.
LEMMA MaxPair ==
    ASSUME NEW a \in Int, NEW b \in Int
    PROVE  Max({a, b}) \in Int /\ Max({a, b}) \in {a, b}
<1>1. CASE a >= b
  <2>1. Max({a, b}) = a
    BY <1>1, MaxIs, SMTT(30)
  <2> QED
    BY <2>1
<1>2. CASE b >= a
  <2>1. Max({a, b}) = b
    BY <1>2, MaxIs, SMTT(30)
  <2> QED
    BY <2>1
<1> QED
  BY <1>1, <1>2, SMTT(30)

\* The client hands the next message of the feed on.
LEMMA MessageFacts ==
    ASSUME StreamInv, Streamed
    PROVE  /\ Position = client.cursor + 1 /\ client.cursor + 1 <= Len(feed)
           /\ feed[client.cursor + 1] \in Events
           /\ Handled \in ClientSet /\ Handled.cursor = client.cursor + 1
<1>1. /\ client \in ClientSet /\ client.cursor \in Nat /\ feed \in Seq(Events)
      /\ Len(feed) \in Nat
  BY InvFacts
<1>2. Position = client.cursor + 1 /\ client.cursor + 1 <= Len(feed)
  BY DEF Streamed, Position
<1>3. client.cursor + 1 \in 1..Len(feed) /\ client.cursor + 1 \in Nat
  BY <1>1, <1>2, SMTT(30)
<1>4. feed[client.cursor + 1] \in Events
  BY <1>1, <1>3, SMTT(30)
<1> DEFINE e == feed[client.cursor + 1]
<1>5. e.block \in BOOLEAN /\ e.num \in Int
  BY <1>4, SMTT(30) DEF Events
<1>6. client.last \in Int /\ client.blocks \in BOOLEAN /\ client.failed \in Nat
  BY <1>1 DEF ClientSet
<1>7. /\ (IF e.block THEN Max({client.last, e.num}) ELSE client.last) \in Int
      /\ (IF client.message THEN client.failed ELSE 0) \in Nat
      /\ (client.blocks \/ e.block) \in BOOLEAN
  BY <1>5, <1>6, MaxPair
<1>8. Handled = [client EXCEPT !.cursor = client.cursor + 1, !.message = TRUE,
                   !.failed = IF client.message THEN client.failed ELSE 0,
                   !.quiet = FALSE, !.blocks = client.blocks \/ e.block,
                   !.last = IF e.block THEN Max({client.last, e.num}) ELSE client.last]
  BY <1>2 DEF Handled
<1> HIDE DEF e
<1> DEFINE last == IF e.block THEN Max({client.last, e.num}) ELSE client.last
           failed == IF client.message THEN client.failed ELSE 0
           blocks == client.blocks \/ e.block
           h == [cursor |-> client.cursor + 1, last |-> last, blocks |-> blocks,
                 message |-> TRUE, early |-> client.early, failed |-> failed, quiet |-> FALSE]
<1>9. last \in Int /\ failed \in Nat /\ blocks \in BOOLEAN /\ client.early \in BOOLEAN
  <2>1. client.early \in BOOLEAN
    BY <1>1 DEF ClientSet
  <2> QED
    BY <1>7, <2>1
<1>10. Handled = h
  <2>1. client = [cursor |-> client.cursor, last |-> client.last, blocks |-> client.blocks,
                  message |-> client.message, early |-> client.early,
                  failed |-> client.failed, quiet |-> client.quiet]
    BY <1>1 DEF ClientSet
  <2> QED
    BY <1>8, <2>1
<1> HIDE DEF last, failed, blocks
<1>11. h \in ClientSet /\ h.cursor = client.cursor + 1
  BY <1>3, <1>9 DEF ClientSet
<1> QED
  BY <1>2, <1>4, <1>10, <1>11 DEF e

\* The client passes over the message.
LEMMA IgnoredStep ==
    ASSUME Laws, StreamInv, DeliverIgnored
    PROVE  StreamInv'
<1> DEFINE c == client.cursor
           e == feed[c + 1]
<1>1. /\ pc = "streaming" /\ Streamed /\ client' = Handled /\ pc' = pc /\ stream' = stream
      /\ feed' = feed /\ stop' = stop /\ frontier' = frontier /\ run' = run
      /\ durable' = durable /\ table' = table /\ Ignored(feed[Position])
  BY DEF DeliverIgnored
<1>2. /\ Position = c + 1 /\ c + 1 <= Len(feed) /\ e \in Events
      /\ client' \in ClientSet /\ client'.cursor = c + 1
  BY <1>1, MessageFacts
<1>3. ~e.block \/ (stop = 1 /\ e.num # 0)
  <2>1. SUFFICES ASSUME e.block
                 PROVE  stop = 1 /\ e.num # 0
    OBVIOUS
  <2>2. stop # 0 /\ e.num >= stop /\ e.num <= LastRequested
    BY <1>1, <1>2, <2>1 DEF Ignored, Streamed
  <2>3. stop \in Nat /\ e.num \in Nat
    BY <1>2, InvFacts DEF Events
  <2>4. LastRequested \in {stop - 1, 1}
    <3>1. stop - 1 \in Int /\ 1 \in Int
      BY <2>3, SMTT(30)
    <3> QED
      BY <3>1, MaxPair DEF LastRequested
  <2> QED
    BY <2>2, <2>3, <2>4, SMTT(30)
<1>4. Session(stream, feed, stop, frontier, c + 1)
  BY <1>2, <1>3, InvFacts, IgnoredOK
<1>5. Types'
  BY <1>1, <1>2, InvFacts DEF Types
<1> QED
  BY <1>1, <1>2, <1>4, <1>5, InvFacts, After

\* A block reaches the session as its next event.
LEMMA ArrivesFacts ==
    ASSUME Laws, StreamInv, Streamed, ~Ignored(feed[Position]),
           ~ReceiveRefuses(frontier, feed[Position])
    PROVE  /\ feed[client.cursor + 1].block
           /\ stop = 0 \/ feed[client.cursor + 1].num < stop
           /\ NotRefused(frontier, feed[client.cursor + 1])
           /\ frontier.assigned = Ordinal(feed, client.cursor)
<1> DEFINE e == feed[client.cursor + 1]
<1>1. /\ Position = client.cursor + 1 /\ client.cursor + 1 <= Len(feed) /\ e \in Events
  BY MessageFacts
<1>2. e.num \in Nat /\ stop \in Nat
  BY <1>1, InvFacts DEF Events
<1>3. e.block /\ (stop = 0 \/ e.num < stop)
  BY <1>1, <1>2, SMTT(30) DEF Ignored
<1>4. NotRefused(frontier, e)
  BY <1>1 DEF NotRefused, ReceiveRefuses
<1>5. CountOK(feed, stop, frontier, client.cursor)
  BY InvFacts DEF Session
<1>6. frontier.assigned = Ordinal(feed, client.cursor)
  BY <1>1, <1>3, <1>5, InvFacts, NextEvent, SMTT(30)
<1> QED
  BY <1>3, <1>4, <1>6

\* A filtered block is accepted in its turn.
LEMMA FilteredStep ==
    ASSUME Laws, StreamInv, DeliverFiltered
    PROVE  StreamInv'
<1> DEFINE c == client.cursor
           e == feed[c + 1]
<1>1. /\ pc = "streaming" /\ Streamed /\ ~Ignored(feed[Position])
      /\ ~ReceiveRefuses(frontier, feed[Position]) /\ Filtered(feed[Position])
      /\ frontier' = AcceptFiltered(Receive(frontier, Position), frontier.assigned + 1)
      /\ client' = Handled /\ stream' = stream /\ feed' = feed /\ stop' = stop /\ pc' = pc
      /\ run' = run /\ durable' = durable /\ table' = table
  BY DEF DeliverFiltered
<1>2. /\ Position = c + 1 /\ c + 1 <= Len(feed)
      /\ client' \in ClientSet /\ client'.cursor = c + 1
  BY <1>1, MessageFacts
<1>3. /\ e.block /\ (stop = 0 \/ e.num < stop) /\ NotRefused(frontier, e)
      /\ frontier.assigned = Ordinal(feed, c)
  BY <1>1, ArrivesFacts
<1>4. ~Wanted(stream, e)
  BY <1>1, <1>2 DEF Filtered, Wanted
<1>5. /\ stream \in Streams /\ feed \in stream.feeds /\ stop \in Nat /\ c \in Nat
      /\ durable \in CheckpointSet /\ IsFrontier(frontier)
      /\ Durable(stream, feed, durable, table)
      /\ Session(stream, feed, stop, frontier, c)
      /\ Runtime(stream, feed, frontier, run, pc)
      /\ Window(stream, feed, frontier, durable, table \o run.rows)
  BY <1>1, InvFacts
<1> HIDE DEF c, e
<1>6. IsFiltered(frontier, c + 1, frontier')
  <2>1. frontier.accepted < frontier.assigned =>
           frontier.received[frontier.accepted + 1].routing = Unresolved
    BY <1>5 DEF Session, FrontierOK
  <2>2. c + 1 \in Nat
    BY <1>5, SMTT(30)
  <2> QED
    BY <1>1, <1>2, <1>5, <2>1, <2>2, AcceptFilteredFields
<1>7. Session(stream, feed, stop, frontier', c + 1)
  BY <1>2, <1>3, <1>4, <1>5, <1>6, FilteredOK DEF e
<1>8. Runtime(stream, feed, frontier', run, pc)
  <2>1. run.work = <<>>
    BY <1>1, <1>5 DEF Runtime, PlaceOK
  <2> QED
    BY <1>5, <1>6, <2>1, FilteredRuntime
<1>9. Window(stream, feed, frontier', durable, table \o run.rows)
  BY <1>2, <1>3, <1>4, <1>5, <1>6, FilteredWindow DEF e
<1>10. Types'
  BY <1>1, <1>2, InvFacts DEF Types
<1> QED
  BY <1>1, <1>2, <1>5, <1>7, <1>8, <1>9, <1>10, After

\* What receiving a wanted block leaves alone.
LEMMA ReceiveStep ==
    ASSUME Laws, StreamInv, pc = "streaming", Streamed, ~Ignored(feed[Position]),
           ~ReceiveRefuses(frontier, feed[Position]), ~Filtered(feed[Position]),
           frontier' = Receive(frontier, Position)
    PROVE  /\ IsReceive(frontier, client.cursor + 1, frontier')
           /\ Session(stream, feed, stop, frontier', client.cursor + 1)
           /\ Window(stream, feed, frontier', durable, table \o run.rows)
<1> DEFINE c == client.cursor
           e == feed[c + 1]
<1>1. Position = c + 1 /\ c + 1 <= Len(feed)
  BY MessageFacts
<1>2. /\ e.block /\ (stop = 0 \/ e.num < stop) /\ NotRefused(frontier, e)
  BY ArrivesFacts
<1>3. Wanted(stream, e)
  BY <1>1, <1>2 DEF Filtered, Wanted
<1>4. /\ stream \in Streams /\ feed \in stream.feeds /\ stop \in Nat /\ c \in Nat
      /\ IsFrontier(frontier)
      /\ Session(stream, feed, stop, frontier, c)
      /\ Window(stream, feed, frontier, durable, table \o run.rows)
  BY InvFacts
<1> HIDE DEF c, e
<1>5. IsReceive(frontier, c + 1, frontier')
  <2>1. c + 1 \in Nat
    BY <1>4, SMTT(30)
  <2> QED
    BY <1>1, <1>4, <2>1, ReceiveFields
<1>6. Session(stream, feed, stop, frontier', c + 1)
  BY <1>1, <1>2, <1>3, <1>4, <1>5, ReceiveOK DEF e
<1>7. Window(stream, feed, frontier', durable, table \o run.rows)
  <2>1. frontier'.last = frontier.last /\ frontier'.anchor = frontier.anchor
    BY <1>5 DEF IsReceive
  <2> QED
    BY <1>4, <2>1 DEF Window, RoutedOK, HonouredAt
<1> QED
  BY <1>5, <1>6, <1>7 DEF c

\* A block without a time is held.
LEMMA BufferedStep ==
    ASSUME Laws, StreamInv, DeliverBuffered
    PROVE  StreamInv'
<1> DEFINE c == client.cursor
           e == feed[c + 1]
<1>1. /\ pc = "streaming" /\ Streamed /\ ~Ignored(feed[Position])
      /\ ~ReceiveRefuses(frontier, feed[Position]) /\ ~Filtered(feed[Position])
      /\ Buffers(feed[Position]) /\ frontier' = Receive(frontier, Position)
      /\ run' = [run EXCEPT !.bootstrap = "buffering",
                            !.buffer = Append(run.buffer, frontier.assigned + 1)]
      /\ client' = Handled /\ stream' = stream /\ feed' = feed /\ stop' = stop /\ pc' = pc
      /\ durable' = durable /\ table' = table
  BY DEF DeliverBuffered
<1>2. /\ Position = c + 1 /\ client' \in ClientSet /\ client'.cursor = c + 1
  BY <1>1, MessageFacts
<1>3. /\ IsReceive(frontier, c + 1, frontier')
      /\ Session(stream, feed, stop, frontier', c + 1)
      /\ Window(stream, feed, frontier', durable, table \o run.rows)
  BY <1>1, ReceiveStep
<1>4. /\ run \in RunSet /\ run.buffer \in Seq(Nat) /\ IsFrontier(frontier)
      /\ Runtime(stream, feed, frontier, run, pc)
      /\ Durable(stream, feed, durable, table)
      /\ stream.policy \in {"lookahead", "last_known"}
  BY InvFacts
<1>5. /\ stream.policy = "lookahead" /\ frontier.anchor = NoAnchor /\ ~run.mapped
      /\ e.time = 0
  BY <1>1, <1>2, <1>4 DEF Buffers, Resumed, Nullable
<1> HIDE DEF c, e
<1> DEFINE buffer == Append(run.buffer, frontier.assigned + 1)
<1>6. buffer \in Seq(Nat)
  <2>1. frontier.assigned + 1 \in Nat
    BY <1>4, SMTT(30) DEF IsFrontier
  <2> QED
    BY <1>4, <2>1, SMTT(30)
<1>7. run' = [run EXCEPT !.bootstrap = "buffering", !.buffer = buffer]
  BY <1>1
<1> HIDE DEF buffer
<1>8. /\ run' \in RunSet /\ run'.bootstrap = "buffering" /\ run'.buffer = buffer
      /\ run'.work = run.work /\ run'.rows = run.rows /\ run'.mapped = run.mapped
      /\ run'.day = run.day
  <2> DEFINE h == [run EXCEPT !.bootstrap = "buffering"]
  <2>1. /\ h \in RunSet /\ h.bootstrap = "buffering" /\ h.work = run.work
        /\ h.rows = run.rows /\ h.mapped = run.mapped /\ h.day = run.day
    BY <1>4 DEF RunSet
  <2>2. run' = [h EXCEPT !.buffer = buffer]
    BY <1>7
  <2> HIDE DEF h
  <2> QED
    BY <1>6, <2>1, <2>2 DEF RunSet
<1>9. Runtime(stream, feed, frontier', run', pc')
  BY <1>1, <1>3, <1>4, <1>5, <1>8, BufferedRuntime DEF buffer, e
<1>10. Types'
  BY <1>1, <1>2, <1>8, InvFacts DEF Types
<1> QED
  BY <1>1, <1>2, <1>3, <1>4, <1>8, <1>9, <1>10, After

\* The time that a received block is routed by.
LEMMA RoutingTimeIs ==
    ASSUME NEW e
    PROVE  /\ e.time # 0 => RoutingTime(e) = e.time
           /\ e.time = 0 /\ Nullable => RoutingTime(e) = run.known
           /\ e.time = 0 /\ ~Nullable /\ frontier.anchor # NoAnchor =>
                 RoutingTime(e) = frontier.anchor.secs
           /\ e.time = 0 /\ ~Nullable /\ frontier.anchor = NoAnchor => RoutingTime(e) = 0
<1>1. /\ e.time = 0 /\ ~Nullable /\ frontier.anchor # NoAnchor => Resumed(e)
      /\ frontier.anchor = NoAnchor => ~Resumed(e)
      /\ Nullable => ~Resumed(e) /\ (Resumed(e) => e.time = 0)
  BY DEF Resumed
<1>2. e.time # 0 => RoutingTime(e) = e.time
  BY DEF RoutingTime, Resumed
<1>3. e.time = 0 /\ Nullable => RoutingTime(e) = run.known
  BY DEF RoutingTime, Resumed
<1>4. e.time = 0 /\ ~Nullable /\ frontier.anchor # NoAnchor =>
         RoutingTime(e) = frontier.anchor.secs
  BY DEF RoutingTime, Resumed
<1>5. e.time = 0 /\ ~Nullable /\ frontier.anchor = NoAnchor => RoutingTime(e) = 0
  BY DEF RoutingTime, Resumed
<1> QED
  BY <1>2, <1>3, <1>4, <1>5

\* The held blocks and this one are ready.
LEMMA ReadyStep ==
    ASSUME Laws, StreamInv, DeliverReady
    PROVE  StreamInv'
<1> DEFINE c == client.cursor
           e == feed[c + 1]
           o == frontier.assigned + 1
           t == RoutingTime(e)
           work == [i \in DOMAIN run.buffer |-> [ord |-> run.buffer[i], time |-> t, look |-> o]]
                   \o <<[ord |-> o, time |-> t, look |-> 0]>>
           bootstrap == IF Nullable \/ Resumed(e) THEN run.bootstrap ELSE "off"
           known == IF Nullable THEN t ELSE run.known
<1>1. /\ pc = "streaming" /\ Streamed /\ ~Ignored(feed[Position])
      /\ ~ReceiveRefuses(frontier, feed[Position]) /\ ~Filtered(feed[Position])
      /\ ~Buffers(feed[Position]) /\ frontier' = Receive(frontier, Position)
      /\ client' = Handled /\ stream' = stream /\ feed' = feed /\ stop' = stop
      /\ pc' = "observing" /\ durable' = durable /\ table' = table
  BY DEF DeliverReady
<1>2. /\ Position = c + 1 /\ client' \in ClientSet /\ client'.cursor = c + 1 /\ e \in Events
  BY <1>1, MessageFacts
<1>3. run' = [run EXCEPT !.bootstrap = bootstrap, !.known = known, !.buffer = <<>>, !.work = work]
  BY <1>2 DEF DeliverReady
<1>4. /\ IsReceive(frontier, c + 1, frontier')
      /\ Session(stream, feed, stop, frontier', c + 1)
      /\ Window(stream, feed, frontier', durable, table \o run.rows)
  BY <1>1, ReceiveStep
<1>5. /\ run \in RunSet /\ run.buffer \in Seq(Nat) /\ IsFrontier(frontier)
      /\ run.known \in Nat /\ stream.policy \in {"lookahead", "last_known"}
      /\ Runtime(stream, feed, frontier, run, pc)
      /\ Durable(stream, feed, durable, table)
  BY InvFacts
<1>6. o \in Nat /\ frontier.anchor.secs \in Nat /\ e.time \in Nat
  BY <1>2, <1>5, SMTT(30) DEF IsFrontier, Anchors, Events
<1> HIDE DEF e, o, c
<1>7. /\ t \in Nat
      /\ e.time # 0 => t = e.time
      /\ e.time = 0 => /\ stream.policy = "last_known" => t = run.known
                       /\ stream.policy = "lookahead" =>
                             t = 0 \/ (frontier.anchor # NoAnchor /\ t = frontier.anchor.secs)
  <2>1. /\ e.time # 0 => t = e.time
        /\ e.time = 0 /\ Nullable => t = run.known
        /\ e.time = 0 /\ ~Nullable /\ frontier.anchor # NoAnchor => t = frontier.anchor.secs
        /\ e.time = 0 /\ ~Nullable /\ frontier.anchor = NoAnchor => t = 0
    BY RoutingTimeIs
  <2> HIDE DEF t
  <2> QED
    BY <1>5, <1>6, <2>1 DEF Nullable
<1>8. e.time = 0 => run.buffer = <<>>
  <2>1. SUFFICES ASSUME e.time = 0, run.buffer # <<>>
                 PROVE  FALSE
    OBVIOUS
  <2>2. /\ stream.policy = "lookahead" /\ frontier.anchor = NoAnchor
        /\ run.bootstrap = "buffering" /\ ~run.mapped
    BY <1>5, <2>1 DEF Runtime, HoldOK
  <2>3. Buffers(e)
    BY <2>1, <2>2 DEF Buffers, Nullable, Resumed
  <2> QED
    BY <1>1, <1>2, <2>3 DEF e
<1> HIDE DEF t
<1>9. Ready(run, o, t, work) /\ work \in Seq(ReadySet)
  <2>1. ASSUME NEW w, w = work
        PROVE  Ready(run, o, t, w) /\ w \in Seq(ReadySet)
    BY <1>5, <1>6, <1>7, <2>1, ReadyWork
  <2> HIDE DEF work
  <2> QED
    BY <2>1
<1>10. bootstrap \in {"idle", "buffering", "off"} /\ known \in Nat
  <2>1. run.bootstrap \in {"idle", "buffering", "off"}
    BY <1>5 DEF RunSet
  <2>2. bootstrap \in {run.bootstrap, "off"}
    OBVIOUS
  <2>3. known \in {t, run.known}
    OBVIOUS
  <2> HIDE DEF bootstrap, known
  <2> QED
    BY <1>5, <1>7, <2>1, <2>2, <2>3
<1>11. stream.policy = "last_known" => known = t
  BY DEF Nullable
<1> HIDE DEF work, bootstrap, known
<1>12. /\ run' \in RunSet /\ run'.buffer = <<>> /\ run'.work = work
       /\ run'.rows = run.rows /\ run'.day = run.day /\ run'.known = known
  <2> DEFINE q == [bootstrap |-> bootstrap, buffer |-> <<>>, work |-> work,
                   rows |-> run.rows, known |-> known, mapped |-> run.mapped, day |-> run.day]
  <2>1. /\ run = [bootstrap |-> run.bootstrap, buffer |-> run.buffer, work |-> run.work,
                  rows |-> run.rows, known |-> run.known, mapped |-> run.mapped,
                  day |-> run.day]
        /\ run.rows \in Seq(RowSet) /\ run.mapped \in BOOLEAN /\ run.day \in Int
    BY <1>5 DEF RunSet
  <2>2. run' = q
    BY <1>3, <2>1
  <2>3. <<>> \in Seq(Nat)
    BY SMTT(30)
  <2>4. q \in RunSet
    BY <1>9, <1>10, <2>1, <2>3 DEF RunSet
  <2> QED
    BY <2>2, <2>4
<1>13. Runtime(stream, feed, frontier', run', "observing")
  <2>1. Ready(run, frontier.assigned + 1, t, run'.work)
    BY <1>9, <1>12 DEF o
  <2>2. feed[c + 1] = e
    BY DEF e
  <2>3. Runtime(stream, feed, frontier, run, "streaming")
    BY <1>1, <1>5
  <2>4. ASSUME NEW g, IsReceive(frontier, c + 1, g), NEW q,
               Ready(run, frontier.assigned + 1, t, q.work), q.buffer = <<>>,
               q.rows = run.rows, q.day = run.day, stream.policy = "last_known" => q.known = t
        PROVE  Runtime(stream, feed, g, q, "observing")
    BY <1>5, <1>7, <1>8, <2>2, <2>3, <2>4, ReadyRuntime, ZenonT(30)
  <2> QED
    BY <1>4, <1>11, <1>12, <2>1, <2>4
<1>14. Types'
  BY <1>1, <1>2, <1>12, InvFacts DEF Types, Places
<1> QED
  BY <1>1, <1>2, <1>4, <1>5, <1>12, <1>13, <1>14, After

\* The anchor of a mapped block is an anchor.
LEMMA RoutedAnchor ==
    ASSUME NEW s, NEW fd \in Seq(Events), NEW f, NEW c, NEW work, NEW p, NEW a,
           IsFrontier(f), FrontierOK(s, fd, f, c), HeadIs(s, fd, f, c, work[1], p),
           Routed(s, fd, f, work, p, a)
    PROVE  a \in Anchors
<1>1. /\ f.accepted \in Nat /\ f.assigned \in Nat /\ f.anchor \in Anchors
  BY DEF IsFrontier
<1>2. work[1].ord = f.accepted + 1 /\ p \in 1..Len(fd)
  BY DEF HeadIs
<1>3. fd[p] \in Events /\ work[1].ord \in Nat
  BY <1>1, <1>2, SMTT(30)
<1>4. CASE Own(s, fd, work, p, a)
  <2>1. a = AnchorAt(work[1].ord, fd[p], "accepted")
    BY <1>4 DEF Own
  <2>2. "accepted" \in Froms
    BY DEF Froms
  <2> QED
    BY <1>3, <2>1, <2>2, AnchorFacts
<1>5. CASE LastKnown(s, fd, f, work, p, a)
  BY <1>1, <1>5, AnchorFacts DEF LastKnown
<1>6. CASE Timed(s, fd, work, p, a)
  BY <1>6, AnchorFacts DEF Timed
<1>7. ASSUME NEW z \in Nat, Held(s, fd, f, work, p, a, z)
      PROVE  a \in Anchors
  <2>1. z \in Waits(f) /\ a = AnchorAt(z, fd[f.received[z].cursor], "lookahead")
    BY <1>7 DEF Held
  <2>2. z \in f.accepted + 1..f.assigned
    BY <2>1 DEF Waits
  <2>3. EventIs(fd, z, f.received[z].cursor)
    BY <2>2, WaitsWanted
  <2>4. fd[f.received[z].cursor] \in Events
    BY <2>3, SMTT(30) DEF EventIs
  <2>5. "lookahead" \in Froms
    BY DEF Froms
  <2> QED
    BY <2>1, <2>4, <2>5, AnchorFacts
<1>8. CASE Restored(s, fd, f, work, p, a)
  BY <1>1, <1>8 DEF Restored
<1> QED
  BY <1>4, <1>5, <1>6, <1>7, <1>8 DEF Routed

\* The session once a block is accepted.
LEMMA AcceptSession ==
    ASSUME Laws, NEW s, NEW fd, NEW n, NEW f, NEW c, NEW work, NEW p, NEW a, NEW g, NEW end,
           Accepting(s, fd, f, c, work, p, a, g, end), Session(s, fd, n, f, c)
    PROVE  Session(s, fd, n, g, c)
<1>1. /\ fd \in Seq(Events) /\ IsFrontier(f) /\ FrontierOK(s, fd, f, c)
      /\ HeadIs(s, fd, f, c, work[1], p) /\ end \in f.accepted + 1..f.assigned
      /\ IsAccept(f, a, g, end)
  BY DEF Accepting
<1>2. FrontierOK(s, fd, g, c)
  BY <1>1, AcceptFrontier
<1>3. AnchorOK(s, fd, g, c)
  BY AcceptAnchor
<1>4. RoutingOK(s, fd, f) /\ CountOK(fd, n, f, c)
  BY DEF Session
<1>5. RoutingOK(s, fd, g)
  <2>1. CASE s.final
    BY <1>4, <2>1, AcceptRouting
  <2>2. CASE ~s.final
    BY <2>2 DEF RoutingOK
  <2> QED
    BY <2>1, <2>2
<1>6. g.assigned = f.assigned /\ IsFrontier(g)
  BY <1>1 DEF IsAccept
<1>7. CountOK(fd, n, g, c)
  BY <1>4, <1>6 DEF CountOK
<1> QED
  BY <1>2, <1>3, <1>5, <1>6, <1>7 DEF Session

\* The window once a block is accepted.
LEMMA AcceptWindow ==
    ASSUME Laws, NEW s, NEW fd, NEW n, NEW f, NEW c, NEW work, NEW p, NEW a, NEW g, NEW end,
           Accepting(s, fd, f, c, work, p, a, g, end), Session(s, fd, n, f, c),
           NEW d \in CheckpointSet, NEW rows \in Seq(RowSet), NEW row, row.cursor = p,
           row.time = work[1].time, row.src = a, Window(s, fd, f, d, rows)
    PROVE  Window(s, fd, g, d, Append(rows, row))
<1>1. d.cursor <= f.last /\ RowsOK(s, fd, rows, f.last) /\ RoutedOK(s, fd, f, rows)
  BY DEF Window
<1>2. RoutingOK(s, fd, f)
  BY DEF Session
<1>3. RowsOK(s, fd, Append(rows, row), g.last)
  BY <1>1, AcceptRows
<1>4. RoutedOK(s, fd, g, Append(rows, row))
  BY <1>1, <1>2, AcceptRouted
<1>5. d.cursor <= g.last
  <2>1. f.last \in Nat /\ p \in Nat /\ g.last \in Nat /\ f.last < p /\ p <= g.last
    BY AcceptingSpan
  <2>2. d.cursor \in Nat
    BY DEF CheckpointSet
  <2> QED
    BY <1>1, <2>1, <2>2, SMTT(30)
<1> QED
  BY <1>3, <1>4, <1>5 DEF Window

\* A block is mapped and accepted.
LEMMA MapStep ==
    ASSUME Laws, StreamInv, MapAndAccept
    PROVE  StreamInv'
<1> DEFINE c == client.cursor
           w == run.work[1]
           p == frontier.received[frontier.accepted + 1].cursor
           a == MappedAnchor(frontier, w)
           row == [cursor |-> p, time |-> w.time, src |-> a]
           rows == table \o run.rows
<1>1. /\ stream \in Streams /\ feed \in stream.feeds /\ feed \in Seq(Events)
      /\ run \in RunSet /\ run.work \in Seq(ReadySet) /\ run.rows \in Seq(RowSet)
      /\ durable \in CheckpointSet /\ table \in Seq(RowSet) /\ IsFrontier(frontier)
      /\ Durable(stream, feed, durable, table)
      /\ Session(stream, feed, stop, frontier, c)
      /\ Runtime(stream, feed, frontier, run, pc)
      /\ pc # "down" => Window(stream, feed, frontier, durable, rows)
  BY InvFacts
<1>2. /\ pc = "observing" /\ (Nullable \/ Head(run.work).time # 0)
      /\ pc' = "mapped" /\ stream' = stream /\ feed' = feed /\ stop' = stop
      /\ client' = client /\ durable' = durable /\ table' = table
      /\ ~AtBoundary(Head(run.work))
  BY DEF MapAndAccept
<1>3. Runtime(stream, feed, frontier, run, "observing") /\ run.work # <<>>
  BY <1>1, <1>2 DEF Runtime, PlaceOK
<1>4. Head(run.work) = w /\ w \in ReadySet
  BY <1>1, <1>3, SMTT(30)
<1>5. /\ HeadIs(stream, feed, frontier, c, w, p)
      /\ Routed(stream, feed, frontier, run.work, p, a)
  <2>1. Types
    BY DEF StreamInv
  <2> QED
    BY <1>1, <1>2, <1>3, <1>4, <2>1, HeadAccepted
<1>6. w.ord = frontier.accepted + 1 /\ frontier.accepted < frontier.assigned
  BY <1>5 DEF HeadIs
<1>7. /\ frontier' = Accept(frontier, frontier.accepted + 1, Explicit(a))
      /\ run' = [run EXCEPT !.work = Tail(run.work), !.day = Day(w.time),
                            !.rows = Append(run.rows, row), !.mapped = TRUE]
  <2>1. /\ frontier' = AcceptMapped(frontier, w)
        /\ run' = [run EXCEPT !.work = Tail(run.work), !.day = Day(w.time),
                      !.rows = Append(run.rows, [cursor |-> frontier.received[w.ord].cursor,
                                                 time |-> w.time, src |-> a]),
                      !.mapped = TRUE]
    BY <1>4 DEF MapAndAccept
  <2> QED
    BY <1>6, <2>1 DEF AcceptMapped
<1>8. FrontierOK(stream, feed, frontier, c) /\ AnchorOK(stream, feed, frontier, c)
  BY <1>1 DEF Session
<1> HIDE DEF a, p, w, c
<1>9. a \in Anchors
  BY <1>1, <1>5, <1>8, RoutedAnchor DEF w
<1>10. PICK end \in frontier.accepted + 1..frontier.assigned :
          IsAccept(frontier, a, frontier', end)
  BY <1>1, <1>6, <1>7, <1>9, AcceptFields
<1>11. Accepting(stream, feed, frontier, c, run.work, p, a, frontier', end)
  BY <1>1, <1>5, <1>8, <1>10, ZenonT(30) DEF Accepting, w
<1>12. w.time \in Nat /\ Day(w.time) \in Int
  BY <1>4, SMTT(30) DEF ReadySet, Day
<1>13. /\ row.cursor = p /\ row.time = w.time /\ row.src = a
  OBVIOUS
<1>14. row \in RowSet
  <2>1. p \in Nat
    BY <1>11, AcceptingSpan
  <2> QED
    BY <1>9, <1>12, <2>1 DEF RowSet
<1> HIDE DEF row, rows
<1>15. /\ run' \in RunSet /\ run'.work = Tail(run.work) /\ run'.day = Day(w.time)
       /\ run'.rows = Append(run.rows, row) /\ run'.buffer = run.buffer
       /\ run'.known = run.known
  <2> DEFINE work == Tail(run.work)
             more == Append(run.rows, row)
             day == Day(w.time)
             q == [bootstrap |-> run.bootstrap, buffer |-> run.buffer, work |-> work,
                   rows |-> more, known |-> run.known, mapped |-> TRUE, day |-> day]
  <2>1. /\ run = [bootstrap |-> run.bootstrap, buffer |-> run.buffer, work |-> run.work,
                  rows |-> run.rows, known |-> run.known, mapped |-> run.mapped,
                  day |-> run.day]
        /\ run.bootstrap \in {"idle", "buffering", "off"} /\ run.buffer \in Seq(Nat)
        /\ run.known \in Nat
    BY <1>1 DEF RunSet
  <2>2. work \in Seq(ReadySet) /\ more \in Seq(RowSet) /\ day \in Int
    <3>1. work \in Seq(ReadySet)
      BY <1>1, <1>3, TailFacts
    <3> QED
      BY <1>1, <1>12, <1>14, <3>1, SMTT(30)
  <2>3. run' = [run EXCEPT !.work = work, !.day = day, !.rows = more, !.mapped = TRUE]
    BY <1>7
  <2> HIDE DEF work, more, day
  <2>4. run' = q
    BY <2>1, <2>3
  <2>5. q \in RunSet
    BY <2>1, <2>2 DEF RunSet
  <2> QED
    BY <2>4, <2>5 DEF work, more, day
<1>16. Session(stream, feed, stop, frontier', c)
  BY <1>1, <1>11, AcceptSession
<1>17. rows \in Seq(RowSet) /\ table \o run'.rows = Append(rows, row)
  BY <1>1, <1>14, <1>15, SMTT(30) DEF rows
<1>18. Window(stream, feed, frontier', durable, Append(rows, row))
  <2>1. Window(stream, feed, frontier, durable, rows)
    BY <1>1, <1>2
  <2>2. row.time = run.work[1].time
    BY <1>13 DEF w
  <2> QED
    BY <1>1, <1>11, <1>13, <1>17, <2>1, <2>2, AcceptWindow, ZenonT(30)
<1>19. Runtime(stream, feed, frontier', run', "mapped")
  <2>1. run.rows # <<>> /\ run.day # -1 => run.day = Day(row.time)
    BY <1>2, <1>4, <1>13 DEF AtBoundary, HasBuffered
  <2>2. row.time = run.work[1].time /\ run'.day = Day(row.time)
    BY <1>13, <1>15 DEF w
  <2> QED
    BY <1>1, <1>3, <1>11, <1>15, <2>1, <2>2, AcceptRuntime, ZenonT(30)
<1>20. Types'
  BY <1>2, <1>15, InvFacts DEF Types, Places
<1> QED
  BY <1>1, <1>2, <1>16, <1>17, <1>18, <1>19, <1>20, After DEF c

-----------------------------------------------------------------------------
(* Every step.                                                             *)

\* Where nothing is being mapped, no block is at hand.
LEMMA PlaceFacts ==
    ASSUME StreamInv
    PROVE  /\ PlaceOK(pc, run)
           /\ pc \notin {"observing", "mapped"} =>
                 \A to : to # "observing" => PlaceOK(to, run)
           /\ PlaceOK(AfterBlock, run) /\ AfterBlock \in Places
<1>1. PlaceOK(pc, run)
  BY InvFacts DEF Runtime
<1>2. pc \notin {"observing", "mapped"} => run.work = <<>>
  BY <1>1 DEF PlaceOK
<1>3. PlaceOK(AfterBlock, run) /\ AfterBlock \in Places
  BY DEF PlaceOK, AfterBlock, Places
<1> QED
  BY <1>1, <1>2, <1>3 DEF PlaceOK

\* The process ends, and nothing durable changes.
LEMMA JustExit ==
    ASSUME Laws, StreamInv, Exit, stream' = stream, feed' = feed, table' = table, durable' = durable
    PROVE  StreamInv'
<1>1. durable \in CheckpointSet /\ Durable(stream, feed, durable, table)
  BY InvFacts
<1> QED
  BY <1>1, ExitOK

\* A failure is retried, or ends the run.
LEMMA FailureOK ==
    ASSUME Laws, StreamInv, pc \in {"connecting", "streaming"}, NEW c \in ClientSet,
           c.cursor = client.cursor, RecordFailure(c), stream' = stream, feed' = feed,
           durable' = durable, table' = table
    PROVE  StreamInv'
<1>1. CASE Exit
  BY <1>1, JustExit
<1>2. CASE /\ pc' = "connecting" /\ client' = [c EXCEPT !.failed = c.failed + 1]
           /\ stop' = stop /\ frontier' = frontier /\ run' = run
  <2>1. client' \in ClientSet /\ client'.cursor = client.cursor
    BY <1>2, SMTT(30) DEF ClientSet
  <2>2. PlaceOK(pc', run) /\ pc # "down" /\ pc' \in Places
    BY <1>2, PlaceFacts DEF Places
  <2> QED
    BY <1>2, <2>1, <2>2, ClientOK
<1> QED
  BY <1>1, <1>2 DEF RecordFailure

\* The server closes the stream.
LEMMA CloseOK ==
    ASSUME Laws, StreamInv, NEW early, ServerCloses(early)
    PROVE  StreamInv'
<1> DEFINE c == [client EXCEPT !.quiet = FALSE, !.early = client.early \/ stop # 0]
<1>1. /\ pc = "streaming" /\ stream' = stream /\ feed' = feed /\ durable' = durable
      /\ table' = table
  BY DEF ServerCloses
<1>2. client \in ClientSet
  BY InvFacts
<1>3. c \in ClientSet /\ c.cursor = client.cursor
  <2>1. client.early \in BOOLEAN
    BY <1>2 DEF ClientSet
  <2>2. (client.early \/ stop # 0) \in BOOLEAN
    BY <2>1
  <2> QED
    BY <1>2, <2>2 DEF ClientSet
<1>4. \/ pc' = "finishing" /\ UNCHANGED process
      \/ /\ pc' = "connecting" /\ client' = c
         /\ stop' = stop /\ frontier' = frontier /\ run' = run
      \/ RecordFailure(c)
  BY DEF ServerCloses
<1> HIDE DEF c
<1>5. CASE pc' = "finishing" /\ UNCHANGED process
  <2>1. stop' = stop /\ client' = client /\ frontier' = frontier /\ run' = run
    BY <1>5 DEF process
  <2>2. PlaceOK(pc', run) /\ pc' \in Places
    BY <1>1, <1>5, PlaceFacts DEF Places
  <2> QED
    BY <1>1, <1>2, <2>1, <2>2, ClientOK
<1>6. CASE /\ pc' = "connecting" /\ client' = c
           /\ stop' = stop /\ frontier' = frontier /\ run' = run
  <2>1. PlaceOK(pc', run) /\ pc' \in Places
    BY <1>1, <1>6, PlaceFacts DEF Places
  <2> QED
    BY <1>1, <1>3, <1>6, <2>1, ClientOK
<1>7. CASE RecordFailure(c)
  BY <1>1, <1>3, <1>7, FailureOK
<1> QED
  BY <1>4, <1>5, <1>6, <1>7

\* The connection or the stream fails, or is idle.
LEMMA FaultOK ==
    ASSUME Laws, StreamInv,
           IdleTimeout \/ \E fatal \in BOOLEAN : ConnectFails(fatal) \/ StreamFails(fatal)
    PROVE  StreamInv'
<1>1. client \in ClientSet
  BY InvFacts
<1>2. CASE IdleTimeout
  <2>1. /\ pc = "streaming" /\ pc' = "connecting" /\ stop' = stop /\ client' = client
        /\ frontier' = frontier /\ run' = run /\ stream' = stream /\ feed' = feed
        /\ durable' = durable /\ table' = table
    BY <1>2 DEF IdleTimeout, process
  <2>2. PlaceOK(pc', run) /\ pc' \in Places
    BY <2>1, PlaceFacts DEF Places
  <2> QED
    BY <1>1, <2>1, <2>2, ClientOK
<1>3. ASSUME NEW fatal \in BOOLEAN, ConnectFails(fatal)
      PROVE  StreamInv'
  <2>1. /\ pc = "connecting" /\ (Exit \/ RecordFailure(client)) /\ stream' = stream
        /\ feed' = feed /\ durable' = durable /\ table' = table
    BY <1>3 DEF ConnectFails
  <2> QED
    BY <1>1, <2>1, JustExit, FailureOK
<1>4. ASSUME NEW fatal \in BOOLEAN, StreamFails(fatal)
      PROVE  StreamInv'
  <2>1. /\ pc = "streaming" /\ (Exit \/ RecordFailure([client EXCEPT !.quiet = FALSE]))
        /\ stream' = stream /\ feed' = feed /\ durable' = durable /\ table' = table
    BY <1>4 DEF StreamFails
  <2>2. /\ [client EXCEPT !.quiet = FALSE] \in ClientSet
        /\ [client EXCEPT !.quiet = FALSE].cursor = client.cursor
    BY <1>1 DEF ClientSet
  <2> QED
    BY <2>1, <2>2, JustExit, FailureOK
<1> QED
  BY <1>2, <1>3, <1>4

\* A flush: after a quiet period, at a boundary, on a trigger, at the end.
LEMMA FlushOK ==
    ASSUME Laws, StreamInv, Quiet \/ FlushBoundary \/ TriggerFlush \/ FinishFlush
    PROVE  StreamInv'
<1>1. client \in ClientSet /\ pc \in Places
  BY InvFacts
<1>2. CASE Quiet
  <2>1. /\ pc = "streaming" /\ client' = [client EXCEPT !.quiet = TRUE] /\ pc' = pc
        /\ stream' = stream /\ feed' = feed /\ stop' = stop
        /\ \/ Commit
           \/ frontier' = frontier /\ run' = run /\ durable' = durable /\ table' = table
    BY <1>2 DEF Quiet
  <2>2. client' \in ClientSet /\ client'.cursor = client.cursor
    BY <1>1, <2>1 DEF ClientSet
  <2>3. PlaceOK(pc', run)
    BY <2>1, PlaceFacts
  <2> QED
    BY <1>1, <2>1, <2>2, <2>3, CommitOK, ClientOK
<1>3. CASE FlushBoundary
  <2>1. /\ pc = "observing" /\ Commit /\ client' = client /\ pc' = pc
        /\ stream' = stream /\ feed' = feed /\ stop' = stop
    BY <1>3 DEF FlushBoundary
  <2>2. PlaceOK(pc', run)
    BY <2>1, PlaceFacts
  <2> QED
    BY <1>1, <2>1, <2>2, CommitOK
<1>4. CASE TriggerFlush
  <2>1. /\ pc = "mapped" /\ Commit /\ client' = client /\ pc' = AfterBlock
        /\ stream' = stream /\ feed' = feed /\ stop' = stop
    BY <1>4 DEF TriggerFlush
  <2>2. PlaceOK(pc', run) /\ pc' \in Places
    BY <2>1, PlaceFacts
  <2> QED
    BY <1>1, <2>1, <2>2, CommitOK
<1>5. CASE FinishFlush
  <2>1. /\ pc = "finishing" /\ client' = client /\ pc' = "completing"
        /\ stream' = stream /\ feed' = feed /\ stop' = stop
        /\ \/ Commit
           \/ frontier' = frontier /\ run' = run /\ durable' = durable /\ table' = table
    BY <1>5 DEF FinishFlush
  <2>2. PlaceOK(pc', run) /\ pc' \in Places
    BY <2>1, PlaceFacts DEF Places
  <2> QED
    BY <1>1, <2>1, <2>2, CommitOK, ClientOK
<1> QED
  BY <1>2, <1>3, <1>4, <1>5

\* Every step keeps the invariant.
LEMMA NextOK ==
    ASSUME Laws, StreamInv, [Next]_vars
    PROVE  StreamInv'
<1>1. CASE Deliver
  <2>1. CASE DeliverRefused
    BY <2>1, JustExit DEF DeliverRefused
  <2> QED
    BY <1>1, <2>1, IgnoredStep, FilteredStep, BufferedStep, ReadyStep DEF Deliver
<1>2. CASE ProcessReady
  <2>1. CASE MissingTime
    BY <2>1, JustExit DEF MissingTime
  <2>2. CASE NoTrigger
    <3>1. /\ pc = "mapped" /\ pc' = AfterBlock /\ stop' = stop /\ client' = client
          /\ frontier' = frontier /\ run' = run /\ stream' = stream /\ feed' = feed
          /\ durable' = durable /\ table' = table
      BY <2>2 DEF NoTrigger, process
    <3>2. client \in ClientSet /\ PlaceOK(pc', run) /\ pc' \in Places
      BY <3>1, InvFacts, PlaceFacts
    <3> QED
      BY <3>1, <3>2, ClientOK
  <2> QED
    BY <1>2, <2>1, <2>2, FlushOK, MapStep DEF ProcessReady
<1>3. CASE Progress
  <2>1. ASSUME NEW s \in stream.stops, Start(s)
        PROVE  StreamInv'
    BY <2>1, StartOK
  <2>2. CASE ServerCloses(FALSE)
    BY <2>2, CloseOK
  <2> QED
    BY <1>1, <1>2, <1>3, <2>1, <2>2, ConnectOK, FlushOK, CompleteOK DEF Progress
<1>4. CASE ServerCloses(TRUE)
  BY <1>4, CloseOK
<1>5. CASE Crash
  BY <1>5, JustExit DEF Crash
<1>6. CASE UNCHANGED vars
  <2>1. /\ stream' = stream /\ feed' = feed /\ stop' = stop /\ pc' = pc /\ client' = client
        /\ frontier' = frontier /\ run' = run /\ durable' = durable /\ table' = table
    BY <1>6 DEF vars
  <2>2. Types'
    BY <2>1, InvFacts, ZenonT(30) DEF Types
  <2> QED
    BY <2>1, <2>2, InvFacts, After
<1> QED
  BY <1>3, <1>4, <1>5, <1>6, FlushOK, FaultOK, ZenonT(30) DEF Next

-----------------------------------------------------------------------------
(* What the invariant gives.                                               *)

\* The checkpoint as the frontier that resumes it.
LEMMA DurableFacts ==
    ASSUME StreamInv
    PROVE  /\ FrontierOK(stream, feed, Resume(durable), durable.cursor)
           /\ AnchorOK(stream, feed, Resume(durable), durable.cursor)
           /\ RowsOK(stream, feed, table, durable.cursor)
           /\ RoutedOK(stream, feed, Resume(durable), table)
           /\ durable.ordinal = Ordinal(feed, durable.cursor)
           /\ durable.cursor \in 0..Len(feed)
           /\ durable.completed # 0 =>
                 \E p \in 1..durable.cursor : feed[p].block /\ feed[p].num >= durable.completed - 1
<1> DEFINE f == Resume(durable)
<1>1. Durable(stream, feed, durable, table) /\ durable \in CheckpointSet
  BY InvFacts
<1>2. f.last = durable.cursor /\ f.accepted = durable.ordinal
  BY <1>1, ResumeFields DEF IsResume
<1>3. /\ FrontierOK(stream, feed, f, f.last) /\ AnchorOK(stream, feed, f, f.last)
      /\ RowsOK(stream, feed, table, f.last) /\ RoutedOK(stream, feed, f, table)
      /\ durable.completed # 0 =>
            \E p \in 1..f.last : feed[p].block /\ feed[p].num >= durable.completed - 1
  BY <1>1 DEF Durable
<1> HIDE DEF f
<1>4. f.accepted = Ordinal(feed, f.last) /\ f.last \in 0..Len(feed)
  BY <1>3 DEF FrontierOK
<1> QED
  BY <1>2, <1>3, <1>4 DEF f

\* The mapped events are the wanted ones.
LEMMA MappedWanted ==
    \A p : Mapped(p) <=> Wanted(stream, feed[p])
BY DEF Mapped, Filtered, Wanted

\* The committed rows are the mapped prefix of the feed.
LEMMA PrefixIs ==
    ASSUME StreamInv
    PROVE  DurablePrefix
<1>1. /\ {table[i].cursor : i \in DOMAIN table} = {p \in 1..durable.cursor : Wanted(stream, feed[p])}
      /\ \A i, j \in DOMAIN table : i < j => table[i].cursor < table[j].cursor
      /\ durable.ordinal = Ordinal(feed, durable.cursor)
  BY DurableFacts DEF RowsOK
<1>2. {p \in 1..durable.cursor : Wanted(stream, feed[p])} = {p \in 1..durable.cursor : Mapped(p)}
  BY MappedWanted
<1> QED
  BY <1>1, <1>2 DEF DurablePrefix

\* The routing time of a stored row is the one the feed determines.
LEMMA ReferenceIs ==
    ASSUME StreamInv, NEW p \in 1..Len(feed), Wanted(stream, feed[p]), NEW t,
           TimeIs(stream, feed, p, t)
    PROVE  t = ReferenceTime(p)
<1> DEFINE timed == {q \in DOMAIN feed : Mapped(q) /\ feed[q].time # 0}
           earlier == {q \in timed : q < p}
           later == {q \in timed : q > p}
<1>1. /\ feed \in Seq(Events) /\ Len(feed) \in Nat /\ DOMAIN feed = 1..Len(feed)
      /\ stream.policy \in {"lookahead", "last_known"} /\ p \in Nat
  <2>1. feed \in Seq(Events) /\ stream.policy \in {"lookahead", "last_known"}
    BY InvFacts
  <2> QED
    BY <2>1, SMTT(30)
<1>2. \A q : q \in timed <=> q \in 1..Len(feed) /\ Dated(stream, feed[q])
  BY <1>1, MappedWanted DEF Dated
<1>3. /\ ReferenceTime(p) =
            CASE p \in timed -> feed[p].time
              [] p \notin timed /\ Nullable ->
                    IF earlier = {} THEN Genesis ELSE feed[Max(earlier)].time
              [] OTHER -> IF later = {} THEN 0 ELSE feed[Min(later)].time
  BY DEF ReferenceTime
<1>4. p \in timed <=> feed[p].time # 0
  BY <1>2 DEF Dated
<1>5. /\ \A q : q \in earlier <=> q \in 1..p - 1 /\ Dated(stream, feed[q])
      /\ \A q : q \in later <=> q \in p + 1..Len(feed) /\ Dated(stream, feed[q])
  BY <1>1, <1>2, SMTT(30)
<1>6. earlier \in SUBSET Int /\ later \in SUBSET Int
  BY <1>1, SMTT(30)
<1> HIDE DEF timed, earlier, later
<1>7. CASE feed[p].time # 0
  BY <1>3, <1>4, <1>7 DEF TimeIs
<1>8. CASE feed[p].time = 0 /\ stream.policy = "last_known"
  <2>1. KnownAt(stream, feed, p - 1, t)
    BY <1>8 DEF TimeIs
  <2>2. ReferenceTime(p) = IF earlier = {} THEN Genesis ELSE feed[Max(earlier)].time
    BY <1>3, <1>4, <1>8 DEF Nullable
  <2>3. CASE t = Genesis /\ \A q \in 1..p - 1 : ~Dated(stream, feed[q])
    <3>1. earlier = {}
      BY <1>5, <2>3
    <3> QED
      BY <2>2, <2>3, <3>1
  <2>4. ASSUME NEW q \in 1..p - 1, Dated(stream, feed[q]), t = feed[q].time,
               \A r \in q + 1..p - 1 : ~Dated(stream, feed[r])
        PROVE  t = ReferenceTime(p)
    <3>1. q \in earlier
      BY <1>5, <2>4
    <3>2. ASSUME NEW x \in earlier
          PROVE  q >= x
      <4>1. x \in 1..p - 1 /\ x \notin q + 1..p - 1
        BY <1>5, <2>4
      <4> QED
        BY <1>1, <4>1, SMTT(30)
    <3>3. Max(earlier) = q /\ earlier # {}
      BY <1>6, <3>1, <3>2, MaxIs
    <3> QED
      BY <2>2, <2>4, <3>3
  <2> QED
    BY <2>1, <2>3, <2>4 DEF KnownAt
<1>9. CASE feed[p].time = 0 /\ stream.policy = "lookahead"
  <2>1. AheadAt(stream, feed, p, t)
    BY <1>9 DEF TimeIs
  <2>2. ReferenceTime(p) = IF later = {} THEN 0 ELSE feed[Min(later)].time
    BY <1>3, <1>4, <1>9 DEF Nullable
  <2>3. PICK q \in p + 1..Len(feed) : /\ Dated(stream, feed[q]) /\ t = feed[q].time
                                      /\ \A r \in p + 1..q - 1 : ~Dated(stream, feed[r])
    BY <2>1 DEF AheadAt
  <2>4. q \in later
    BY <1>5, <2>3
  <2>5. ASSUME NEW x \in later
        PROVE  q <= x
    <3>1. x \in p + 1..Len(feed) /\ x \notin p + 1..q - 1
      BY <1>5, <2>3
    <3> QED
      BY <1>1, <3>1, SMTT(30)
  <2>6. Min(later) = q /\ later # {}
    BY <1>6, <2>4, <2>5, MinIs
  <2> QED
    BY <2>2, <2>3, <2>6
<1> QED
  BY <1>1, <1>7, <1>8, <1>9

\* The stored rows lie in the days that the feed determines.
LEMMA RoutingIs ==
    ASSUME StreamInv
    PROVE  RoutingStable
<1> SUFFICES ASSUME stream.final, NEW i \in DOMAIN table
             PROVE  table[i].time = ReferenceTime(table[i].cursor)
  BY DEF RoutingStable
<1> DEFINE p == table[i].cursor
<1>1. /\ {table[j].cursor : j \in DOMAIN table}
            = {q \in 1..durable.cursor : Wanted(stream, feed[q])}
      /\ durable.cursor \in 0..Len(feed)
  BY DurableFacts DEF RowsOK
<1>2. p \in 1..durable.cursor /\ Wanted(stream, feed[p])
  <2>1. p \in {table[j].cursor : j \in DOMAIN table}
    OBVIOUS
  <2> QED
    BY <1>1, <2>1
<1>3. p \in 1..Len(feed)
  <2>1. Len(feed) \in Nat
    BY InvFacts
  <2> HIDE DEF p
  <2> QED
    BY <1>1, <1>2, <2>1, SMTT(30)
<1>4. TimeIs(stream, feed, p, table[i].time)
  BY DurableFacts DEF RoutedOK
<1> QED
  BY <1>2, <1>3, <1>4, ReferenceIs

\* The look-ahead sources are honoured.
LEMMA LookaheadIs ==
    ASSUME StreamInv
    PROVE  LookaheadHonoured
<1> DEFINE events == {p \in DOMAIN feed : feed[p].block}
<1> SUFFICES ASSUME NEW i \in DOMAIN table, table[i].src.from = "lookahead",
                    table[i].src.src <= durable.ordinal,
                    \A p \in events : Ordinal(feed, p) < table[i].src.src => feed[p].time = 0
             PROVE  \E p \in events :
                       /\ Ordinal(feed, p) = table[i].src.src
                       /\ table[i].src = AnchorAt(table[i].src.src, feed[p], table[i].src.from)
  BY DEF LookaheadHonoured
<1> DEFINE a == table[i].src
           f == Resume(durable)
<1>1. feed \in Seq(Events) /\ Len(feed) \in Nat /\ durable \in CheckpointSet
  BY InvFacts
<1>2. DOMAIN feed = 1..Len(feed)
  BY <1>1, SMTT(30)
<1>3. f.last = durable.cursor /\ f.assigned = durable.ordinal
  BY <1>1, ResumeFields DEF IsResume
<1>4. HonouredAt(feed, f, a)
  BY DurableFacts DEF RoutedOK
<1>5. AnchorOK(stream, feed, f, durable.cursor) /\ durable.cursor \in 0..Len(feed)
  BY DurableFacts
<1>6. a.from = "lookahead" /\ a.src <= durable.ordinal
  OBVIOUS
<1> HIDE DEF f, a
<1>7. \E p \in 1..durable.cursor : EventIs(feed, a.src, p) /\ a = AnchorAt(a.src, feed[p], a.from)
  <2>1. CASE f.anchor = a
    BY <1>3, <1>5, <1>6, <2>1 DEF AnchorOK
  <2>2. CASE \E p \in 1..f.last : feed[p].block /\ Ordinal(feed, p) < a.src /\ feed[p].time # 0
    <3>1. PICK p \in 1..durable.cursor :
             feed[p].block /\ Ordinal(feed, p) < a.src /\ feed[p].time # 0
      BY <1>3, <2>2
    <3>2. p \in 1..Len(feed)
      BY <1>1, <1>5, SMTT(30)
    <3>3. p \in events
      BY <1>2, <3>1, <3>2
    <3> QED
      BY <3>1, <3>3 DEF a
  <2> QED
    BY <1>3, <1>4, <2>1, <2>2 DEF HonouredAt
<1>8. PICK p \in 1..durable.cursor :
         EventIs(feed, a.src, p) /\ a = AnchorAt(a.src, feed[p], a.from)
  BY <1>7
<1>9. p \in events /\ Ordinal(feed, p) = a.src
  BY <1>2, <1>8 DEF EventIs
<1> QED
  BY <1>8, <1>9 DEF a

\* The session accepts what is mapped.
LEMMA AcceptIs ==
    ASSUME Laws, StreamInv
    PROVE  AcceptNeverRefuses
<1> SUFFICES ASSUME pc = "observing", Nullable \/ Head(run.work).time # 0
             PROVE  MayAccept(frontier, Head(run.work))
  BY DEF AcceptNeverRefuses
<1>1. /\ run.work \in Seq(ReadySet) /\ Session(stream, feed, stop, frontier, client.cursor)
      /\ Runtime(stream, feed, frontier, run, pc) /\ Types
  BY InvFacts, ZenonT(30) DEF StreamInv
<1>2. run.work # <<>>
  BY <1>1 DEF Runtime, PlaceOK
<1>3. Head(run.work) = run.work[1]
  BY <1>1, <1>2, SMTT(30)
<1> QED
  BY <1>1, <1>2, <1>3, HeadAccepted

\* A completed bound is true.
LEMMA CompletionIs ==
    ASSUME StreamInv
    PROVE  CompletionIsTrue
<1> SUFFICES ASSUME stream.final, NEW p \in DOMAIN feed, Mapped(p),
                    feed[p].num < durable.completed
             PROVE  \E i \in DOMAIN table : table[i].cursor = p
  BY DEF CompletionIsTrue
<1>1. /\ stream \in Streams /\ feed \in stream.feeds /\ feed \in Seq(Events)
      /\ durable \in CheckpointSet
  BY InvFacts
<1>2. /\ DOMAIN feed = 1..Len(feed) /\ Len(feed) \in Nat /\ p \in Nat
      /\ \A q \in 1..Len(feed) : feed[q] \in Events
  BY <1>1, SMTT(30)
<1>3. \A q \in 1..Len(feed) : feed[q].num \in Nat
  BY <1>2 DEF Events
<1>4. durable.completed \in Nat
  BY <1>1 DEF CheckpointSet
<1>5. /\ {table[j].cursor : j \in DOMAIN table}
            = {q \in 1..durable.cursor : Wanted(stream, feed[q])}
      /\ durable.cursor \in 0..Len(feed)
      /\ durable.completed # 0 =>
            \E q \in 1..durable.cursor : feed[q].block /\ feed[q].num >= durable.completed - 1
  BY DurableFacts DEF RowsOK
<1>6. durable.completed # 0
  BY <1>2, <1>3, <1>4, SMTT(30)
<1>7. PICK q \in 1..durable.cursor : feed[q].block /\ feed[q].num >= durable.completed - 1
  BY <1>5, <1>6
<1>8. q \in 1..Len(feed)
  BY <1>2, <1>5, SMTT(30)
<1>9. Wanted(stream, feed[p])
  BY MappedWanted
<1>10. p \in 1..durable.cursor
  <2>1. SUFFICES ASSUME p > durable.cursor
                 PROVE  FALSE
    BY <1>2, <1>5, SMTT(30)
  <2>2. q < p
    BY <1>2, <1>5, <2>1, SMTT(30)
  <2>3. feed[p].block /\ feed[p].step # 2 /\ ~(feed[p].num < stream.start)
    BY <1>9 DEF Wanted
  <2>4. stream.start \in Nat
    BY <1>1, FeedFacts
  <2>5. feed[p].num >= stream.start
    BY <1>2, <1>3, <2>3, <2>4, SMTT(30)
  <2>6. feed[q].num < feed[p].num
    BY <1>1, <1>2, <1>7, <1>8, <2>2, <2>3, <2>5, StreamAssumption
  <2> QED
    BY <1>2, <1>3, <1>4, <1>7, <1>8, <2>6, SMTT(30)
<1>11. p \in {table[j].cursor : j \in DOMAIN table}
  BY <1>5, <1>9, <1>10
<1> QED
  BY <1>11

\* Rows are added by a commit, and only by one.
LEMMA TableSteps ==
    ASSUME [Next]_vars
    PROVE  table' = table \/ Commit
<1>1. CASE Deliver
  BY <1>1 DEF Deliver, DeliverIgnored, DeliverRefused, DeliverFiltered, DeliverBuffered,
              DeliverReady
<1>2. CASE ProcessReady
  BY <1>2 DEF ProcessReady, MissingTime, FlushBoundary, MapAndAccept, TriggerFlush, NoTrigger
<1>3. CASE Progress
  <2>1. \A s \in stream.stops : Start(s) => table' = table
    BY DEF Start
  <2>2. Connect \/ ServerCloses(FALSE) \/ CompleteRequest => table' = table
    BY DEF Connect, ServerCloses, CompleteRequest
  <2>3. FinishFlush => table' = table \/ Commit
    BY DEF FinishFlush
  <2> QED
    BY <1>1, <1>2, <1>3, <2>1, <2>2, <2>3 DEF Progress
<1>4. CASE Quiet
  BY <1>4 DEF Quiet
<1>5. CASE IdleTimeout \/ ServerCloses(TRUE) \/ Crash
  BY <1>5 DEF IdleTimeout, ServerCloses, Crash
<1>6. ASSUME NEW fatal \in BOOLEAN, ConnectFails(fatal) \/ StreamFails(fatal)
      PROVE  table' = table
  BY <1>6 DEF ConnectFails, StreamFails
<1>7. CASE UNCHANGED vars
  BY <1>7 DEF vars
<1> QED
  BY <1>3, <1>4, <1>5, <1>6, <1>7 DEF Next

\* The rows of one flush lie in one day.
LEMMA OneDayStep ==
    ASSUME StreamInv, [Next]_vars
    PROVE  \A i, j \in Len(table) + 1..Len(table') :
              Day(table'[i].time) = Day(table'[j].time)
<1>1. table \in Seq(RowSet) /\ run.rows \in Seq(RowSet) /\ DayOK(run)
  BY InvFacts DEF Runtime
<1>2. CASE table' = table
  <2>1. Len(table) + 1..Len(table') = {}
    BY <1>1, <1>2, SMTT(30)
  <2> QED
    BY <2>1
<1>3. CASE Commit
  <2>1. table' = table \o run.rows
    BY <1>3 DEF Commit
  <2>2. ASSUME NEW i \in Len(table) + 1..Len(table')
        PROVE  Day(table'[i].time) = run.day
    <3> DEFINE k == i - Len(table)
    <3>1. k \in DOMAIN run.rows /\ table'[i] = run.rows[k]
      BY <1>1, <2>1, SMTT(30)
    <3>2. run.rows # <<>>
      BY <3>1, SMTT(30)
    <3> QED
      BY <1>1, <3>1, <3>2 DEF DayOK
  <2> QED
    BY <2>2
<1> QED
  BY <1>2, <1>3, TableSteps

-----------------------------------------------------------------------------
(* The laws of counting and of order.                                      *)
INSTANCE FiniteSetTheorems

\* The ordinal is a number; the blocks up to a position are finitely many.
LEMMA CountFacts ==
    ASSUME NEW fd \in Seq(Events), NEW p \in 0..Len(fd)
    PROVE  /\ Ordinal(fd, p) \in Nat
           /\ IsFiniteSet({q \in 1..p : fd[q].block})
           /\ Ordinal(fd, 0) = 0
<1>1. IsFiniteSet({q \in 1..p : fd[q].block})
  <2>1. IsFiniteSet(1..p)
    BY FS_Interval, SMTT(30)
  <2> QED
    BY <2>1, FS_Subset
<1>2. Ordinal(fd, 0) = 0
  <2>1. {q \in 1..0 : fd[q].block} = {}
    BY SMTT(30)
  <2> QED
    BY <2>1, FS_EmptySet DEF Ordinal
<1> QED
  BY <1>1, <1>2, FS_CardinalityType DEF Ordinal

\* A later position has counted the blocks of an earlier one.
LEMMA CountOrder ==
    ASSUME NEW fd \in Seq(Events), NEW p \in 0..Len(fd), NEW q \in 0..Len(fd), p <= q
    PROVE  /\ Ordinal(fd, p) <= Ordinal(fd, q)
           /\ p < q /\ fd[q].block => Ordinal(fd, p) < Ordinal(fd, q)
<1> DEFINE P == {r \in 1..p : fd[r].block}
           Q == {r \in 1..q : fd[r].block}
<1>1. IsFiniteSet(P) /\ IsFiniteSet(Q) /\ Cardinality(P) \in Nat /\ Cardinality(Q) \in Nat
  BY CountFacts DEF Ordinal
<1>2. P \subseteq Q
  BY SMTT(30)
<1>3. Cardinality(P) <= Cardinality(Q)
  <2> HIDE DEF P, Q
  <2> QED
    BY <1>1, <1>2, FS_Subset
<1>4. ASSUME p < q, fd[q].block PROVE Cardinality(P) < Cardinality(Q)
  <2>1. q \in Q /\ q \notin P
    BY <1>4, SMTT(30)
  <2> HIDE DEF P, Q
  <2>2. Cardinality(P) # Cardinality(Q)
    BY <1>1, <1>2, <2>1, FS_Subset
  <2> QED
    BY <1>1, <1>3, <2>2, SMTT(30)
<1> QED
  BY <1>3, <1>4 DEF Ordinal

\* One more position counts its own block.
LEMMA CountNext ==
    ASSUME NEW fd \in Seq(Events), NEW p \in 0..Len(fd) - 1
    PROVE  Ordinal(fd, p + 1) = IF fd[p + 1].block THEN Ordinal(fd, p) + 1 ELSE Ordinal(fd, p)
<1> DEFINE P == {r \in 1..p : fd[r].block}
           Q == {r \in 1..p + 1 : fd[r].block}
<1>0. Len(fd) \in Nat
  BY SMTT(30)
<1>1. IsFiniteSet(P)
  BY <1>0, CountFacts, SMTT(30)
<1>2. CASE fd[p + 1].block
  <2>1. Q = P \cup {p + 1} /\ p + 1 \notin P
    BY <1>2, SMTT(30)
  <2> HIDE DEF P, Q
  <2>2. Cardinality(Q) = Cardinality(P) + 1
    BY <1>1, <2>1, FS_AddElement
  <2> QED
    BY <1>2, <2>2 DEF Ordinal, P, Q
<1>3. CASE ~fd[p + 1].block
  <2>1. Q = P
    BY <1>3, SMTT(30)
  <2> QED
    BY <1>3, <2>1 DEF Ordinal
<1> QED
  BY <1>2, <1>3

\* There is a first member of W above a, or there is none up to b.
LEMMA LeastExists ==
    ASSUME NEW a \in Nat, NEW b \in Nat, a <= b, NEW W \in SUBSET (a + 1..b)
    PROVE  \E n \in a..b : /\ a + 1..n \cap W = {}
                           /\ n < b => n + 1 \in W
<1> DEFINE S == {n \in a..b : n < b => n + 1 \in W}
<1>1. b \in S
  BY SMTT(30)
<1>2. S \subseteq Nat
  BY SMTT(30)
<1>3. PICK n \in S : \A m \in S : ~(<<m, n>> \in OpToRel(<, Nat))
  BY <1>1, <1>2, NatLessThanWellFounded, WFMin
<1>4. \A m \in S : ~(m < n)
  BY <1>2, <1>3 DEF OpToRel
<1>5. ASSUME NEW i \in a + 1..n, i \in W PROVE FALSE
  <2>1. i - 1 \in S /\ i - 1 < n
    BY <1>5, SMTT(30)
  <2> QED
    BY <1>4, <2>1
<1> QED
  BY <1>5

\* The laws hold for every feed.
LEMMA LawsHold == Laws
<1>1. CountLaw
  <2> SUFFICES ASSUME NEW fd \in Seq(Events), NEW p \in 0..Len(fd), NEW q \in 0..Len(fd)
               PROVE  /\ Ordinal(fd, p) \in Nat
                      /\ Ordinal(fd, 0) = 0
                      /\ p <= q => Ordinal(fd, p) <= Ordinal(fd, q)
                      /\ p < q /\ fd[q].block => Ordinal(fd, p) < Ordinal(fd, q)
                      /\ q = p + 1 =>
                           Ordinal(fd, q) = IF fd[q].block THEN Ordinal(fd, p) + 1
                                            ELSE Ordinal(fd, p)
    BY DEF CountLaw
  <2>1. Ordinal(fd, p) \in Nat /\ Ordinal(fd, 0) = 0
    BY CountFacts
  <2>2. p <= q => Ordinal(fd, p) <= Ordinal(fd, q)
    BY CountOrder
  <2>3. p < q /\ fd[q].block => Ordinal(fd, p) < Ordinal(fd, q)
    BY CountOrder, SMTT(30)
  <2>4. ASSUME q = p + 1
        PROVE  Ordinal(fd, q) = IF fd[q].block THEN Ordinal(fd, p) + 1 ELSE Ordinal(fd, p)
    <3>1. p \in 0..Len(fd) - 1
      BY <2>4, SMTT(30)
    <3> QED
      BY <2>4, <3>1, CountNext
  <2> QED
    BY <2>1, <2>2, <2>3, <2>4
<1>2. LeastLaw
  BY LeastExists DEF LeastLaw
<1> QED
  BY <1>1, <1>2 DEF Laws

-----------------------------------------------------------------------------
(* The theorems.                                                           *)

\* The inductive invariant: what is durable, what a session has received and
\* accepted, what the runtime holds and what the window would commit agree
\* with the feed, whatever is delivered, refused, filtered, held, flushed,
\* retried, lost in a crash or resumed (runtime.rs, session.rs, frontier.rs,
\* grpc.rs).
THEOREM StreamSafe == Spec => []StreamInv
<1>1. Init => StreamInv
  BY InitOK, LawsHold
<1>2. StreamInv /\ [Next]_vars => StreamInv'
  BY NextOK, LawsHold
<1> QED
  BY <1>1, <1>2, PTL DEF Spec

\* Resuming from the checkpoint neither loses nor repeats an event: the
\* committed rows are those of the mapped events up to its cursor, in order,
\* and its ordinal counts the events (session.flush, AcceptedFrontier).
THEOREM StreamDurablePrefix == Spec => []DurablePrefix
<1>1. StreamInv => DurablePrefix
  BY PrefixIs
<1> QED
  BY <1>1, StreamSafe, PTL

\* A restart changes no routing: a committed row of a final-only stream has
\* the time that the feed alone determines (routing_timestamp_hint,
\* restore_session_anchor, accept_mapped).
THEOREM StreamRoutingStable == Spec => []RoutingStable
<1>1. StreamInv => RoutingStable
  BY RoutingIs
<1> QED
  BY <1>1, StreamSafe, PTL

\* A row routed by a later event was routed by the one that was accepted at
\* that ordinal, on every reconnection of a server that may continue a cursor
\* differently (AcceptedFrontier::receive).
THEOREM StreamLookaheadHonoured == Spec => []LookaheadHonoured
<1>1. StreamInv => LookaheadHonoured
  BY LookaheadIs
<1> QED
  BY <1>1, StreamSafe, PTL

\* accept_mapped and AcceptedFrontier::accept refuse no block that the runtime
\* has mapped, so no mapped row is left without an accepted event.
THEOREM StreamAcceptNeverRefuses == Spec => []AcceptNeverRefuses
<1>1. StreamInv => AcceptNeverRefuses
  BY AcceptIs, LawsHold
<1> QED
  BY <1>1, StreamSafe, PTL

\* A completed bound of a final-only stream is true: every block of the feed
\* in [start, stop) is in the tables (Checkpoint::complete_request).
THEOREM StreamCompletionIsTrue == Spec => []CompletionIsTrue
<1>1. StreamInv => CompletionIsTrue
  BY CompletionIs
<1> QED
  BY <1>1, StreamSafe, PTL

\* The rows that one flush commits lie in one day (process_ready's boundary).
THEOREM StreamOneDayPerFlush == Spec => OneDayPerFlush
<1>1. StreamInv /\ [Next]_vars =>
         [\A i, j \in Len(table) + 1..Len(table') :
             Day(table'[i].time) = Day(table'[j].time)]_vars
  BY OneDayStep
<1> QED
  BY <1>1, StreamSafe, PTL DEF Spec, OneDayPerFlush
=============================================================================
