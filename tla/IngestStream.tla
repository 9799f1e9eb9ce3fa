---------------------------- MODULE IngestStream ----------------------------
(* One dataset fed from a Firehose server: the reconnecting stream client   *)
(* (grpc.rs), the ingestion runtime (blocks/src/bin/ingestion/runtime.rs,   *)
(* blocks/src/bin/main.rs), the session with its accepted frontier          *)
(* (ingest/session.rs, ingest/frontier.rs) and the durable checkpoint       *)
(* (ingest/state.rs).  A flush is one atomic transaction here: that is what *)
(* AtomicIngest promises and IngestTransaction implements.                  *)
(*                                                                          *)
(* A cursor is a position in the server's feed.  A server of reversible     *)
(* blocks may continue a cursor differently on the next connection, so the  *)
(* feed is chosen again on each one among those that agree up to the cursor.*)
EXTENDS Integers, Sequences, FiniteSets, FiniteSetsExt

CONSTANTS
    Streams,      \* requests: [policy, final, start, stops, feeds]
    MaxBuffered,  \* MAX_BUFFERED_EVENTS
    MaxFailed,    \* MAX_FAILED_ATTEMPTS_WITHOUT_PROGRESS
    Genesis,      \* SOLANA_GENESIS_ROUTING_SECONDS
    MaxFaults,    \* bound: faults of the server and the network
    MaxCrashes    \* bound: crashes and shutdown signals

VARIABLES
    stream,    \* the dataset's stream descriptor
    feed,      \* what the server streams
    stop,      \* --stop-block of this run, 0 without one
    pc,        \* where the process is
    client,    \* locals of stream_blocks_with_quiet
    frontier,  \* AcceptedFrontier
    run,       \* IngestionRuntime: bootstrap, routing, window and mapper rows
    durable,   \* the authoritative checkpoint
    table,     \* committed rows, in commit order
    faults, crashes

vars == <<stream, feed, stop, pc, client, frontier, run, durable, table,
          faults, crashes>>
process == <<stop, client, frontier, run>>

\* A response: block number and id, time (0 when missing), fork step (2 is
\* UNDO), and whether it carries a block.
Events == [num : Nat, id : STRING, time : Nat, step : 1..3, block : BOOLEAN]

\* What a server may be asked and may send.  Block 0 is not sent again after a
\* later block.  A server of final blocks never takes one back: it continues a
\* cursor in one way only, and a block it wants stored is above all before it.
ASSUME StreamAssumption ==
    /\ Genesis \in Nat
    /\ \A s \in Streams :
          /\ s \in [policy : {"lookahead", "last_known"}, final : BOOLEAN,
                    start : Nat, stops : SUBSET Nat, feeds : SUBSET Seq(Events)]
          /\ \A f \in s.feeds : \A p, q \in DOMAIN f :
                p < q /\ f[p].block /\ f[q].block =>
                   /\ f[q].num = 0 => f[p].num = 0
                   /\ s.final /\ f[q].step # 2 /\ f[q].num >= s.start =>
                         f[p].num < f[q].num
          /\ s.final => \A f, g \in s.feeds : f = g

Day(t) == t \div 10
Nullable == stream.policy = "last_known"

\* RoutingCheckpoint.anchor
NoAnchor == [src |-> 0, num |-> 0, id |-> "none", secs |-> 0, from |-> "none"]
AnchorAt(o, e, from) ==
    [src |-> o, num |-> e.num, id |-> e.id, secs |-> e.time, from |-> from]
GenesisAnchor == [NoAnchor EXCEPT !.secs = Genesis, !.from = "genesis"]

(****************************** the checkpoint *****************************)
\* Checkpoint::initial; cursor is the feed position of its event.
Origin == [ordinal |-> 0, cursor |-> 0, anchor |-> NoAnchor, completed |-> 0]

\* AcceptedFrontier::resume
Resume(d) == [base |-> d.ordinal, assigned |-> d.ordinal,
              accepted |-> d.ordinal, last |-> d.cursor,
              anchor |-> d.anchor, received |-> <<>>]

\* The locals of a new stream_blocks call.
NewClient(cursor) == [cursor |-> cursor, last |-> -1, blocks |-> FALSE,
                      message |-> FALSE, early |-> FALSE, failed |-> 0,
                      quiet |-> FALSE]

\* Fault variant of NewRun: the session's anchor is not restored.
NewRunUnanchored(anchor) ==
    [bootstrap |-> "idle", buffer |-> <<>>, work |-> <<>>, rows |-> <<>>,
     known |-> Genesis, mapped |-> FALSE, day |-> -1]

\* IngestionRuntime::new after restore_session_anchor.
NewRun(anchor) ==
    [bootstrap |-> "idle", buffer |-> <<>>, work |-> <<>>, rows |-> <<>>,
     known |-> IF anchor = NoAnchor THEN Genesis ELSE anchor.secs,
     mapped |-> FALSE, day |-> -1]

(******************************* the frontier ******************************)
Unresolved == [how |-> "pending", anchor |-> NoAnchor]
Explicit(a) == [how |-> "explicit", anchor |-> a]
Inherit == [how |-> "inherit", anchor |-> NoAnchor]

EventAt(f, o) == feed[f.received[o].cursor]

\* receive: an ordinal for the event at feed position p.
Receive(f, p) ==
    LET o == f.assigned + 1
        event == [cursor |-> p, routing |-> Unresolved]
    IN  [f EXCEPT !.assigned = o,
                  !.received = [i \in DOMAIN @ \cup {o} |->
                                   IF i = o THEN event ELSE @[i]]]

\* Fault variant of ReceiveRefuses: the look-ahead source is not compared.
RefusesFullOnly(f, e) == Cardinality(DOMAIN f.received) >= MaxBuffered

\* receive refuses: the buffer is full, or the event is not the one that the
\* restored look-ahead anchor names.
ReceiveRefuses(f, e) ==
    \/ Cardinality(DOMAIN f.received) >= MaxBuffered
    \/ /\ f.anchor.from = "lookahead"
       /\ f.anchor.src = f.assigned + 1
       /\ f.anchor # AnchorAt(f.anchor.src, e, "lookahead")

\* drain: the contiguous accepted events leave the buffer; a filtered one
\* keeps the routing of its predecessor.
Drain(f) ==
    LET Resolved(n) == /\ n \in DOMAIN f.received
                       /\ f.received[n].routing # Unresolved
        end == CHOOSE n \in f.accepted..f.assigned :
                  /\ \A i \in f.accepted + 1..n : Resolved(i)
                  /\ ~Resolved(n + 1)
        drained == f.accepted + 1..end
        explicit == {i \in drained : f.received[i].routing # Inherit}
    IN  [f EXCEPT
          !.accepted = end,
          !.last = IF drained = {} THEN @ ELSE f.received[end].cursor,
          !.anchor = IF explicit = {} THEN @
                     ELSE f.received[Max(explicit)].routing.anchor,
          !.received = [i \in DOMAIN @ \ drained |-> @[i]]]

Accept(f, o, routing) ==
    Drain([f EXCEPT !.received[o].routing = routing])

\* Fault variant of AcceptFiltered: the routing is taken when the event is
\* filtered, not when it drains.
AcceptFilteredEarly(f, o) == Accept(f, o, Explicit(f.anchor))

AcceptFiltered(f, o) == Accept(f, o, Inherit)

\* accept_mapped: the routing anchor of an event that has been mapped.  w is
\* a ready block: its ordinal, routing time and look-ahead ordinal (or 0).
MappedAnchor(f, w) ==
    LET e == EventAt(f, w.ord)
    IN  IF Nullable
        THEN CASE e.time # 0 -> AnchorAt(w.ord, e, "accepted")
               [] e.time = 0 /\ f.anchor # NoAnchor -> f.anchor
               [] OTHER -> GenesisAnchor
        ELSE CASE e.time # 0 -> NoAnchor
               [] e.time = 0 /\ w.look # 0 ->
                     AnchorAt(w.look, EventAt(f, w.look), "lookahead")
               [] OTHER -> f.anchor

\* The checks of accept_mapped and AcceptedFrontier::accept.
MayAccept(f, w) ==
    /\ w.ord = f.accepted + 1
    /\ w.ord \in DOMAIN f.received
    /\ w.look # 0 => /\ ~Nullable
                     /\ w.look > w.ord
                     /\ w.look \in DOMAIN f.received
                     /\ EventAt(f, w.look).time # 0
                     /\ EventAt(f, w.ord).time = 0
    /\ LET e == EventAt(f, w.ord)
           a == MappedAnchor(f, w)
           Names(src) == a = AnchorAt(a.src, src, a.from)
       IN  /\ ~Nullable /\ e.time # 0 => w.time = e.time
           /\ ~Nullable /\ e.time = 0 => a.from = "lookahead"
           /\ a # NoAnchor => w.time = a.secs
           /\ a.src > f.assigned => a = f.anchor
           /\ a.from \notin {"none", "genesis"} =>
                 CASE a.src \in DOMAIN f.received -> Names(EventAt(f, a.src))
                   [] a.src = f.accepted /\ f.last # 0 -> Names(feed[f.last])
                   [] OTHER -> a = f.anchor

\* Fault variant of AcceptMapped: the first anchor is kept.
AcceptMappedOnce(f, w) ==
    Accept(f, w.ord, Explicit(IF f.anchor # NoAnchor THEN f.anchor
                              ELSE MappedAnchor(f, w)))

AcceptMapped(f, w) == Accept(f, w.ord, Explicit(MappedAnchor(f, w)))

\* has_buffered: mapped rows, or an accepted prefix that is not durable.
HasBuffered == run.rows # <<>> \/ frontier.accepted > frontier.base

(********************************* the run *********************************)
Init ==
    /\ stream \in Streams
    /\ feed \in stream.feeds
    /\ stop = 0
    /\ pc = "down"
    /\ client = NewClient(0)
    /\ frontier = Resume(Origin)
    /\ run = NewRun(NoAnchor)
    /\ durable = Origin
    /\ table = <<>>
    /\ faults = 0
    /\ crashes = 0

\* The process ends without a flush (StreamExit::Failed or Shutdown, or a
\* crash): only the checkpoint and the tables survive.
Exit ==
    /\ pc' = "down"
    /\ stop' = 0
    /\ client' = NewClient(0)
    /\ frontier' = Resume(Origin)
    /\ run' = NewRun(NoAnchor)

\* Fault variant of Commit: the checkpoint takes the client's cursor.
CommitAtClient ==
    /\ durable' = [durable EXCEPT !.ordinal = frontier.accepted,
                                  !.cursor = client.cursor,
                                  !.anchor = frontier.anchor]
    /\ table' = table \o run.rows
    /\ frontier' = [frontier EXCEPT !.base = frontier.accepted]
    /\ run' = [run EXCEPT !.rows = <<>>]

\* session.flush through commit_window: the accepted prefix and every mapped
\* row become durable together, and the frontier acknowledges the prefix.
Commit ==
    /\ durable' = [durable EXCEPT !.ordinal = frontier.accepted,
                                  !.cursor = frontier.last,
                                  !.anchor = frontier.anchor]
    /\ table' = table \o run.rows
    /\ frontier' = [frontier EXCEPT !.base = frontier.accepted]
    /\ run' = [run EXCEPT !.rows = <<>>]

\* run_owned: recovery has finished; a bound that is already complete, or
\* that rewinds a completed one, streams nothing.
Start(s) ==
    /\ pc = "down"
    /\ s \in stream.stops
    /\ s # 0 => s > durable.completed
    /\ stop' = s
    /\ pc' = "connecting"
    /\ client' = NewClient(durable.cursor)
    /\ frontier' = Resume(durable)
    /\ run' = NewRun(durable.anchor)
    /\ UNCHANGED <<stream, feed, durable, table, faults, crashes>>

\* A new connection and Blocks request from the last handled cursor.
Connect ==
    /\ pc = "connecting"
    /\ \E f \in stream.feeds :
          /\ Len(f) >= client.cursor
          /\ SubSeq(f, 1, client.cursor) = SubSeq(feed, 1, client.cursor)
          /\ feed' = f
    /\ pc' = "streaming"
    /\ client' = [client EXCEPT !.blocks = FALSE, !.message = FALSE]
    /\ UNCHANGED <<stream, stop, frontier, run, durable, table, faults, crashes>>

\* ReconnectState::record_failure: retry, or give up at the cap or when the
\* stall timeout, which the first failure starts, has passed.
RecordFailure(c) ==
    LET n == c.failed + 1
    IN  \/ /\ n >= MaxFailed \/ n > 1
           /\ Exit
        \/ /\ n < MaxFailed
           /\ pc' = "connecting"
           /\ client' = [c EXCEPT !.failed = n]
           /\ UNCHANGED <<stop, frontier, run>>

\* The connection or the Blocks call fails; a fatal status of the call ends
\* the run.
ConnectFails(fatal) ==
    /\ pc = "connecting"
    /\ faults < MaxFaults
    /\ faults' = faults + 1
    /\ \/ fatal /\ Exit
       \/ ~fatal /\ RecordFailure(client)
    /\ UNCHANGED <<stream, feed, durable, table, crashes>>

\* The stream fails: a fatal status ends the run, another one is retried.
StreamFails(fatal) ==
    /\ pc = "streaming"
    /\ faults < MaxFaults
    /\ faults' = faults + 1
    /\ \/ fatal /\ Exit
       \/ ~fatal /\ RecordFailure([client EXCEPT !.quiet = FALSE])
    /\ UNCHANGED <<stream, feed, durable, table, crashes>>

\* stream_idle_timeout: reconnect, which is not a failure.
IdleTimeout ==
    /\ pc = "streaming"
    /\ faults < MaxFaults
    /\ faults' = faults + 1
    /\ pc' = "connecting"
    /\ UNCHANGED <<stream, feed, process, durable, table, crashes>>

\* flush_idle_secs: once per quiet period the handler commits what it holds.
Quiet ==
    /\ pc = "streaming"
    /\ ~client.quiet
    /\ client' = [client EXCEPT !.quiet = TRUE]
    /\ \/ HasBuffered /\ Commit
       \/ ~HasBuffered /\ UNCHANGED <<frontier, run, durable, table>>
    /\ UNCHANGED <<stream, feed, stop, pc, faults, crashes>>

(**************************** messages of the feed *************************)
\* firehose_stop_block_num: the inclusive bound of the request.
LastRequested == Max({stop - 1, 1})
Position == client.cursor + 1
Streamed == /\ Position <= Len(feed)
            /\ stop # 0 => feed[Position].num <= LastRequested

\* The client's state once the message at Position is handled.
Handled ==
    LET e == feed[Position]
    IN  [client EXCEPT
           !.cursor = Position,
           !.message = TRUE,
           !.failed = IF client.message THEN @ ELSE 0,
           !.quiet = FALSE,
           !.blocks = @ \/ e.block,
           !.last = IF e.block THEN Max({@, e.num}) ELSE @]

\* A message without a block, or with one at or above the exclusive stop.
Ignored(e) == ~e.block \/ (stop # 0 /\ e.num >= stop)

DeliverIgnored ==
    /\ pc = "streaming"
    /\ Streamed
    /\ Ignored(feed[Position])
    /\ client' = Handled
    /\ UNCHANGED <<stream, feed, stop, pc, frontier, run, durable, table,
                   faults, crashes>>

\* observe calls receive first; a refusal ends the run.
DeliverRefused ==
    /\ pc = "streaming"
    /\ Streamed
    /\ ~Ignored(feed[Position])
    /\ ReceiveRefuses(frontier, feed[Position])
    /\ Exit
    /\ UNCHANGED <<stream, feed, durable, table, faults, crashes>>

\* An UNDO of a final-only stream, or a block below the start.
Filtered(e) == (stream.final /\ e.step = 2) \/ e.num < stream.start

DeliverFiltered ==
    /\ pc = "streaming"
    /\ Streamed
    /\ LET e == feed[Position]
       IN  /\ ~Ignored(e) /\ ~ReceiveRefuses(frontier, e)
           /\ Filtered(e)
    /\ frontier' = AcceptFiltered(Receive(frontier, Position),
                                  frontier.assigned + 1)
    /\ client' = Handled
    /\ UNCHANGED <<stream, feed, stop, pc, run, durable, table, faults, crashes>>

\* resumed_bootstrap_timestamp: a block without a time takes the restored
\* anchor's.
Resumed(e) == ~Nullable /\ e.time = 0 /\ frontier.anchor # NoAnchor

\* GenesisTimestampBootstrap::observe_block: hold a block without a time.
Buffers(e) ==
    /\ ~Nullable /\ ~Resumed(e)
    /\ e.time = 0
    /\ run.bootstrap # "off" /\ ~run.mapped
    /\ run.bootstrap = "buffering" \/ e.num = stream.start

DeliverBuffered ==
    /\ pc = "streaming"
    /\ Streamed
    /\ LET e == feed[Position]
       IN  /\ ~Ignored(e) /\ ~ReceiveRefuses(frontier, e) /\ ~Filtered(e)
           /\ Buffers(e)
    /\ frontier' = Receive(frontier, Position)
    /\ run' = [run EXCEPT !.bootstrap = "buffering",
                          !.buffer = Append(@, frontier.assigned + 1)]
    /\ client' = Handled
    /\ UNCHANGED <<stream, feed, stop, pc, durable, table, faults, crashes>>

\* The time a block is routed by: its own, the last known one (route_block),
\* or the restored anchor's.
RoutingTime(e) ==
    CASE e.time # 0 -> e.time
      [] e.time = 0 /\ Nullable -> run.known
      [] Resumed(e) -> frontier.anchor.secs
      [] OTHER -> 0

\* The buffered blocks, anchored by this one, and this one are ready.
DeliverReady ==
    /\ pc = "streaming"
    /\ Streamed
    /\ LET e == feed[Position]
           o == frontier.assigned + 1
           t == RoutingTime(e)
           Anchored(b) == [ord |-> b, time |-> t, look |-> o]
       IN  /\ ~Ignored(e) /\ ~ReceiveRefuses(frontier, e) /\ ~Filtered(e)
           /\ ~Buffers(e)
           /\ run' = [run EXCEPT
                 !.bootstrap = IF Nullable \/ Resumed(e) THEN @ ELSE "off",
                 !.known = IF Nullable THEN t ELSE @,
                 !.buffer = <<>>,
                 !.work = [i \in DOMAIN run.buffer |-> Anchored(run.buffer[i])]
                          \o <<[ord |-> o, time |-> t, look |-> 0]>>]
    /\ frontier' = Receive(frontier, Position)
    /\ client' = Handled
    /\ pc' = "observing"
    /\ UNCHANGED <<stream, feed, stop, durable, table, faults, crashes>>

(******************************* process_ready *****************************)
\* validate_block_timestamp
MissingTime ==
    /\ pc = "observing"
    /\ ~Nullable
    /\ Head(run.work).time = 0
    /\ Exit
    /\ UNCHANGED <<stream, feed, durable, table, faults, crashes>>

\* Fault variant of AtBoundary: the boundary is not flushed.
NoBoundary(w) == FALSE

\* The block belongs to another day than what is buffered.
AtBoundary(w) == run.day # -1 /\ run.day # Day(w.time) /\ HasBuffered

FlushBoundary ==
    /\ pc = "observing"
    /\ Nullable \/ Head(run.work).time # 0
    /\ AtBoundary(Head(run.work))
    /\ Commit
    /\ UNCHANGED <<stream, feed, stop, pc, client, faults, crashes>>

\* The mapper appends the block's rows, then the session accepts the event.
MapAndAccept ==
    /\ pc = "observing"
    /\ Nullable \/ Head(run.work).time # 0
    /\ LET w == Head(run.work)
           row == [cursor |-> frontier.received[w.ord].cursor, time |-> w.time,
                   src |-> MappedAnchor(frontier, w)]
       IN  /\ ~AtBoundary(w)
           /\ MayAccept(frontier, w)
           /\ frontier' = AcceptMapped(frontier, w)
           /\ run' = [run EXCEPT !.work = Tail(@),
                                 !.day = Day(w.time),
                                 !.rows = Append(@, row),
                                 !.mapped = TRUE]
    /\ pc' = "mapped"
    /\ UNCHANGED <<stream, feed, stop, client, durable, table, faults, crashes>>

AfterBlock == IF run.work = <<>> THEN "streaming" ELSE "observing"

\* next_mapper_flush_trigger: whether the window is due is not modelled here.
TriggerFlush ==
    /\ pc = "mapped"
    /\ Commit
    /\ pc' = AfterBlock
    /\ UNCHANGED <<stream, feed, stop, client, faults, crashes>>

NoTrigger ==
    /\ pc = "mapped"
    /\ pc' = AfterBlock
    /\ UNCHANGED <<stream, feed, process, durable, table, faults, crashes>>

(***************************** the end of a run ****************************)
\* clean_end_action
CleanEnd ==
    CASE stop # 0 /\ client.last >= stop - 1 -> "complete"
      [] stop # 0 /\ client.early /\ ~client.blocks -> "exhausted"
      [] OTHER -> "reconnect"

\* The server has sent the last requested block, or knows a later one.
BoundReached ==
    /\ stop # 0
    /\ ~Streamed
    /\ \/ Position <= Len(feed)
       \/ Len(feed) > 0 /\ feed[Len(feed)].num >= LastRequested

\* The server closes the stream cleanly: at the requested bound, or early.
ServerCloses(early) ==
    /\ pc = "streaming"
    /\ \/ early /\ faults < MaxFaults /\ faults' = faults + 1
       \/ ~early /\ BoundReached /\ UNCHANGED faults
    /\ LET c == [client EXCEPT !.quiet = FALSE, !.early = @ \/ stop # 0]
       IN  \/ /\ CleanEnd # "reconnect"
              /\ pc' = "finishing"
              /\ UNCHANGED process
           \/ /\ CleanEnd = "reconnect" /\ client.message
              /\ pc' = "connecting"
              /\ client' = c
              /\ UNCHANGED <<stop, frontier, run>>
           \/ /\ CleanEnd = "reconnect" /\ ~client.message
              /\ RecordFailure(c)
    /\ UNCHANGED <<stream, feed, durable, table, crashes>>

\* finish: a completed stream commits its partial window.
FinishFlush ==
    /\ pc = "finishing"
    /\ \/ HasBuffered /\ Commit
       \/ ~HasBuffered /\ UNCHANGED <<frontier, run, durable, table>>
    /\ pc' = "completing"
    /\ UNCHANGED <<stream, feed, stop, client, faults, crashes>>

\* Fault variant of Proven: the end of the stream is taken for the bound.
ProvenByEnd == TRUE

\* The checks of finish, Controller::complete_request and
\* Checkpoint::complete_request.
Proven ==
    /\ run.bootstrap # "buffering"
    /\ frontier = Resume(durable)
    /\ stop > stream.start
    /\ stop > durable.completed
    /\ durable.cursor # 0
    /\ feed[durable.cursor].num >= stop - 1

CompleteRequest ==
    /\ pc = "completing"
    /\ durable' = IF Proven THEN [durable EXCEPT !.completed = stop] ELSE durable
    /\ Exit
    /\ UNCHANGED <<stream, feed, table, faults, crashes>>

\* A crash at any point, or a shutdown signal, which is noticed while waiting
\* for the server or after a block and discards the window in the same way.
Crash ==
    /\ pc # "down"
    /\ crashes < MaxCrashes
    /\ crashes' = crashes + 1
    /\ Exit
    /\ UNCHANGED <<stream, feed, durable, table, faults>>

Deliver == \/ DeliverIgnored \/ DeliverRefused \/ DeliverFiltered
           \/ DeliverBuffered \/ DeliverReady
ProcessReady == \/ MissingTime \/ FlushBoundary \/ MapAndAccept
                \/ TriggerFlush \/ NoTrigger
Progress == \/ \E s \in stream.stops : Start(s)
            \/ Connect \/ Deliver \/ ProcessReady
            \/ ServerCloses(FALSE) \/ FinishFlush \/ CompleteRequest

Next == \/ Progress
        \/ Quiet
        \/ IdleTimeout \/ ServerCloses(TRUE)
        \/ \E fatal \in BOOLEAN : ConnectFails(fatal) \/ StreamFails(fatal)
        \/ Crash

Spec == Init /\ [][Next]_vars
FairSpec == Spec /\ WF_vars(Progress)

(******************************** properties *******************************)
\* What the feed holds, read directly: the number of events up to position p
\* that reach the session, which is the ordinal of the one at p, and whether
\* the one at p is mapped.
Ordinal(f, p) == Cardinality({q \in 1..p : f[q].block})
Mapped(p) == feed[p].block /\ ~Filtered(feed[p])

\* The reference routing time of the event at position p: its own time, else
\* the last earlier one (or Genesis), else the first later one.
ReferenceTime(p) ==
    LET timed == {q \in DOMAIN feed : Mapped(q) /\ feed[q].time # 0}
        earlier == {q \in timed : q < p}
        later == {q \in timed : q > p}
    IN  CASE p \in timed -> feed[p].time
          [] p \notin timed /\ Nullable ->
                IF earlier = {} THEN Genesis ELSE feed[Max(earlier)].time
          [] OTHER -> IF later = {} THEN 0 ELSE feed[Min(later)].time

\* The committed rows are those of the mapped events up to the checkpoint's
\* cursor, each once and in feed order, and the checkpoint's ordinal counts
\* the events up to it: resuming from the cursor neither loses nor repeats an
\* event, whatever was buffered, filtered or dropped when the run ended
\* (session.flush, stream_blocks cursor, finish).
DurablePrefix ==
    /\ {table[i].cursor : i \in DOMAIN table}
          = {p \in 1..durable.cursor : Mapped(p)}
    /\ \A i, j \in DOMAIN table : i < j => table[i].cursor < table[j].cursor
    /\ durable.ordinal = Ordinal(feed, durable.cursor)

\* A committed row of a final-only stream lies in the day that the feed alone
\* determines: restarting in the middle of the genesis bootstrap, or between
\* a timed and an untimed block, changes no routing (routing_timestamp_hint,
\* restore_session_anchor, accept_mapped).
RoutingStable ==
    stream.final => \A i \in DOMAIN table :
                       table[i].time = ReferenceTime(table[i].cursor)

\* A row routed by a later event's time was routed by the event that the
\* dataset went on to accept at that ordinal: a server that continues the
\* cursor with another block there is refused (AcceptedFrontier::receive).
\* The code compares only while the anchor is current, that is as long as no
\* event before the source turns out to have a time of its own.
LookaheadHonoured ==
    LET events == {p \in DOMAIN feed : feed[p].block}
    IN  \A i \in DOMAIN table :
           LET a == table[i].src
               untimed == \A p \in events :
                             Ordinal(feed, p) < a.src => feed[p].time = 0
           IN  a.from = "lookahead" /\ a.src <= durable.ordinal /\ untimed =>
                  \E p \in events : /\ Ordinal(feed, p) = a.src
                                    /\ a = AnchorAt(a.src, feed[p], a.from)

\* Blocks reach the session in order and with the routing it derives itself:
\* accept_mapped and AcceptedFrontier::accept refuse no block that the runtime
\* has mapped, so no mapped row is ever left without an accepted event.
AcceptNeverRefuses ==
    LET w == Head(run.work)
    IN  pc = "observing" /\ (Nullable \/ w.time # 0) => MayAccept(frontier, w)

\* A completed bound of a final-only stream is true: every block of the feed
\* in [start, stop) is in the tables, however often the server closed the
\* stream early (clean_end_action, Checkpoint::complete_request).
CompletionIsTrue ==
    stream.final => \A p \in DOMAIN feed :
        Mapped(p) /\ feed[p].num < durable.completed =>
            \E i \in DOMAIN table : table[i].cursor = p

\* The rows that one flush commits lie in one day (process_ready).
OneDayPerFlush ==
    [][\A i, j \in Len(table) + 1..Len(table') :
          Day(table'[i].time) = Day(table'[j].time)]_vars

\* A stream whose requests can be proven: the feed has the last block of each
\* bound, and only a leading run of blocks lacks times, from the start block
\* to one with a time that the buffer and every bound can reach.
Completable ==
    /\ stream.final /\ 0 \notin stream.stops
    /\ \A s \in stream.stops :
          \E p \in DOMAIN feed : Mapped(p) /\ feed[p].num = s - 1
    /\ \/ Nullable
       \/ \A p \in DOMAIN feed : ~Mapped(p) \/ feed[p].time # 0
       \/ \E q \in DOMAIN feed :
             /\ Mapped(q) /\ feed[q].num < Min(stream.stops)
             /\ Ordinal(feed, q - 1) < MaxBuffered
             /\ \A p \in DOMAIN feed :
                   Mapped(p) => (feed[p].time = 0 <=> p < q)
             /\ feed[Min({p \in DOMAIN feed : Mapped(p)})].num = stream.start

\* Every requested bound that can be proven is completed in the end, after
\* finitely many faults, give-ups, crashes and restarts.
BoundedCompletes ==
    Completable => <>(durable.completed = Max(stream.stops))
=============================================================================
