--------------------------- MODULE MCIngestStream ---------------------------
(* Streams for model checking IngestStream: one for each way in which a     *)
(* feed can lack times, blocks or a fixed continuation.                     *)
EXTENDS IngestStream

Ev(num, time) == [num |-> num, id |-> "a", time |-> time, step |-> 1,
                  block |-> TRUE]
Undo(e) == [e EXCEPT !.step = 2]
Fork(e) == [e EXCEPT !.id = "b"]
NoBlock(e) == [e EXCEPT !.block = FALSE]

\* A final-only genesis whose first blocks lack a time, with a filtered
\* envelope among them; the bound is extended once.
Bootstrap ==
    [policy |-> "lookahead", final |-> TRUE, start |-> 1, stops |-> {4, 5},
     feeds |-> {<<Ev(1, 0), Undo(Ev(1, 0)), Ev(2, 0), Ev(3, 11), Ev(4, 21)>>}]

\* Times may be missing anywhere; served from below the start block, with a
\* message that carries no block.
LastKnown ==
    [policy |-> "last_known", final |-> TRUE, start |-> 2, stops |-> {6},
     feeds |-> {<<Ev(1, 5), Ev(2, 0), Ev(3, 12), NoBlock(Ev(3, 12)),
                  Ev(4, 0), Ev(5, 25)>>}]

\* A live stream of reversible blocks that may continue in three ways.
Reversible ==
    LET a == Ev(2, 12)
    IN  [policy |-> "lookahead", final |-> FALSE, start |-> 1, stops |-> {0},
         feeds |-> {<<Ev(1, 11), a, Ev(3, 21)>>,
                    <<Ev(1, 11), a, Undo(a), Fork(Ev(2, 22))>>,
                    <<Ev(1, 11), Fork(Ev(2, 22))>>}]

\* The block whose time anchors the first two, or the second, may be replaced.
ForkedAnchor ==
    [policy |-> "lookahead", final |-> FALSE, start |-> 1, stops |-> {0},
     feeds |-> {<<Ev(1, 0), Ev(2, 0), Ev(3, 11)>>,
                <<Ev(1, 0), Ev(2, 0), Fork(Ev(3, 21))>>,
                <<Ev(1, 0), Fork(Ev(2, 21)), Fork(Ev(3, 22))>>}]

\* More blocks without a time than the frontier buffers.
TooManyUntimed ==
    [policy |-> "lookahead", final |-> TRUE, start |-> 1, stops |-> {6},
     feeds |-> {<<Ev(1, 0), Ev(2, 0), Ev(3, 0), Ev(4, 0), Ev(5, 11)>>}]

\* The last requested height is skipped: the bound cannot be proven.
SparseEnd ==
    [policy |-> "last_known", final |-> TRUE, start |-> 1, stops |-> {4},
     feeds |-> {<<Ev(1, 11), Ev(2, 0), Ev(5, 12)>>}]

\* Only block 0 is wanted; the request cannot ask for less than block 1.
OnlyBlockZero ==
    [policy |-> "lookahead", final |-> TRUE, start |-> 0, stops |-> {1},
     feeds |-> {<<Ev(0, 11), Ev(1, 12)>>}]

\* A block without a time after the bootstrap, on a chain that requires one.
LateUntimed ==
    [policy |-> "lookahead", final |-> TRUE, start |-> 1, stops |-> {3},
     feeds |-> {<<Ev(1, 11), Ev(2, 0)>>}]

MCStreams == {Bootstrap, LastKnown, Reversible, ForkedAnchor, TooManyUntimed,
              SparseEnd, OnlyBlockZero, LateUntimed}
=============================================================================
