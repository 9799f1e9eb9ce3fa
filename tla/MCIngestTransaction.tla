------------------------ MODULE MCIngestTransaction ------------------------
(* Small instances of IngestTransaction for TLC.                           *)
EXTENDS IngestTransaction

CONSTANTS blocks, txs, logs

TwoTables == {blocks, txs}
\* Rows in both tables, only in blocks, and in none (filtered events).
TwoShapes == {{blocks, txs}, {blocks}, {}}
ThreeTables == {blocks, txs, logs}
ThreeShapes == {{blocks, txs, logs}}
\* Block numbers equal ordinals: one event per block.
Consecutive == [o \in 1..MaxOrdinal |-> o]
=============================================================================
