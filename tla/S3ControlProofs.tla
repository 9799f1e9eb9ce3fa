--------------------------- MODULE S3ControlProofs ---------------------------
(* Proofs about S3Control, for any set of commands, slots and payloads.     *)
EXTENDS S3Control, TLAPS

USE CommandsAssumption, BoundsAssumption

-----------------------------------------------------------------------------
(* The inductive invariant.                                                 *)

\* The provider would still apply this control PUT.
Live(f) == slots[f.key] = f.expect

\* A command that has drawn its owner_id and read the record it succeeds.
Past(c) == pc[c] \in Phases \ {"idle", "read"}

\* None of the command's control PUTs can land.
NothingLive(c) == \A f \in slotFlights : f.by = c => ~Live(f)

\* A command that has begun its release with nothing outstanding.
Ending(c) ==
    /\ pc[c] \in {"releasing", "unconfirmed", "ended"}
    /\ ~uncertain[c]
    /\ NothingLive(c)

\* A command that ended with every control PUT settled.
Settled(c) == pc[c] = "ended" /\ \A f \in slotFlights : f.by # c

\* The three PUTs of the owner record, and what makes each harmless.
AcquirePut(f, c) ==
    /\ f.expect = seen[c] /\ f.write = Mine(c)
    /\ Past(c) /\ seen[c].state # "owned"

ReleasePut(f, c) ==
    /\ f.expect = Mine(c) /\ f.write = Released(Mine(c), FALSE)
    /\ Past(c) /\ Ending(c)

OperatorPut(f, c) ==
    /\ f.expect = Mine(c) /\ f.write = Released(Mine(c), TRUE)
    /\ Past(c) /\ Settled(c)

OwnerPutInv(f) ==
    \E c \in Commands : AcquirePut(f, c) \/ ReleasePut(f, c) \/ OperatorPut(f, c)

\* An Owned record belongs to a command that sent it.
OwnerInv ==
    owner.state = "owned" => \E c \in Commands : owner = Mine(c) /\ Past(c)

OperatorInv ==
    operator # NoRecord =>
        \E c \in Commands : operator = Mine(c) /\ Past(c) /\ Settled(c)

\* A control PUT moves its slot forward.
Forward(f) == Later(f.write, f.expect) /\ f.write.inc <= incarnations

\* A control PUT in flight expects the current version, under the owner that
\* sent it, or a version the slot has passed.
SlotPutInv(f) ==
    /\ Forward(f)
    /\ Past(f.by) /\ pc[f.by] # "acquiring"
    /\ Live(f) \/ Later(slots[f.key], f.expect)
    /\ Live(f) => owner = Mine(f.by)

\* The latch is set, or nothing of the command can land but its current PUT.
LatchInv(c) ==
    /\ pc[c] \in {"checked", "putting", "releasing", "unconfirmed"} => ~uncertain[c]
    /\ pc[c] \in {"held", "checked", "releasing", "unconfirmed"} =>
           uncertain[c] \/ NothingLive(c)
    /\ pc[c] = "putting" =>
           \A f \in slotFlights : f.by = c /\ Live(f) => f = put[c]

\* A command in the middle of a control mutation.
PutInv(c) ==
    /\ pc[c] \in {"checked", "putting"} =>
           put[c].by = c /\ Forward(put[c])
    /\ pc[c] = "checked" => slots[put[c].key] = put[c].expect
    /\ pc[c] = "putting" => slots[put[c].key] \in {put[c].expect, put[c].write}

CommandInv(c) ==
    /\ pc[c] # "ended" => seen[c].state # "owned"
    /\ pc[c] \in Mutating => owner = Mine(c)
    /\ PutInv(c)
    /\ LatchInv(c)

SlotsInv == \A k \in Keys : slots[k].inc <= incarnations

ProtocolInv ==
    /\ OwnerInv
    /\ OperatorInv
    /\ SlotsInv
    /\ \A f \in ownerFlights : OwnerPutInv(f)
    /\ \A f \in slotFlights : SlotPutInv(f)
    /\ \A c \in Commands : CommandInv(c)

-----------------------------------------------------------------------------
(* Types.                                                                   *)

\* The record a command writes is Owned and carries its owner_id.
LEMMA MineFacts ==
  ASSUME TypeOK, NEW c \in Commands
  PROVE  /\ Mine(c) \in Records
         /\ Mine(c).id = c
         /\ Mine(c).state = "owned"
BY SMT DEF TypeOK, Mine, Owned, Records

\* Two commands never write the same record.
LEMMA MineDistinct ==
  ASSUME TypeOK, NEW c \in Commands, NEW d \in Commands, Mine(c) = Mine(d)
  PROVE  c = d
BY MineFacts, Zenon

\* A released record is a record, and not an Owned one.
LEMMA ReleasedFacts ==
  ASSUME NEW r \in Records, NEW b \in BOOLEAN
  PROVE  Released(r, b) \in Records /\ Released(r, b).state = "released"
BY SMT DEF Records, Released

\* The absent record is a record, and not an Owned one.
LEMMA NoRecordFacts == NoRecord \in Records /\ NoRecord.state # "owned"
BY SMT DEF NoRecord, Records

\* The type of a request of the owner record.
LEMMA OwnerPutType ==
  ASSUME NEW e \in Records, NEW w \in Records, NEW b \in Commands \cup {Nobody}
  PROVE  [expect |-> e, write |-> w, by |-> b] \in OwnerPuts
BY SMT DEF OwnerPuts

\* The fields of a request of the owner record.
LEMMA OwnerPutFields ==
  ASSUME NEW e, NEW w, NEW b, NEW f, f = [expect |-> e, write |-> w, by |-> b]
  PROVE  f.expect = e /\ f.write = w
BY SMT

\* The initial state is well typed.
LEMMA InitTypes == Init => TypeOK
BY SMT DEF Init, TypeOK, Records, NoRecord, NoSlot, Contents, NoPayload, Phases, Holding

\* Steps of the provider keep the types.
LEMMA ProviderTypes == TypeOK /\ Provider => TypeOK'
<1> SUFFICES ASSUME TypeOK, Provider PROVE TypeOK'
  OBVIOUS
<1>1. CASE ApplyOwnerPut
  BY <1>1, SMT DEF TypeOK, ApplyOwnerPut, OwnerPuts
<1>2. CASE ApplySlotPut
  BY <1>2, SMT DEF TypeOK, ApplySlotPut, SlotPuts
<1>3. CASE LoseOwnerPut
  BY <1>3, SMT DEF TypeOK, LoseOwnerPut
<1>4. CASE LoseSlotPut
  BY <1>4, SMT DEF TypeOK, LoseSlotPut
<1> QED BY <1>1, <1>2, <1>3, <1>4 DEF Provider

\* Steps of the operator keep the types.
LEMMA OperatorTypes == TypeOK /\ Operator => TypeOK'
<1> SUFFICES ASSUME TypeOK, Operator PROVE TypeOK'
  OBVIOUS
<1>1. CASE Authorize
  BY <1>1, SMT DEF TypeOK, Authorize
<1>2. CASE SendOperatorRelease
  <2>1. [expect |-> operator, write |-> Released(operator, TRUE), by |-> Nobody]
           \in OwnerPuts
    <3>1. operator \in Records /\ Released(operator, TRUE) \in Records
      BY ReleasedFacts, Zenon DEF TypeOK
    <3> QED BY <3>1, OwnerPutType, Zenon
  <2>2. ownerFlights' \subseteq OwnerPuts
    BY <1>2, <2>1, Zenon DEF TypeOK, SendOperatorRelease
  <2> QED BY <1>2, <2>2, NoRecordFacts, Zenon DEF TypeOK, SendOperatorRelease
<1>3. CASE OperatorGivesUp
  BY <1>3, NoRecordFacts, SMT DEF TypeOK, OperatorGivesUp
<1> QED BY <1>1, <1>2, <1>3 DEF Operator

\* Steps of a command keep the types.
LEMMA CommandTypes == ASSUME TypeOK, NEW c \in Commands, Command(c) PROVE TypeOK'
<1>1. CASE ReadOwner(c)
  BY <1>1, SMT DEF TypeOK, ReadOwner, Goto, Phases, Holding
<1>2. CASE SendAcquire(c)
  <2>1. [expect |-> seen[c], write |-> Mine(c), by |-> c] \in OwnerPuts
    BY MineFacts, SMT DEF TypeOK, OwnerPuts
  <2> QED BY <1>2, <2>1, SMT DEF TypeOK, SendAcquire, Goto, Phases, Holding
<1>3. CASE Acquired(c) \/ AcquireFailed(c) \/ ReleaseProved(c)
  <2>1. \E q \in {"held", "ended"} : Goto(c, q)
    BY <1>3, Zenon DEF Acquired, AcquireFailed, ReleaseProved
  <2>2. pc[c] \in {"read", "acquiring", "unconfirmed"}
    BY <1>3, Zenon DEF Acquired, AcquireFailed, ReleaseProved
  <2>3. UNCHANGED <<owner, slots, ownerFlights, slotFlights, seen, put,
                    uncertain, tries, incarnations, operator>>
    BY <1>3, Zenon DEF Acquired, AcquireFailed, ReleaseProved
  <2> QED BY <2>1, <2>2, <2>3, SMT DEF TypeOK, Goto, Phases, Holding
<1>4. ASSUME NEW k \in Keys, NEW p \in Payloads, Create(c, k, p) PROVE TypeOK'
  <2>1. [key |-> k, expect |-> slots[k],
         write |-> [inc |-> incarnations + 1, rev |-> 0,
                    body |-> [payload |-> p]], by |-> c] \in SlotPuts
    BY SMT DEF TypeOK, SlotPuts, Contents
  <2> QED BY <1>4, <2>1, SMT DEF TypeOK, Create, Prepare, Goto, Phases, Holding
<1>5. ASSUME NEW k \in Keys, NEW b \in {NoPayload} \cup [payload : Payloads],
             ReplaceOrRemove(c, k, b)
      PROVE  TypeOK'
  <2>1. [key |-> k, expect |-> slots[k],
         write |-> [inc |-> slots[k].inc, rev |-> slots[k].rev + 1,
                    body |-> b], by |-> c] \in SlotPuts
    BY SMT DEF TypeOK, SlotPuts, Contents
  <2> QED BY <1>5, <2>1, SMT DEF TypeOK, ReplaceOrRemove, Prepare, Goto,
                                 Phases, Holding
<1>6. CASE SendPut(c)
  BY <1>6, SMT DEF TypeOK, SendPut, Goto, Phases, Holding
<1>7. CASE PutProved(c) \/ PutRejected(c) \/ PutUnresolved(c)
  <2>1. PutReturns(c)
    BY <1>7 DEF PutProved, PutRejected, PutUnresolved
  <2>2. slotFlights' \subseteq SlotPuts /\ slots' \in [Keys -> Contents]
    BY <1>7, <2>1 DEF TypeOK, PutProved, PutRejected, PutUnresolved, PutReturns
  <2>3. uncertain' \in [Commands -> BOOLEAN]
    BY <1>7, Zenon DEF TypeOK, PutProved, PutRejected, PutUnresolved
  <2>4. /\ pc' \in [Commands -> Phases]
        /\ put' \in [Commands -> SlotPuts \cup {NoPut}]
        /\ \A d \in Commands : pc'[d] \in {"checked", "putting"} =>
               put'[d] \in SlotPuts
    <3>1. pc' = [pc EXCEPT ![c] = "held"] /\ put' = [put EXCEPT ![c] = NoPut]
      BY <2>1 DEF PutReturns, Goto
    <3> QED BY <3>1, SMT DEF TypeOK, Phases, Holding
  <2> QED BY <2>1, <2>2, <2>3, <2>4, Zenon DEF TypeOK, PutReturns
<1>8. CASE Finish(c)
  BY <1>8, SMT DEF TypeOK, Finish, Goto, Phases, Holding
<1>9. CASE ReleaseOnce(c)
  <2>1. [expect |-> Mine(c), write |-> Released(Mine(c), FALSE), by |-> c]
           \in OwnerPuts
    <3>1. Mine(c) \in Records /\ Released(Mine(c), FALSE) \in Records
      BY MineFacts, ReleasedFacts, Zenon
    <3> QED BY <3>1, OwnerPutType, Zenon
  <2>2. ownerFlights' \subseteq OwnerPuts
    BY <1>9, <2>1, Zenon DEF TypeOK, ReleaseOnce
  <2>3. /\ tries' \in [Commands -> Nat]
        /\ \E q \in {"unconfirmed", "ended"} : Goto(c, q)
    <3>1. tries' = [tries EXCEPT ![c] = @ - 1] /\ tries[c] > 0
      BY <1>9 DEF ReleaseOnce
    <3>2. tries' \in [Commands -> Nat]
      BY <3>1, SMT DEF TypeOK
    <3> QED BY <1>9, <3>2, Zenon DEF ReleaseOnce
  <2>4. /\ pc' \in [Commands -> Phases]
        /\ \A d \in Commands : pc'[d] \in {"checked", "putting"} =>
               pc[d] = pc'[d]
    BY <2>3, SMT DEF TypeOK, Goto, Phases, Holding
  <2> QED BY <1>9, <2>2, <2>3, <2>4, Zenon DEF TypeOK, ReleaseOnce
<1>10. CASE ReleaseReadFailed(c) \/ ReleaseUnresolved(c)
  BY <1>10, SMT DEF TypeOK, ReleaseReadFailed, ReleaseUnresolved, Goto,
                    Phases, Holding
<1>11. CASE Crash(c)
  BY <1>11, SMT DEF TypeOK, Crash, Goto, Phases, Holding
<1> QED BY <1>1, <1>2, <1>3, <1>4, <1>5, <1>6, <1>7, <1>8, <1>9, <1>10, <1>11
        DEF Command

-----------------------------------------------------------------------------
(* Steps of one command.                                                    *)

\* Only command c moves: the objects, the operator and what others know stay.
OnlyMoves(c) ==
    /\ owner' = owner /\ slots' = slots /\ seen' = seen /\ operator' = operator
    /\ incarnations <= incarnations'
    /\ \A d \in Commands \ {c} :
           pc'[d] = pc[d] /\ uncertain'[d] = uncertain[d] /\ put'[d] = put[d]
    /\ \A f \in slotFlights' : f \in slotFlights \/ f.by = c

\* Command c does not go back, and what it has promised it keeps.
Keeps(c) ==
    /\ Past(c) => Past(c)'
    /\ Past(c) /\ pc[c] # "acquiring" => pc'[c] # "acquiring"
    /\ Ending(c) => Ending(c)'
    /\ Settled(c) => Settled(c)'

\* A control PUT in flight stays harmless while a command moves.
LEMMA SlotPutFrame ==
  ASSUME TypeOK, TypeOK', NEW c \in Commands, OnlyMoves(c), Keeps(c),
         NEW f \in slotFlights, SlotPutInv(f)
  PROVE  SlotPutInv(f)'
<1>0. f \in SlotPuts /\ f.by \in Commands
  BY SMT DEF TypeOK, SlotPuts
<1>1. Forward(f)'
  <2>1. f.write.inc \in Nat /\ incarnations \in Nat /\ incarnations' \in Nat
    BY <1>0, SMT DEF TypeOK, SlotPuts, Contents
  <2> QED BY <2>1, SMT DEF SlotPutInv, Forward, OnlyMoves
<1>2. Past(f.by)' /\ pc'[f.by] # "acquiring"
  <2>1. CASE f.by = c
    BY <2>1, Zenon DEF SlotPutInv, Keeps
  <2>2. CASE f.by # c
    BY <1>0, <2>2, Zenon DEF SlotPutInv, OnlyMoves, Past
  <2> QED BY <2>1, <2>2
<1>3. Live(f)' = Live(f) /\ Mine(f.by)' = Mine(f.by) /\ owner' = owner
  BY SMT DEF OnlyMoves, Live, Mine, Owned
<1>4. Later(slots[f.key], f.expect)' <=> Later(slots[f.key], f.expect)
  BY SMT DEF OnlyMoves, Later
<1> QED BY <1>1, <1>2, <1>3, <1>4, Zenon DEF SlotPutInv

\* Another command's position is untouched.
LEMMA OthersFrame ==
  ASSUME TypeOK, TypeOK', NEW c \in Commands, OnlyMoves(c),
         NEW d \in Commands \ {c}
  PROVE  /\ Mine(d)' = Mine(d)
         /\ Past(d) => Past(d)'
         /\ NothingLive(d) => NothingLive(d)'
         /\ Ending(d) => Ending(d)'
         /\ Settled(d) => Settled(d)'
         /\ CommandInv(d) => CommandInv(d)'
<1>1. Mine(d)' = Mine(d) /\ (Past(d) => Past(d)')
  BY Zenon DEF OnlyMoves, Mine, Past
<1>2. \A f : Live(f)' <=> Live(f)
  BY Zenon DEF OnlyMoves, Live
<1>3. \A f \in slotFlights' : f.by = d => f \in slotFlights
  BY Zenon DEF OnlyMoves
<1>4. NothingLive(d) => NothingLive(d)'
  BY <1>2, <1>3, Zenon DEF NothingLive
<1>5. pc'[d] = pc[d] /\ uncertain'[d] = uncertain[d] /\ put'[d] = put[d]
  BY Zenon DEF OnlyMoves
<1>6. (Ending(d) => Ending(d)') /\ (Settled(d) => Settled(d)')
  BY <1>3, <1>4, <1>5, Zenon DEF Ending, Settled
<1>7. ASSUME CommandInv(d) PROVE CommandInv(d)'
  <2>1. LatchInv(d)'
    BY <1>2, <1>3, <1>4, <1>5, <1>7, Zenon DEF CommandInv, LatchInv
  <2>2. PutInv(d)'
    <3>1. ASSUME pc[d] \in {"checked", "putting"} PROVE Forward(put[d])'
      <4>1. put[d] \in SlotPuts
        BY <3>1 DEF TypeOK
      <4>2. put[d].write.inc \in Nat /\ incarnations \in Nat /\ incarnations' \in Nat
        BY <4>1, SMT DEF TypeOK, SlotPuts, Contents
      <4> QED BY <1>5, <1>7, <3>1, <4>2, SMT DEF CommandInv, PutInv, Forward, OnlyMoves
    <3>2. slots' = slots
      BY DEF OnlyMoves
    <3> QED BY <1>5, <1>7, <3>1, <3>2, Zenon DEF CommandInv, PutInv
  <2>3. seen' = seen /\ owner' = owner
    BY DEF OnlyMoves
  <2> QED BY <1>1, <1>5, <1>7, <2>1, <2>2, <2>3, Zenon DEF CommandInv
<1> QED BY <1>1, <1>4, <1>6, <1>7, Zenon

\* A step of c preserves the invariant if c and its new requests do.
LEMMA CommandFrame ==
  ASSUME TypeOK, TypeOK', ProtocolInv, NEW c \in Commands,
         OnlyMoves(c), Keeps(c), CommandInv(c)',
         \A f \in ownerFlights' : f \in ownerFlights \/ OwnerPutInv(f)',
         \A f \in slotFlights' : f \in slotFlights \/ SlotPutInv(f)'
  PROVE  ProtocolInv'
<1>1. \A d \in Commands : /\ Mine(d)' = Mine(d)
                          /\ Past(d) => Past(d)'
                          /\ Ending(d) => Ending(d)'
                          /\ Settled(d) => Settled(d)'
  <2>1. Mine(c)' = Mine(c)
    BY Zenon DEF OnlyMoves, Mine
  <2> QED BY <2>1, OthersFrame, Zenon DEF Keeps
<1>2. \A d \in Commands : CommandInv(d)'
  BY OthersFrame, Zenon DEF ProtocolInv
<1>3. \A f \in slotFlights' : SlotPutInv(f)'
  BY SlotPutFrame, Zenon DEF ProtocolInv
<1>4. seen' = seen /\ owner' = owner /\ operator' = operator /\ slots' = slots
  BY DEF OnlyMoves
<1>5. ASSUME NEW f \in ownerFlights PROVE OwnerPutInv(f)'
  <2>1. PICK d \in Commands : AcquirePut(f, d) \/ ReleasePut(f, d) \/ OperatorPut(f, d)
    BY <1>5, Zenon DEF ProtocolInv, OwnerPutInv
  <2>2. AcquirePut(f, d)' \/ ReleasePut(f, d)' \/ OperatorPut(f, d)'
    BY <2>1, <1>1, <1>4, Zenon DEF AcquirePut, ReleasePut, OperatorPut
  <2> QED BY <2>2, Zenon DEF OwnerPutInv
<1>6. OwnerInv' /\ OperatorInv'
  BY <1>1, <1>4, Zenon DEF ProtocolInv, OwnerInv, OperatorInv
<1>7. SlotsInv'
  <2>1. \A k \in Keys : slots[k].inc \in Nat
    BY SMT DEF TypeOK, Contents
  <2>2. incarnations \in Nat /\ incarnations' \in Nat /\ incarnations <= incarnations'
    BY DEF TypeOK, OnlyMoves
  <2> QED BY <1>4, <2>1, <2>2, SMT DEF ProtocolInv, SlotsInv
<1> QED BY <1>2, <1>3, <1>5, <1>6, <1>7, Zenon DEF ProtocolInv

\* A command that ended promises nothing more.
LEMMA EndedInv ==
  ASSUME NEW c \in Commands, pc'[c] = "ended"
  PROVE  CommandInv(c)'
BY Zenon DEF CommandInv, PutInv, LatchInv, Mutating

\* Only the position of c changes.
LEMMA GotoMoves ==
  ASSUME TypeOK, NEW c \in Commands, NEW q, Goto(c, q)
  PROVE  pc'[c] = q /\ \A d \in Commands \ {c} : pc'[d] = pc[d]
BY SMT DEF TypeOK, Goto

\* S3Ownership::acquire after the first reading.
LEMMA AcquireSteps ==
  ASSUME TypeOK, TypeOK', ProtocolInv, NEW c \in Commands,
         SendAcquire(c) \/ Acquired(c) \/ AcquireFailed(c)
  PROVE  ProtocolInv'
<1>1. CASE SendAcquire(c)
  <2>1. pc[c] = "read" /\ pc'[c] = "acquiring"
    BY <1>1, GotoMoves DEF SendAcquire
  <2>2. OnlyMoves(c)
    BY <1>1, GotoMoves, SMT DEF SendAcquire, OnlyMoves, TypeOK
  <2>3. Keeps(c)
    BY <2>1, Zenon DEF Keeps, Past, Ending, Settled
  <2>4. CommandInv(c)'
    BY <1>1, <2>1, Zenon DEF SendAcquire, ProtocolInv, CommandInv, PutInv, LatchInv, Mutating
  <2>5. Past(c)' /\ seen'[c].state # "owned"
    BY <1>1, <2>1, SMT DEF SendAcquire, ProtocolInv, CommandInv, Past, Phases, Holding
  <2>6. ASSUME NEW f \in ownerFlights' PROVE f \in ownerFlights \/ OwnerPutInv(f)'
    <3>1. f \in ownerFlights \/ (f.expect = seen[c] /\ f.write = Mine(c))
      BY <1>1, SMT DEF SendAcquire
    <3>2. seen' = seen /\ Mine(c)' = Mine(c)
      BY <1>1 DEF SendAcquire, Mine
    <3>3. f \in ownerFlights \/ AcquirePut(f, c)'
      BY <2>5, <3>1, <3>2, Zenon DEF AcquirePut
    <3> QED BY <3>3, Zenon DEF OwnerPutInv
  <2>7. slotFlights' = slotFlights
    BY <1>1 DEF SendAcquire
  <2> QED BY <2>2, <2>3, <2>4, <2>6, <2>7, CommandFrame, Zenon
<1>2. CASE Acquired(c)
  <2>1. pc[c] = "acquiring" /\ pc'[c] = "held" /\ owner = Mine(c)
    BY <1>2, GotoMoves DEF Acquired
  <2>2. OnlyMoves(c) /\ slotFlights' = slotFlights /\ ownerFlights' = ownerFlights
    BY <1>2, GotoMoves, SMT DEF Acquired, OnlyMoves, TypeOK
  <2>3. Keeps(c)
    BY <2>1, SMT DEF Keeps, Past, Ending, Settled, Phases, Holding
  <2>4. NothingLive(c)'
    BY <2>1, <2>2, Zenon DEF ProtocolInv, SlotPutInv, NothingLive
  <2>5. seen' = seen /\ owner' = owner /\ Mine(c)' = Mine(c)
    BY <2>2 DEF OnlyMoves, Mine
  <2>6. CommandInv(c)'
    BY <2>1, <2>4, <2>5, Zenon DEF ProtocolInv, CommandInv, PutInv, LatchInv, Mutating
  <2> QED BY <2>2, <2>3, <2>6, CommandFrame, Zenon
<1>3. CASE AcquireFailed(c)
  <2>1. pc[c] \in {"read", "acquiring"} /\ pc'[c] = "ended"
    BY <1>3, GotoMoves DEF AcquireFailed
  <2>2. OnlyMoves(c) /\ slotFlights' = slotFlights /\ ownerFlights' = ownerFlights
    BY <1>3, GotoMoves, SMT DEF AcquireFailed, OnlyMoves, TypeOK
  <2>3. Keeps(c)
    BY <2>1, SMT DEF Keeps, Past, Ending, Settled, Phases, Holding
  <2> QED BY <2>1, <2>2, <2>3, EndedInv, CommandFrame, Zenon
<1> QED BY <1>1, <1>2, <1>3

\* create, replace and remove up to the PUT.
LEMMA PrepareSteps ==
  ASSUME TypeOK, TypeOK', ProtocolInv, NEW c \in Commands, NEW k \in Keys,
         NEW w \in Contents, pc[c] = "held", ~uncertain[c],
         Prepare(c, k, slots[k], w), Later(w, slots[k]),
         w.inc <= incarnations', incarnations <= incarnations',
         UNCHANGED <<owner, slots, ownerFlights, slotFlights, seen, uncertain,
                     operator>>
  PROVE  ProtocolInv'
<1>1. pc'[c] = "checked" /\ \A d \in Commands \ {c} : pc'[d] = pc[d]
  BY GotoMoves DEF Prepare
<1>2. /\ put'[c].key = k /\ put'[c].expect = slots[k] /\ put'[c].write = w
      /\ put'[c].by = c
      /\ \A d \in Commands \ {c} : put'[d] = put[d]
  BY SMT DEF TypeOK, Prepare
<1>3. OnlyMoves(c)
  BY <1>1, <1>2, Zenon DEF OnlyMoves
<1>4. Keeps(c)
  BY <1>1, SMT DEF Keeps, Past, Ending, Settled, Phases, Holding
<1>5. NothingLive(c)'
  BY Zenon DEF ProtocolInv, CommandInv, LatchInv, NothingLive, Live
<1>6. PutInv(c)'
  BY <1>1, <1>2, Zenon DEF PutInv, Forward, Later
<1>7. owner' = Mine(c)'
  BY Zenon DEF ProtocolInv, CommandInv, Mutating, Mine
<1>8. CommandInv(c)'
  BY <1>1, <1>5, <1>6, <1>7, Zenon DEF ProtocolInv, CommandInv, LatchInv
<1> QED BY <1>3, <1>4, <1>8, CommandFrame, Zenon

\* S3StateStore::create fills a slot with a fresh incarnation.
LEMMA CreateStep ==
  ASSUME TypeOK, TypeOK', ProtocolInv, NEW c \in Commands, NEW k \in Keys,
         NEW p \in Payloads, Create(c, k, p)
  PROVE  ProtocolInv'
<1> DEFINE w == [inc |-> incarnations + 1, rev |-> 0, body |-> [payload |-> p]]
<1>1. slots[k].inc \in Nat /\ slots[k].inc <= incarnations /\ incarnations \in Nat
  BY SMT DEF TypeOK, Contents, ProtocolInv, SlotsInv
<1>2. w \in Contents /\ w.inc = incarnations + 1
  BY <1>1, SMT DEF Contents
<1>3. Later(w, slots[k])
  BY <1>1, <1>2, SMT DEF Later
<1>4. incarnations' = incarnations + 1 /\ w.inc <= incarnations'
      /\ incarnations <= incarnations'
  BY <1>1, <1>2, SMT DEF Create
<1>5. Prepare(c, k, slots[k], w) /\ pc[c] = "held" /\ ~uncertain[c]
  BY DEF Create
<1>6. UNCHANGED <<owner, slots, ownerFlights, slotFlights, seen, uncertain, operator>>
  BY DEF Create
<1> QED BY <1>2, <1>3, <1>4, <1>5, <1>6, PrepareSteps, Zenon

\* S3StateStore::replace and remove write the next revision.
LEMMA ReplaceOrRemoveStep ==
  ASSUME TypeOK, TypeOK', ProtocolInv, NEW c \in Commands, NEW k \in Keys,
         NEW b \in {NoPayload} \cup [payload : Payloads], ReplaceOrRemove(c, k, b)
  PROVE  ProtocolInv'
<1> DEFINE w == [inc |-> slots[k].inc, rev |-> slots[k].rev + 1, body |-> b]
<1>1. /\ slots[k].inc \in Nat /\ slots[k].rev \in Nat /\ incarnations \in Nat
      /\ slots[k].inc <= incarnations
  BY SMT DEF TypeOK, Contents, ProtocolInv, SlotsInv
<1>2. w \in Contents /\ w.inc = slots[k].inc /\ w.rev = slots[k].rev + 1
  BY <1>1, SMT DEF Contents
<1>3. Later(w, slots[k])
  BY <1>1, <1>2, SMT DEF Later
<1>4. w.inc <= incarnations' /\ incarnations <= incarnations'
  BY <1>1, <1>2, SMT DEF ReplaceOrRemove
<1>5. Prepare(c, k, slots[k], w) /\ pc[c] = "held" /\ ~uncertain[c]
  BY DEF ReplaceOrRemove
<1>6. UNCHANGED <<owner, slots, ownerFlights, slotFlights, seen, uncertain, operator>>
  BY DEF ReplaceOrRemove
<1> QED BY <1>2, <1>3, <1>4, <1>5, <1>6, PrepareSteps, Zenon

\* put_and_verify sends its request.
LEMMA SendPutStep ==
  ASSUME TypeOK, TypeOK', ProtocolInv, NEW c \in Commands, SendPut(c)
  PROVE  ProtocolInv'
<1>1. pc[c] = "checked" /\ pc'[c] = "putting"
  BY GotoMoves DEF SendPut
<1>2. CommandInv(c)
  BY DEF ProtocolInv
<1>3. /\ put[c].by = c /\ Forward(put[c]) /\ Live(put[c]) /\ owner = Mine(c)
      /\ NothingLive(c) /\ ~uncertain[c]
  BY <1>1, <1>2, Zenon DEF CommandInv, PutInv, LatchInv, Mutating, Live
<1>4. OnlyMoves(c)
  BY <1>3, GotoMoves, SMT DEF SendPut, OnlyMoves, TypeOK
<1>5. Keeps(c)
  BY <1>1, SMT DEF Keeps, Past, Ending, Settled, Phases, Holding
<1>6. /\ Mine(c)' = Mine(c) /\ owner' = owner /\ put' = put /\ slots' = slots
      /\ seen' = seen /\ uncertain' = uncertain /\ incarnations' = incarnations
      /\ slotFlights' = slotFlights \cup {put[c]} /\ ownerFlights' = ownerFlights
  BY DEF SendPut, Mine
<1>7. \A f : Live(f)' <=> Live(f)
  BY <1>6, Zenon DEF Live
<1>8. SlotPutInv(put[c])'
  <2>1. Past(c)'
    BY <1>1, SMT DEF Past, Phases, Holding
  <2>2. put'[c] = put[c] /\ Forward(put[c])'
    BY <1>3, <1>6, Zenon DEF Forward, Later
  <2> QED BY <1>1, <1>3, <1>6, <1>7, <2>1, <2>2, Zenon DEF SlotPutInv
<1>9. CommandInv(c)'
  <2>1. LatchInv(c)'
    BY <1>1, <1>3, <1>6, <1>7, Zenon DEF LatchInv, NothingLive
  <2>2. PutInv(c)'
    BY <1>1, <1>2, <1>6, Zenon DEF CommandInv, PutInv, Forward, Later
  <2> QED BY <1>1, <1>2, <1>3, <1>6, <2>1, <2>2, Zenon DEF CommandInv
<1>10. \A f \in slotFlights' : f \in slotFlights \/ SlotPutInv(f)'
  BY <1>6, <1>8, Zenon
<1> QED BY <1>4, <1>5, <1>6, <1>9, <1>10, CommandFrame, Zenon

\* put_and_verify returns: its request was applied, cannot be, or is latched.
LEMMA PutReturnSteps ==
  ASSUME TypeOK, TypeOK', ProtocolInv, NEW c \in Commands,
         PutProved(c) \/ PutRejected(c) \/ PutUnresolved(c)
  PROVE  ProtocolInv'
<1>1. PutReturns(c)
  BY DEF PutProved, PutRejected, PutUnresolved
<1>2. pc[c] = "putting" /\ pc'[c] = "held"
  BY <1>1, GotoMoves DEF PutReturns
<1>3. /\ owner' = owner /\ seen' = seen /\ operator' = operator /\ Mine(c)' = Mine(c)
      /\ incarnations' = incarnations /\ ownerFlights' = ownerFlights /\ slots' = slots
      /\ \A d \in Commands \ {c} : pc'[d] = pc[d] /\ put'[d] = put[d]
  BY <1>1, GotoMoves, SMT DEF PutReturns, TypeOK, Mine
<1>4. \A f : Live(f)' <=> Live(f)
  BY <1>3, Zenon DEF Live
<1>5. slotFlights' \subseteq slotFlights
  BY Zenon DEF PutProved, PutRejected, PutUnresolved
<1>6. \A d \in Commands \ {c} : uncertain'[d] = uncertain[d]
  BY SMT DEF PutProved, PutRejected, PutUnresolved, TypeOK
<1>7. OnlyMoves(c)
  <2>1. incarnations <= incarnations'
    BY <1>3, SMT DEF TypeOK
  <2> QED BY <1>3, <1>5, <1>6, <2>1, Zenon DEF OnlyMoves
<1>8. Keeps(c)
  BY <1>2, SMT DEF Keeps, Past, Ending, Settled, Phases, Holding
<1>9. CommandInv(c)
  BY DEF ProtocolInv
<1>10. uncertain'[c] \/ NothingLive(c)'
  <2>1. \A f \in slotFlights : f.by = c /\ Live(f) => f = put[c]
    BY <1>2, <1>9, Zenon DEF CommandInv, LatchInv
  <2>2. CASE PutProved(c)
    <3>1. Later(put[c].write, put[c].expect) /\ put[c] \in SlotPuts
      BY <1>2, <1>9, Zenon DEF CommandInv, PutInv, Forward, TypeOK
    <3>2. put[c].write # put[c].expect
      BY <3>1, SMT DEF Later, SlotPuts, Contents
    <3>3. ~Live(put[c])
      BY <2>2, <3>2, Zenon DEF PutProved, Live
    <3> QED BY <1>4, <1>5, <2>1, <3>3, Zenon DEF NothingLive
  <2>3. CASE PutRejected(c)
    BY <1>4, <2>1, <2>3, Zenon DEF PutRejected, NothingLive
  <2>4. CASE PutUnresolved(c)
    BY <2>4, SMT DEF PutUnresolved, TypeOK
  <2> QED BY <2>2, <2>3, <2>4
<1>11. CommandInv(c)'
  BY <1>2, <1>3, <1>9, <1>10, Zenon DEF CommandInv, PutInv, LatchInv, Mutating
<1> QED BY <1>3, <1>5, <1>7, <1>8, <1>11, CommandFrame, Zenon

\* finish and release; Crash.
LEMMA ReleaseSteps ==
  ASSUME TypeOK, TypeOK', ProtocolInv, NEW c \in Commands,
         \/ Finish(c) \/ ReleaseOnce(c) \/ ReleaseReadFailed(c)
         \/ ReleaseProved(c) \/ ReleaseUnresolved(c) \/ Crash(c)
  PROVE  ProtocolInv'
<1>1. PICK q \in {"releasing", "unconfirmed", "ended"} : Goto(c, q)
  BY Zenon DEF Finish, ReleaseOnce, ReleaseReadFailed, ReleaseProved,
         ReleaseUnresolved, Crash
<1>2. pc'[c] = q /\ \A d \in Commands \ {c} : pc'[d] = pc[d]
  BY <1>1, GotoMoves
<1>3. /\ owner' = owner /\ seen' = seen /\ operator' = operator /\ slots' = slots
      /\ uncertain' = uncertain /\ incarnations' = incarnations
      /\ slotFlights' = slotFlights
  BY Zenon DEF Finish, ReleaseOnce, ReleaseReadFailed, ReleaseProved, ReleaseUnresolved, Crash
<1>4. \A d \in Commands \ {c} : put'[d] = put[d]
  <2>1. put' = put \/ put' = [put EXCEPT ![c] = NoPut]
    BY Zenon DEF Finish, ReleaseOnce, ReleaseReadFailed, ReleaseProved,
           ReleaseUnresolved, Crash
  <2> QED BY <2>1, SMT DEF TypeOK
<1>5. OnlyMoves(c)
  BY <1>2, <1>3, <1>4, SMT DEF OnlyMoves, TypeOK
<1>6. pc[c] # "idle"
  BY Zenon DEF Finish, ReleaseOnce, ReleaseReadFailed, ReleaseProved,
         ReleaseUnresolved, Crash
<1>7. NothingLive(c) <=> NothingLive(c)'
  BY <1>3, Zenon DEF NothingLive, Live
<1>8. pc[c] # "ended"
  BY Zenon DEF Finish, ReleaseOnce, ReleaseReadFailed, ReleaseProved,
         ReleaseUnresolved, Crash
<1>9. Keeps(c)
  <2>1. Past(c)' /\ pc'[c] # "acquiring"
    BY <1>2, SMT DEF Past, Phases, Holding
  <2>2. Ending(c) => Ending(c)'
    BY <1>2, <1>3, <1>7, Zenon DEF Ending
  <2> QED BY <1>8, <2>1, <2>2, Zenon DEF Keeps, Settled
<1>10. CASE q = "ended"
  <2>1. CASE ReleaseOnce(c)
    <3>1. ownerFlights' = ownerFlights
      <4>1. "ended" # "unconfirmed"
        OBVIOUS
      <4> QED BY <1>2, <1>10, <2>1, <4>1, GotoMoves, Zenon DEF ReleaseOnce
    <3> QED BY <1>2, <1>3, <1>5, <1>9, <1>10, <3>1, EndedInv, CommandFrame, Zenon
  <2>2. CASE ~ReleaseOnce(c)
    <3>1. ownerFlights' = ownerFlights
      BY <2>2, Zenon DEF Finish, ReleaseReadFailed, ReleaseProved,
                    ReleaseUnresolved, Crash
    <3> QED BY <1>2, <1>3, <1>5, <1>9, <1>10, <3>1, EndedInv, CommandFrame, Zenon
  <2> QED BY <2>1, <2>2
<1>11. CASE q # "ended"
  <2>1. /\ pc[c] \in {"held", "releasing", "unconfirmed"} /\ ~uncertain[c]
        /\ CommandInv(c)
    <3>1. CommandInv(c)
      BY DEF ProtocolInv
    <3>2. "releasing" # "ended" /\ "unconfirmed" # "ended"
      OBVIOUS
    <3>3. CASE Finish(c)
      BY <1>2, <1>11, <3>1, <3>3, GotoMoves, Zenon DEF Finish
    <3>4. CASE Crash(c)
      BY <1>2, <1>11, <3>4, GotoMoves, Zenon DEF Crash
    <3>5. CASE \/ ReleaseOnce(c) \/ ReleaseReadFailed(c)
               \/ ReleaseProved(c) \/ ReleaseUnresolved(c)
      BY <3>1, <3>5, Zenon DEF ReleaseOnce, ReleaseReadFailed, ReleaseProved,
                    ReleaseUnresolved, CommandInv, LatchInv
    <3> QED BY <3>1, <3>3, <3>4, <3>5, Zenon
  <2>2. NothingLive(c)' /\ ~uncertain'[c]
    BY <1>3, <1>7, <2>1, Zenon DEF CommandInv, LatchInv
  <2>3. pc'[c] \in {"releasing", "unconfirmed"}
    BY <1>2, <1>11
  <2>4. CommandInv(c)'
    BY <1>3, <1>8, <2>1, <2>2, <2>3, Zenon DEF CommandInv, PutInv, LatchInv, Mutating
  <2>5. Past(c)' /\ Ending(c)' /\ Mine(c)' = Mine(c)
    BY <1>3, <2>2, <2>3, SMT DEF Past, Ending, Phases, Holding, Mine
  <2>6. ASSUME NEW f \in ownerFlights' PROVE f \in ownerFlights \/ OwnerPutInv(f)'
    <3>1. \/ f \in ownerFlights
          \/ f.expect = Mine(c) /\ f.write = Released(Mine(c), FALSE)
      <4>1. \/ ownerFlights' = ownerFlights
            \/ ownerFlights' = ownerFlights \cup
                   {[expect |-> Mine(c), write |-> Released(Mine(c), FALSE), by |-> c]}
        BY Zenon DEF Finish, ReleaseOnce, ReleaseReadFailed, ReleaseProved,
               ReleaseUnresolved, Crash
      <4>2. \/ f \in ownerFlights
            \/ f = [expect |-> Mine(c), write |-> Released(Mine(c), FALSE), by |-> c]
        BY <4>1, Zenon
      <4>3. CASE f = [expect |-> Mine(c), write |-> Released(Mine(c), FALSE), by |-> c]
        BY <4>3, OwnerPutFields
      <4> QED BY <4>2, <4>3, Zenon
    <3>2. f \in ownerFlights \/ ReleasePut(f, c)'
      BY <2>5, <3>1, Zenon DEF ReleasePut
    <3> QED BY <3>2, Zenon DEF OwnerPutInv
  <2> QED BY <1>3, <1>5, <1>9, <2>4, <2>6, CommandFrame, Zenon
<1> QED BY <1>10, <1>11

-----------------------------------------------------------------------------
(* Steps of the provider, the operator, and the first reading.              *)

\* The owner record moves: no command may be mutating, nothing may be live.
LEMMA OwnerMoves ==
  ASSUME TypeOK, TypeOK', ProtocolInv, ApplyOwnerPut
  PROVE  ProtocolInv'
<1>1. PICK f \in ownerFlights :
         owner = f.expect /\ owner' = f.write /\ ownerFlights' \subseteq ownerFlights
  BY Zenon DEF ApplyOwnerPut
<1>2. /\ slots' = slots /\ slotFlights' = slotFlights /\ pc' = pc /\ seen' = seen
      /\ put' = put /\ uncertain' = uncertain /\ incarnations' = incarnations
      /\ operator' = operator
  BY DEF ApplyOwnerPut
<1>3. PICK c \in Commands : AcquirePut(f, c) \/ ReleasePut(f, c) \/ OperatorPut(f, c)
  BY Zenon DEF ProtocolInv, OwnerPutInv
<1>4. /\ \A d \in Commands : /\ Mine(d)' = Mine(d)
                             /\ Past(d)' <=> Past(d)
                             /\ NothingLive(d)' <=> NothingLive(d)
      /\ \A g : Live(g)' <=> Live(g)
  BY <1>2, Zenon DEF Mine, Past, NothingLive, Live
<1>5. \A d \in Commands : /\ Ending(d)' <=> Ending(d)
                          /\ Settled(d)' <=> Settled(d)
  BY <1>2, <1>4, Zenon DEF Ending, Settled
<1>6. \A d \in Commands : PutInv(d)' <=> PutInv(d)
  BY <1>2, Zenon DEF PutInv, Forward, Later
<1>7. \A d \in Commands : LatchInv(d)' <=> LatchInv(d)
  BY <1>2, <1>4, Zenon DEF LatchInv
<1>8. /\ \A d \in Commands : pc[d] \notin Mutating
      /\ \A g \in slotFlights : ~Live(g)
      /\ OwnerInv'
  <2>0. \A g \in slotFlights : g.by \in Commands
    BY SMT DEF TypeOK, SlotPuts
  <2>1. CASE AcquirePut(f, c)
    <3>1. owner.state # "owned"
      BY <1>1, <2>1 DEF AcquirePut
    <3>2. \A d \in Commands : owner # Mine(d)
      BY <3>1, MineFacts, Zenon
    <3>3. owner' = Mine(c)' /\ Past(c)'
      BY <1>1, <1>4, <2>1, Zenon DEF AcquirePut
    <3> QED BY <2>0, <3>2, <3>3, Zenon DEF ProtocolInv, CommandInv, SlotPutInv, OwnerInv
  <2>2. CASE ReleasePut(f, c) \/ OperatorPut(f, c)
    <3>1. owner = Mine(c)
      BY <1>1, <2>2, Zenon DEF ReleasePut, OperatorPut
    <3>2. pc[c] \notin Mutating /\ NothingLive(c)
      BY <2>2, Zenon DEF ReleasePut, OperatorPut, Ending, Settled, Mutating, NothingLive
    <3>3. \A d \in Commands : pc[d] \in Mutating => d = c
      BY <3>1, MineDistinct, Zenon DEF ProtocolInv, CommandInv
    <3>4. \A g \in slotFlights : Live(g) => g.by = c
      BY <2>0, <3>1, MineDistinct, Zenon DEF ProtocolInv, SlotPutInv
    <3>5. owner'.state = "released"
      <4>1. /\ Released(Mine(c), TRUE).state = "released"
            /\ Released(Mine(c), FALSE).state = "released"
        BY SMT DEF Released
      <4>2. owner' \in {Released(Mine(c), TRUE), Released(Mine(c), FALSE)}
        BY <1>1, <2>2, Zenon DEF ReleasePut, OperatorPut
      <4> QED BY <4>1, <4>2, Zenon
    <3>6. "released" # "owned"
      OBVIOUS
    <3> QED BY <3>2, <3>3, <3>4, <3>5, <3>6, Zenon DEF OwnerInv, NothingLive
  <2> QED BY <1>3, <2>1, <2>2
<1>9. \A d \in Commands : CommandInv(d)'
  BY <1>2, <1>6, <1>7, <1>8, Zenon DEF ProtocolInv, CommandInv
<1>10. \A g \in slotFlights' : SlotPutInv(g)'
  BY <1>2, <1>4, <1>8, Zenon DEF ProtocolInv, SlotPutInv, Forward, Later, Past
<1>11. \A g \in ownerFlights' : OwnerPutInv(g)'
  <2>1. ASSUME NEW g \in ownerFlights PROVE OwnerPutInv(g)'
    <3>1. PICK d \in Commands : AcquirePut(g, d) \/ ReleasePut(g, d) \/ OperatorPut(g, d)
      BY Zenon DEF ProtocolInv, OwnerPutInv
    <3>2. AcquirePut(g, d)' \/ ReleasePut(g, d)' \/ OperatorPut(g, d)'
      BY <1>2, <1>4, <1>5, <3>1, Zenon DEF AcquirePut, ReleasePut, OperatorPut
    <3> QED BY <3>2, Zenon DEF OwnerPutInv
  <2> QED BY <1>1, <2>1, Zenon
<1>12. OperatorInv' /\ SlotsInv'
  BY <1>2, <1>4, <1>5, Zenon DEF ProtocolInv, OperatorInv, SlotsInv
<1> QED BY <1>8, <1>9, <1>10, <1>11, <1>12, Zenon DEF ProtocolInv

\* A version is not later than itself, and later is transitive.
LEMMA LaterOrder ==
  ASSUME NEW r \in Contents, NEW s \in Contents, NEW t \in Contents
  PROVE  /\ ~Later(r, r)
         /\ Later(r, s) /\ Later(s, t) => Later(r, t)
         /\ Later(r, s) => ~Later(s, r)
BY SMT DEF Contents, Later

\* A control PUT lands: it is the current one of the command that owns the
\* bucket, and every other one in flight stays behind.
LEMMA SlotMoves ==
  ASSUME TypeOK, TypeOK', ProtocolInv, ApplySlotPut
  PROVE  ProtocolInv'
<1>1. PICK f \in slotFlights :
         /\ slots[f.key] = f.expect
         /\ slots' = [slots EXCEPT ![f.key] = f.write]
         /\ slotFlights' \subseteq slotFlights
  BY Zenon DEF ApplySlotPut
<1>2. /\ owner' = owner /\ ownerFlights' = ownerFlights /\ pc' = pc /\ seen' = seen
      /\ put' = put /\ uncertain' = uncertain /\ incarnations' = incarnations
      /\ operator' = operator
  BY DEF ApplySlotPut
<1>3. \A g \in slotFlights : /\ g \in SlotPuts /\ g.by \in Commands /\ g.key \in Keys
                             /\ g.expect \in Contents /\ g.write \in Contents
                             /\ slots[g.key] \in Contents
  BY SMT DEF TypeOK, SlotPuts
<1>4. slots'[f.key] = f.write /\ \A k \in Keys : k # f.key => slots'[k] = slots[k]
  BY <1>1, <1>3, SMT DEF TypeOK
<1>5. SlotPutInv(f) /\ owner = Mine(f.by) /\ Later(f.write, f.expect)
  BY <1>1, Zenon DEF ProtocolInv, SlotPutInv, Live, Forward
<1>6. ASSUME NEW g \in slotFlights
      PROVE  /\ Live(g) \/ Later(slots[g.key], g.expect)
             /\ g.key = f.key => ~Live(g)' /\ Later(slots'[g.key], g.expect)
             /\ g.key # f.key => slots'[g.key] = slots[g.key]
  <2>1. Live(g) \/ Later(slots[g.key], g.expect)
    BY Zenon DEF ProtocolInv, SlotPutInv
  <2>2. g.key # f.key => slots'[g.key] = slots[g.key]
    BY <1>3, <1>4
  <2>3. ASSUME g.key = f.key PROVE Later(slots'[g.key], g.expect)
    <3>1. g.expect = f.expect \/ Later(f.expect, g.expect)
      BY <1>1, <2>1, <2>3, Zenon DEF Live
    <3>2. Later(f.write, g.expect)
      BY <1>3, <1>5, <3>1, LaterOrder, Zenon
    <3> QED BY <1>4, <2>3, <3>2, Zenon
  <2>4. ASSUME g.key = f.key PROVE ~Live(g)'
    <3>1. Later(f.write, g.expect)
      BY <1>4, <2>3, <2>4, Zenon
    <3>2. f.write # g.expect
      BY <1>3, <3>1, LaterOrder, Zenon
    <3> QED BY <1>4, <2>4, <3>2, Zenon DEF Live
  <2> QED BY <2>1, <2>2, <2>3, <2>4
<1>7. \A g \in slotFlights : Live(g)' => Live(g)
  BY <1>6, Zenon DEF Live
<1>8. /\ \A d \in Commands : /\ Mine(d)' = Mine(d)
                             /\ Past(d)' <=> Past(d)
                             /\ NothingLive(d) => NothingLive(d)'
                             /\ Settled(d) => Settled(d)'
      /\ \A d \in Commands : Ending(d) => Ending(d)'
  <2>1. \A d \in Commands : NothingLive(d) => NothingLive(d)'
    BY <1>1, <1>7, Zenon DEF NothingLive
  <2> QED BY <1>1, <1>2, <2>1, Zenon DEF Mine, Past, Settled, Ending
<1>9. \A g \in slotFlights' : SlotPutInv(g)'
  <2> SUFFICES ASSUME NEW g \in slotFlights' PROVE SlotPutInv(g)'
    OBVIOUS
  <2>1. g \in slotFlights /\ SlotPutInv(g)
    BY <1>1, Zenon DEF ProtocolInv
  <2>2. Forward(g)'
    BY <1>2, <2>1, Zenon DEF SlotPutInv, Forward, Later
  <2>3. Live(g)' \/ Later(slots'[g.key], g.expect)
    BY <1>6, <2>1, Zenon DEF Live
  <2>4. Live(g)' => owner' = Mine(g.by)'
    BY <1>2, <1>3, <1>7, <1>8, <2>1, Zenon DEF SlotPutInv
  <2>5. Past(g.by)' /\ pc'[g.by] # "acquiring"
    BY <1>2, <2>1, Zenon DEF SlotPutInv, Past
  <2> QED BY <2>2, <2>3, <2>4, <2>5, Zenon DEF SlotPutInv, Later
<1>10. \A d \in Commands : CommandInv(d)'
  <2> SUFFICES ASSUME NEW d \in Commands PROVE CommandInv(d)'
    OBVIOUS
  <2>1. CommandInv(d)
    BY DEF ProtocolInv
  <2>2. LatchInv(d)'
    BY <1>1, <1>2, <1>7, <1>8, <2>1, Zenon DEF CommandInv, LatchInv
  <2>3. PutInv(d)'
    <3>1. ASSUME pc[d] \in {"checked", "putting"}
          PROVE  /\ put[d].key \in Keys
                 /\ put[d].key = f.key => pc[d] = "putting" /\ put[d] = f
      <4>1. owner = Mine(d) /\ put[d] \in SlotPuts
        BY <2>1, <3>1, Zenon DEF CommandInv, Mutating, TypeOK
      <4>2. d = f.by
        BY <1>3, <1>5, <4>1, MineDistinct, Zenon
      <4>3. Live(f)
        BY <1>1 DEF Live
      <4>4. pc[d] # "checked"
        BY <2>1, <4>2, <4>3, Zenon DEF CommandInv, LatchInv, NothingLive
      <4>5. put[d] = f
        BY <2>1, <3>1, <4>2, <4>3, <4>4, Zenon DEF CommandInv, LatchInv
      <4>6. put[d].key \in Keys
        BY <4>1, SMT DEF SlotPuts
      <4> QED BY <3>1, <4>4, <4>5, <4>6, Zenon
    <3>2. pc[d] \in {"checked", "putting"} => Forward(put[d])'
      BY <1>2, <2>1, Zenon DEF CommandInv, PutInv, Forward, Later
    <3>3. CASE pc[d] \in {"checked", "putting"} /\ put[d].key = f.key
      BY <1>2, <1>4, <2>1, <3>1, <3>2, <3>3, Zenon DEF CommandInv, PutInv
    <3>4. CASE pc[d] \in {"checked", "putting"} /\ put[d].key # f.key
      BY <1>2, <1>4, <2>1, <3>1, <3>2, <3>4, Zenon DEF CommandInv, PutInv
    <3>5. CASE pc[d] \notin {"checked", "putting"}
      BY <1>2, <3>5, Zenon DEF PutInv
    <3> QED BY <3>3, <3>4, <3>5
  <2> QED BY <1>2, <1>8, <2>1, <2>2, <2>3, Zenon DEF CommandInv
<1>11. \A g \in ownerFlights' : OwnerPutInv(g)'
  <2> SUFFICES ASSUME NEW g \in ownerFlights PROVE OwnerPutInv(g)'
    BY <1>2
  <2>1. PICK d \in Commands : AcquirePut(g, d) \/ ReleasePut(g, d) \/ OperatorPut(g, d)
    BY Zenon DEF ProtocolInv, OwnerPutInv
  <2>2. AcquirePut(g, d)' \/ ReleasePut(g, d)' \/ OperatorPut(g, d)'
    BY <1>2, <1>8, <2>1, Zenon DEF AcquirePut, ReleasePut, OperatorPut
  <2> QED BY <2>2, Zenon DEF OwnerPutInv
<1>12. OperatorInv' /\ OwnerInv'
  BY <1>2, <1>8, Zenon DEF ProtocolInv, OperatorInv, OwnerInv
<1>13. SlotsInv'
  BY <1>2, <1>3, <1>4, <1>5, Zenon DEF ProtocolInv, SlotsInv, SlotPutInv, Forward
<1> QED BY <1>9, <1>10, <1>11, <1>12, <1>13, Zenon DEF ProtocolInv

\* A request is lost, or the operator turns to or from a retained record.
LEMMA OtherSteps ==
  ASSUME TypeOK, TypeOK', ProtocolInv,
         LoseOwnerPut \/ LoseSlotPut \/ Operator \/ UNCHANGED vars
  PROVE  ProtocolInv'
<1>1. /\ owner' = owner /\ slots' = slots /\ pc' = pc /\ seen' = seen /\ put' = put
      /\ uncertain' = uncertain /\ incarnations' = incarnations
      /\ slotFlights' \subseteq slotFlights
  BY Zenon DEF LoseOwnerPut, LoseSlotPut, Operator, Authorize, SendOperatorRelease,
               OperatorGivesUp, vars
<1>2. /\ \A d \in Commands : /\ Mine(d)' = Mine(d)
                             /\ Past(d)' <=> Past(d)
                             /\ NothingLive(d) => NothingLive(d)'
                             /\ Settled(d) => Settled(d)'
      /\ \A g : Live(g)' <=> Live(g)
  BY <1>1, Zenon DEF Mine, Past, NothingLive, Settled, Live
<1>3. \A d \in Commands : Ending(d) => Ending(d)'
  BY <1>1, <1>2, Zenon DEF Ending
<1>4. \A d \in Commands : CommandInv(d)'
  <2> SUFFICES ASSUME NEW d \in Commands PROVE CommandInv(d)'
    OBVIOUS
  <2>1. CommandInv(d)
    BY DEF ProtocolInv
  <2>2. PutInv(d)' /\ LatchInv(d)'
    BY <1>1, <1>2, <2>1, Zenon DEF CommandInv, PutInv, LatchInv, Forward, Later
  <2> QED BY <1>1, <1>2, <2>1, <2>2, Zenon DEF CommandInv
<1>5. \A g \in slotFlights' : SlotPutInv(g)'
  <2>1. \A g \in slotFlights : g.by \in Commands
    BY SMT DEF TypeOK, SlotPuts
  <2> QED BY <1>1, <1>2, <2>1, Zenon DEF ProtocolInv, SlotPutInv, Forward, Later
<1>6. ASSUME NEW g \in ownerFlights PROVE OwnerPutInv(g)'
  <2>1. PICK d \in Commands : AcquirePut(g, d) \/ ReleasePut(g, d) \/ OperatorPut(g, d)
    BY Zenon DEF ProtocolInv, OwnerPutInv
  <2>2. AcquirePut(g, d)' \/ ReleasePut(g, d)' \/ OperatorPut(g, d)'
    BY <1>1, <1>2, <1>3, <2>1, Zenon DEF AcquirePut, ReleasePut, OperatorPut
  <2> QED BY <2>2, Zenon DEF OwnerPutInv
<1>7. OwnerInv' /\ SlotsInv'
  BY <1>1, <1>2, Zenon DEF ProtocolInv, OwnerInv, SlotsInv
<1>8. (\A g \in ownerFlights' : OwnerPutInv(g)') /\ OperatorInv'
  <2>1. CASE LoseOwnerPut \/ LoseSlotPut \/ UNCHANGED vars
    <3>1. ownerFlights' \subseteq ownerFlights /\ operator' = operator
      BY <2>1, Zenon DEF LoseOwnerPut, LoseSlotPut, vars
    <3> QED BY <1>1, <1>2, <1>6, <3>1, Zenon DEF ProtocolInv, OperatorInv
  <2>2. CASE Authorize
    <3>1. PICK c \in Commands : owner = Mine(c) /\ Past(c)
      BY <2>2, Zenon DEF Authorize, ProtocolInv, OwnerInv
    <3>2. owner.id = c
      BY <3>1, MineFacts, Zenon
    <3>3. Settled(c)
      BY <2>2, <3>2, Zenon DEF Authorize, Quiescent, Settled
    <3>4. ownerFlights' = ownerFlights /\ operator' = owner
      BY <2>2 DEF Authorize
    <3> QED BY <1>1, <1>2, <1>6, <3>1, <3>3, <3>4, Zenon DEF OperatorInv
  <2>3. CASE SendOperatorRelease
    <3>1. PICK c \in Commands : operator = Mine(c) /\ Past(c) /\ Settled(c)
      BY <2>3, Zenon DEF SendOperatorRelease, ProtocolInv, OperatorInv
    <3>2. operator' = NoRecord
      BY <2>3 DEF SendOperatorRelease
    <3>3. ASSUME NEW g \in ownerFlights' PROVE g \in ownerFlights \/ OwnerPutInv(g)'
      <4>1. \/ g \in ownerFlights
            \/ g = [expect |-> Mine(c), write |-> Released(Mine(c), TRUE), by |-> Nobody]
        BY <2>3, <3>1, Zenon DEF SendOperatorRelease
      <4>2. CASE g = [expect |-> Mine(c), write |-> Released(Mine(c), TRUE), by |-> Nobody]
        <5>1. g.expect = Mine(c) /\ g.write = Released(Mine(c), TRUE)
          BY <4>2, OwnerPutFields
        <5>2. OperatorPut(g, c)'
          BY <1>2, <3>1, <5>1, Zenon DEF OperatorPut
        <5> QED BY <5>2, Zenon DEF OwnerPutInv
      <4> QED BY <4>1, <4>2, Zenon
    <3> QED BY <1>6, <3>2, <3>3, Zenon DEF OperatorInv
  <2>4. CASE OperatorGivesUp
    <3>1. ownerFlights' = ownerFlights /\ operator' = NoRecord
      BY <2>4 DEF OperatorGivesUp
    <3> QED BY <1>6, <3>1, Zenon DEF OperatorInv
  <2> QED BY <2>1, <2>2, <2>3, <2>4 DEF Operator
<1> QED BY <1>4, <1>5, <1>7, <1>8, Zenon DEF ProtocolInv

\* The first reading: c has sent nothing yet, so its record may still change.
LEMMA ReadOwnerStep ==
  ASSUME TypeOK, TypeOK', ProtocolInv, NEW c \in Commands, ReadOwner(c)
  PROVE  ProtocolInv'
<1>1. pc[c] = "idle" /\ ~Past(c)
  BY SMT DEF ReadOwner, Past
<1>2. /\ owner' = owner /\ slots' = slots /\ put' = put /\ uncertain' = uncertain
      /\ incarnations' = incarnations /\ slotFlights' = slotFlights
      /\ ownerFlights' = ownerFlights /\ operator' = operator
  BY DEF ReadOwner
<1>3. \A d \in Commands : d # c => pc'[d] = pc[d] /\ seen'[d] = seen[d]
  BY SMT DEF ReadOwner, Goto, TypeOK
<1>4. pc'[c] = "ended" \/ (pc'[c] = "read" /\ seen'[c].state # "owned")
  BY SMT DEF ReadOwner, Goto, TypeOK
<1>5. \A g : Live(g)' <=> Live(g)
  BY <1>2, Zenon DEF Live
<1>6. ASSUME NEW d \in Commands, d # c
      PROVE  /\ Mine(d)' = Mine(d)
             /\ Past(d) => Past(d)'
             /\ Settled(d) => Settled(d)'
             /\ Ending(d) => Ending(d)'
             /\ CommandInv(d)'
  <2>1. pc'[d] = pc[d] /\ seen'[d] = seen[d] /\ CommandInv(d)
    BY <1>3, <1>6, Zenon DEF ProtocolInv
  <2>2. Mine(d)' = Mine(d) /\ (Past(d) => Past(d)')
    BY <2>1, Zenon DEF Mine, Past
  <2>3. NothingLive(d)' <=> NothingLive(d)
    BY <1>2, <1>5, Zenon DEF NothingLive
  <2>4. (Settled(d) => Settled(d)') /\ (Ending(d) => Ending(d)')
    BY <1>2, <2>1, <2>3, Zenon DEF Settled, Ending
  <2>5. PutInv(d)'
    BY <1>2, <2>1, Zenon DEF CommandInv, PutInv, Forward, Later
  <2>6. LatchInv(d)'
    BY <1>2, <1>5, <2>1, <2>3, Zenon DEF CommandInv, LatchInv
  <2> QED BY <1>2, <2>1, <2>2, <2>4, <2>5, <2>6, Zenon DEF CommandInv
<1>8. \A d \in Commands : CommandInv(d)'
  <2>1. CommandInv(c)'
    <3>1. CASE pc'[c] = "ended"
      BY <3>1, EndedInv, Zenon
    <3>2. CASE pc'[c] = "read" /\ seen'[c].state # "owned"
      BY <3>2, Zenon DEF CommandInv, PutInv, LatchInv, Mutating
    <3> QED BY <1>4, <3>1, <3>2
  <2> QED BY <1>6, <2>1, Zenon
<1>9. \A g \in slotFlights' : SlotPutInv(g)'
  <2> SUFFICES ASSUME NEW g \in slotFlights PROVE SlotPutInv(g)'
    BY <1>2
  <2>1. SlotPutInv(g) /\ g.by \in Commands
    BY SMT DEF TypeOK, SlotPuts, ProtocolInv
  <2>2. g.by # c
    BY <1>1, <2>1, Zenon DEF SlotPutInv
  <2>3. Mine(g.by)' = Mine(g.by) /\ Past(g.by)' /\ pc'[g.by] # "acquiring"
    BY <1>3, <1>6, <2>1, <2>2, Zenon DEF SlotPutInv
  <2> QED BY <1>2, <1>5, <2>1, <2>3, Zenon DEF SlotPutInv, Forward, Later
<1>10. \A g \in ownerFlights' : OwnerPutInv(g)'
  <2> SUFFICES ASSUME NEW g \in ownerFlights PROVE OwnerPutInv(g)'
    BY <1>2
  <2>1. PICK d \in Commands : AcquirePut(g, d) \/ ReleasePut(g, d) \/ OperatorPut(g, d)
    BY Zenon DEF ProtocolInv, OwnerPutInv
  <2>2. d # c
    BY <1>1, <2>1, Zenon DEF AcquirePut, ReleasePut, OperatorPut
  <2>3. seen'[d] = seen[d] /\ Mine(d)' = Mine(d)
    BY <1>3, <1>6, <2>2, Zenon
  <2>4. AcquirePut(g, d)' \/ ReleasePut(g, d)' \/ OperatorPut(g, d)'
    BY <1>6, <2>1, <2>2, <2>3, Zenon DEF AcquirePut, ReleasePut, OperatorPut
  <2> QED BY <2>4, Zenon DEF OwnerPutInv
<1>11. OwnerInv' /\ OperatorInv' /\ SlotsInv'
  <2>1. OwnerInv'
    BY <1>1, <1>2, <1>6, Zenon DEF ProtocolInv, OwnerInv
  <2>2. OperatorInv'
    BY <1>1, <1>2, <1>6, Zenon DEF ProtocolInv, OperatorInv
  <2> QED BY <1>2, <2>1, <2>2, Zenon DEF ProtocolInv, SlotsInv
<1> QED BY <1>8, <1>9, <1>10, <1>11, Zenon DEF ProtocolInv

-----------------------------------------------------------------------------
(* Theorems.                                                                *)

\* The protocol invariant holds initially.
LEMMA InitProtocol == Init => ProtocolInv
<1> SUFFICES ASSUME Init PROVE ProtocolInv
  OBVIOUS
<1>1. owner = NoRecord /\ operator = NoRecord /\ ownerFlights = {} /\ slotFlights = {}
  BY DEF Init
<1>2. OwnerInv /\ OperatorInv
  BY <1>1, NoRecordFacts, Zenon DEF OwnerInv, OperatorInv
<1>3. SlotsInv
  BY SMT DEF Init, SlotsInv, NoSlot
<1>4. ASSUME NEW c \in Commands PROVE CommandInv(c)
  <2>1. pc[c] = "idle" /\ seen[c].state # "owned"
    BY NoRecordFacts, SMT DEF Init
  <2> QED BY <2>1, Zenon DEF CommandInv, PutInv, LatchInv, Mutating
<1> QED BY <1>1, <1>2, <1>3, <1>4, Zenon DEF ProtocolInv

\* Every step keeps the types and the protocol invariant.
LEMMA NextProtocol == TypeOK /\ ProtocolInv /\ [Next]_vars => TypeOK' /\ ProtocolInv'
<1> SUFFICES ASSUME TypeOK, ProtocolInv, [Next]_vars PROVE TypeOK' /\ ProtocolInv'
  OBVIOUS
<1>1. CASE UNCHANGED vars
  <2>1. TypeOK'
    BY <1>1, Zenon DEF vars, TypeOK
  <2> QED BY <1>1, <2>1, OtherSteps, Zenon
<1>2. CASE Provider
  <2>1. TypeOK'
    BY <1>2, ProviderTypes
  <2> QED BY <1>2, <2>1, OwnerMoves, SlotMoves, OtherSteps, Zenon DEF Provider
<1>3. CASE Operator
  <2>1. TypeOK'
    BY <1>3, OperatorTypes
  <2> QED BY <1>3, <2>1, OtherSteps, Zenon
<1>4. ASSUME NEW c \in Commands, Command(c) PROVE TypeOK' /\ ProtocolInv'
  <2>1. TypeOK'
    BY <1>4, CommandTypes
  <2> QED BY <1>4, <2>1, ReadOwnerStep, AcquireSteps, CreateStep, ReplaceOrRemoveStep,
             SendPutStep, PutReturnSteps, ReleaseSteps, Zenon DEF Command
<1> QED BY <1>1, <1>2, <1>3, <1>4 DEF Next

\* The protocol invariant holds in every reachable state.
THEOREM S3ProtocolSafe == Spec => [](TypeOK /\ ProtocolInv)
<1>1. Init => TypeOK /\ ProtocolInv
  BY InitTypes, InitProtocol
<1> QED BY <1>1, NextProtocol, PTL DEF Spec

\* While a command can mutate the dataset the owner record is its own
\* (S3Ownership::acquire, release): at most one command can.
THEOREM GuardExclusive == Spec => []GuardMeansOwned
<1>1. TypeOK /\ ProtocolInv => GuardMeansOwned
  BY Zenon DEF ProtocolInv, CommandInv, GuardMeansOwned
<1> QED BY <1>1, S3ProtocolSafe, PTL

\* A control PUT that can still land belongs to the current owner
\* (durable_state_s3.rs, put_and_verify).
THEOREM StrayPutsHarmless == Spec => []NoStrayPut
<1>1. TypeOK /\ ProtocolInv => NoStrayPut
  BY Zenon DEF ProtocolInv, SlotPutInv, NoStrayPut, Live
<1> QED BY <1>1, S3ProtocolSafe, PTL

\* What create, replace and remove checked holds until their PUT lands.
THEOREM CheckedCurrent == Spec => []CheckedStaysCurrent
<1>1. TypeOK /\ ProtocolInv => CheckedStaysCurrent
  BY Zenon DEF ProtocolInv, CommandInv, PutInv, CheckedStaysCurrent
<1> QED BY <1>1, S3ProtocolSafe, PTL

\* Control versions only grow, so a delayed PUT never meets its version again.
THEOREM VersionsGrow == Spec => VersionsNeverRecur
<1>1. ASSUME TypeOK, ProtocolInv, [Next]_vars
      PROVE  \A k \in Keys : slots'[k] # slots[k] => Later(slots'[k], slots[k])
  <2>1. CASE ApplySlotPut
    <3>1. PICK f \in slotFlights : /\ slots[f.key] = f.expect
                                   /\ slots' = [slots EXCEPT ![f.key] = f.write]
      BY <2>1, Zenon DEF ApplySlotPut
    <3>2. Later(f.write, f.expect)
      BY <1>1, Zenon DEF ProtocolInv, SlotPutInv, Forward
    <3>3. \A k \in Keys : slots'[k] = slots[k] \/ (k = f.key /\ slots'[k] = f.write)
      BY <1>1, <3>1, SMT DEF TypeOK
    <3> QED BY <3>1, <3>2, <3>3, Zenon
  <2>2. CASE ~ApplySlotPut
    <3>1. slots' = slots
      <4>1. CASE UNCHANGED vars
        BY <4>1 DEF vars
      <4>2. CASE ApplyOwnerPut \/ LoseOwnerPut \/ LoseSlotPut \/ Operator
        BY <4>2, Zenon DEF ApplyOwnerPut, LoseOwnerPut, LoseSlotPut, Operator,
           Authorize, SendOperatorRelease, OperatorGivesUp
      <4>3. ASSUME NEW c \in Commands, Command(c) PROVE slots' = slots
        BY <4>3, Zenon DEF Command, ReadOwner, SendAcquire, Acquired, AcquireFailed,
           Create, ReplaceOrRemove, SendPut, PutProved, PutRejected, PutUnresolved,
           PutReturns, Finish, ReleaseOnce, ReleaseReadFailed, ReleaseProved,
           ReleaseUnresolved, Crash
      <4> QED BY <1>1, <2>2, <4>1, <4>2, <4>3 DEF Next, Provider
    <3> QED BY <3>1
  <2> QED BY <2>1, <2>2
<1> QED BY <1>1, S3ProtocolSafe, PTL DEF Spec, VersionsNeverRecur

\* A command whose mutation is unresolved never releases its record: only the
\* operator's receipt does (DataMutationUncertain).
THEOREM UncertainKept == Spec => UncertainKeepsOwner
<1>1. ASSUME TypeOK, ProtocolInv, [Next]_vars,
             NEW c \in Commands, owner = Mine(c), uncertain[c], owner' # owner
      PROVE  owner' = Released(Mine(c), TRUE)
  <2>1. ApplyOwnerPut
    <3>1. ~(UNCHANGED vars)
      BY <1>1 DEF vars
    <3>2. ~(ApplySlotPut \/ LoseOwnerPut \/ LoseSlotPut \/ Operator)
      BY <1>1, Zenon DEF ApplySlotPut, LoseOwnerPut, LoseSlotPut, Operator,
         Authorize, SendOperatorRelease, OperatorGivesUp
    <3>3. \A d \in Commands : ~Command(d)
      BY <1>1, Zenon DEF Command, ReadOwner, SendAcquire, Acquired, AcquireFailed,
         Create, ReplaceOrRemove, SendPut, PutProved, PutRejected, PutUnresolved,
         PutReturns, Finish, ReleaseOnce, ReleaseReadFailed, ReleaseProved,
         ReleaseUnresolved, Crash
    <3> QED BY <1>1, <3>1, <3>2, <3>3 DEF Next, Provider
  <2>2. PICK f \in ownerFlights : owner = f.expect /\ owner' = f.write
    BY <2>1, Zenon DEF ApplyOwnerPut
  <2>3. PICK d \in Commands : AcquirePut(f, d) \/ ReleasePut(f, d) \/ OperatorPut(f, d)
    BY <1>1, <2>2, Zenon DEF ProtocolInv, OwnerPutInv
  <2>4. ~AcquirePut(f, d)
    <3>1. Mine(c).state = "owned"
      BY <1>1, MineFacts
    <3>2. f.expect = Mine(c)
      BY <1>1, <2>2
    <3> QED BY <3>1, <3>2, Zenon DEF AcquirePut
  <2>5. ~ReleasePut(f, d)
    BY <1>1, <2>2, MineDistinct, Zenon DEF ReleasePut, Ending
  <2> QED BY <1>1, <2>2, <2>3, <2>4, <2>5, Zenon DEF OperatorPut
<1>2. TypeOK /\ ProtocolInv /\ [Next]_vars =>
        \A c \in Commands : owner = Mine(c) /\ uncertain[c] /\ owner' # owner =>
            owner' = Released(Mine(c), TRUE)
  BY <1>1, Zenon
<1> QED BY <1>2, S3ProtocolSafe, PTL DEF Spec, UncertainKeepsOwner
=============================================================================
