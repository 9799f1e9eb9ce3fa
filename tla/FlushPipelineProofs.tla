------------------------- MODULE FlushPipelineProofs -------------------------
(* The safety of one flush, for every plan, budget, bound and number of      *)
(* failures: publish_parts gives a file its final name only under a durable  *)
(* receipt; its byte budget is exact and never exceeded but by one part that *)
(* holds it alone; it returns only drained, and Ok only with every file.     *)
EXTENDS FlushPipeline, FiniteSetTheorems, WellFoundedInduction, TLAPS

\* The stages that a part enters only through a receipt write that landed.
Receipted == {"recorded", "publishable", "publishing", "publish_done"}

\* The inductive invariant of ReceiptBeforeFile.
Journaled ==
    /\ DOMAIN stage = Parts
    /\ \A p \in Parts : stage[p] \in Receipted => p \in receipts
    /\ published \subseteq receipts

\* An Ok outcome of an event moves parts to a stage: into a receipted one only
\* if they have their receipts.
LEMMA PassKeepsJournal ==
    ASSUME Journaled,
           NEW S \in SUBSET Parts, NEW next, Pass(S, next),
           next \in Receipted => S \subseteq receipts,
           UNCHANGED <<receipts, published>>
    PROVE  Journaled'
<1>1. DOMAIN stage' = Parts
  BY DEF Pass
<1>2. \A p \in Parts : stage'[p] \in Receipted => p \in receipts
  <2> SUFFICES ASSUME NEW p \in Parts, stage'[p] \in Receipted
               PROVE  p \in receipts
    OBVIOUS
  <2>1. stage'[p] = IF p \notin S THEN stage[p]
                    ELSE IF failed THEN "dropped" ELSE next
    BY DEF Pass
  <2>2. "dropped" \notin Receipted
    BY DEF Receipted
  <2> QED  BY <2>1, <2>2 DEF Journaled
<1> QED  BY <1>1, <1>2 DEF Journaled

\* An error outcome only drops parts.
LEMMA FailKeepsJournal ==
    ASSUME Journaled, NEW S \in SUBSET Parts, Fail(S),
           UNCHANGED <<receipts, published>>
    PROVE  Journaled'
<1>1. DOMAIN stage' = Parts
  BY DEF Fail
<1>2. \A p \in Parts : stage'[p] \in Receipted => p \in receipts
  <2> SUFFICES ASSUME NEW p \in Parts, stage'[p] \in Receipted
               PROVE  p \in receipts
    OBVIOUS
  <2>1. stage'[p] = IF p \in S \/ stage[p] \in Waiting THEN "dropped"
                    ELSE stage[p]
    BY DEF Fail
  <2>2. "dropped" \notin Receipted
    BY DEF Receipted
  <2> QED  BY <2>1, <2>2 DEF Journaled
<1> QED  BY <1>1, <1>2 DEF Journaled

\* A step of the coordinator keeps the journal ahead of the files.
LEMMA CoordinatorKeepsJournal == Journaled /\ Coordinator => Journaled'
<1> SUFFICES ASSUME Journaled, Coordinator PROVE Journaled'
  OBVIOUS
<1>1. CASE AdmitEncoder
  <2>1. PICK q : stage' = [stage EXCEPT ![q] = "encoding"]
    BY <1>1, Zenon DEF AdmitEncoder
  <2>2. UNCHANGED <<receipts, published>>
    BY <1>1 DEF AdmitEncoder, outside
  <2> QED  BY <2>1, <2>2 DEF Journaled, Receipted
<1>2. CASE EncodersAdmitted \/ Await \/ Return
  BY <1>2 DEF EncodersAdmitted, Await, Return, Journaled, outside
<1>3. CASE StartRecording
  <2>1. UNCHANGED <<receipts, published>>
    BY <1>3 DEF StartRecording, outside
  <2>2. \/ stage' = stage
        \/ stage' = [p \in Parts |-> IF stage[p] = "receipts" THEN "recording"
                                                             ELSE stage[p]]
    BY <1>3 DEF StartRecording
  <2> QED  BY <2>1, <2>2 DEF Journaled, Receipted
<1>4. CASE \E p \in Parts : StartPublication(p)
  <2>1. PICK p \in Parts : StartPublication(p)
    BY <1>4
  <2>2. stage[p] = "publishable" /\ stage' = [stage EXCEPT ![p] = "publishing"]
    BY <2>1 DEF StartPublication
  <2>3. UNCHANGED <<receipts, published>>
    BY <2>1 DEF StartPublication, outside
  <2> QED  BY <2>2, <2>3 DEF Journaled, Receipted
<1>5. CASE \E p \in Parts : HandleEncoded(p)
  <2>1. PICK p \in Parts : HandleEncoded(p)
    BY <1>5
  <2>2. UNCHANGED <<receipts, published>>
    BY <2>1 DEF HandleEncoded, outside
  <2>3. CASE Pass({p}, IF lane THEN "staging" ELSE "receipts")
    BY <2>2, <2>3, PassKeepsJournal DEF Receipted
  <2>4. CASE Fail({p})
    BY <2>2, <2>4, FailKeepsJournal
  <2>5. CASE stage' = [stage EXCEPT ![p] = "queued"]
    BY <2>2, <2>5 DEF Journaled, Receipted
  <2> QED  BY <2>1, <2>3, <2>4, <2>5 DEF HandleEncoded
<1>6. CASE \E p \in Parts : HandleStaged(p)
  <2>1. PICK p \in Parts : HandleStaged(p)
    BY <1>6
  <2>2. UNCHANGED <<receipts, published>>
    BY <2>1 DEF HandleStaged, outside
  <2>3. CASE Pass({p}, "receipts")
    BY <2>2, <2>3, PassKeepsJournal, SMTT(30) DEF Receipted
  <2>4. CASE Fail({p})
    BY <2>2, <2>4, FailKeepsJournal
  <2> QED  BY <2>1, <2>3, <2>4 DEF HandleStaged
<1>7. CASE \E p \in Parts : HandlePublished(p)
  <2>1. PICK p \in Parts : HandlePublished(p)
    BY <1>7
  <2>2. UNCHANGED <<receipts, published>>
    BY <2>1 DEF HandlePublished, outside
  <2>3. CASE Pass({p}, "done")
    BY <2>2, <2>3, PassKeepsJournal, SMTT(30) DEF Receipted
  <2>4. CASE Fail({p})
    BY <2>2, <2>4, FailKeepsJournal
  <2> QED  BY <2>1, <2>3, <2>4 DEF HandlePublished
<1>8. CASE HandleRecorded
  <2>1. UNCHANGED <<receipts, published>>
    BY <1>8 DEF HandleRecorded, outside
  <2>2. CASE Pass(In({"recorded"}), "publishable")
    <3>1. In({"recorded"}) \subseteq receipts /\ In({"recorded"}) \subseteq Parts
      BY DEF In, Journaled, Receipted
    <3> QED  BY <2>1, <2>2, <3>1, PassKeepsJournal
  <2>3. CASE Fail(In({"record_failed"}))
    <3>1. In({"record_failed"}) \subseteq Parts
      BY DEF In
    <3> QED  BY <2>1, <2>3, <3>1, FailKeepsJournal
  <2> QED  BY <1>8, <2>2, <2>3 DEF HandleRecorded
<1> QED  BY <1>1, <1>2, <1>3, <1>4, <1>5, <1>6, <1>7, <1>8, SMTT(30) DEF Coordinator

\* A step of an encoder, of the lane, of the receipt write or of a publication
\* keeps the journal ahead of the files: only a part that is publishing gets
\* its file.
LEMMA WorkKeepsJournal ==
    Journaled /\ (Record \/ \E p \in Parts : Work(p)) => Journaled'
<1>1. ASSUME Journaled, Record PROVE Journaled'
  <2>1. PICK lands \in BOOLEAN, ok \in BOOLEAN : RecordEnds(lands, ok)
    BY <1>1 DEF Record
  <2>2. /\ published' = published
        /\ ok => lands
        /\ receipts' = IF lands THEN receipts \cup In({"recording"}) ELSE receipts
        /\ stage' = [p \in Parts |->
                        IF stage[p] # "recording" THEN stage[p]
                        ELSE IF ok THEN "recorded" ELSE "record_failed"]
    BY <2>1 DEF RecordEnds
  <2>3. receipts \subseteq receipts'
    BY <2>2
  <2>4. ASSUME NEW p \in Parts, stage'[p] \in Receipted PROVE p \in receipts'
    <3>1. CASE stage[p] # "recording"
      BY <1>1, <2>2, <2>3, <2>4, <3>1, SMTT(30) DEF Journaled
    <3>2. CASE stage[p] = "recording"
      <4>1. ok
        BY <2>2, <2>4, <3>2 DEF Receipted
      <4> QED  BY <2>2, <3>2, <4>1 DEF In
    <3> QED  BY <3>1, <3>2
  <2> QED  BY <1>1, <2>2, <2>3, <2>4 DEF Journaled
<1>2. ASSUME Journaled, NEW p \in Parts, Work(p) PROVE Journaled'
  <2>1. CASE EncoderWrites(p)
    BY <1>2, <2>1 DEF EncoderWrites, Journaled, outside
  <2>2. CASE EncoderRefused(p) \/ EncoderFinishes(p) \/ EncoderFails(p)
    <3>1. UNCHANGED <<receipts, published>>
      BY <2>2 DEF EncoderRefused, EncoderFinishes, EncoderFails, outside
    <3>2. \E s \in {"refused", "encoded", "encode_failed"} :
              stage' = [stage EXCEPT ![p] = s]
      BY <2>2 DEF EncoderRefused, EncoderFinishes, EncoderFails
    <3> QED  BY <1>2, <3>1, <3>2 DEF Journaled, Receipted
  <2>3. CASE \E ok \in BOOLEAN : StageEnds(p, ok)
    <3>1. UNCHANGED <<receipts, published>>
      BY <2>3 DEF StageEnds, outside
    <3>2. \E s \in {"stage_done", "stage_failed"} : stage' = [stage EXCEPT ![p] = s]
      BY <2>3, Zenon DEF StageEnds
    <3> QED  BY <1>2, <3>1, <3>2 DEF Journaled, Receipted
  <2>4. CASE \E lands, ok \in BOOLEAN : PublishEnds(p, lands, ok)
    <3>1. p \in receipts
      BY <1>2, <2>4 DEF PublishEnds, Journaled, Receipted
    <3>2. receipts' = receipts /\ published' \subseteq published \cup {p}
      BY <2>4 DEF PublishEnds
    <3>3. \E s \in {"publish_done", "publish_failed"} :
              stage' = [stage EXCEPT ![p] = s]
      BY <2>4, Zenon DEF PublishEnds
    <3> QED  BY <1>2, <3>1, <3>2, <3>3 DEF Journaled, Receipted
  <2> QED  BY <1>2, <2>1, <2>2, <2>3, <2>4 DEF Work
<1> QED  BY <1>1, <1>2

\* A file reaches its final name only after its receipt is durable, for every
\* plan and every interleaving and failure of the work (publish_parts).
THEOREM ReceiptsFirst == Spec => []ReceiptBeforeFile
<1>1. Init => Journaled
  BY DEF Init, Journaled, Receipted
<1>2. Journaled /\ [Next]_vars => Journaled'
  <2>1. Journaled /\ Next => Journaled'
    BY CoordinatorKeepsJournal, WorkKeepsJournal DEF Next
  <2>2. Journaled /\ UNCHANGED vars => Journaled'
    BY DEF Journaled, vars
  <2> QED  BY <2>1, <2>2
<1>3. Journaled => ReceiptBeforeFile
  BY DEF Journaled, ReceiptBeforeFile
<1> QED  BY <1>1, <1>2, <1>3, PTL DEF Spec

(***************************** sums over a set *****************************)
\* MapThenSumSet(LAMBDA p : held[p], S), and the recursion that defines it.
Total(h, S) == MapThenSumSet(LAMBDA x : h[x], S)
First(s) == CHOOSE x \in s : TRUE
Rec(h, S, g) == [s \in SUBSET S |-> IF s = {} THEN 0
                                    ELSE h[First(s)] + g[s \ {First(s)}]]
Sums(h, S) == CHOOSE g : g = Rec(h, S, g)

\* The recursion of the library's operator.
LEMMA TotalIsSums == ASSUME NEW h, NEW S PROVE Total(h, S) = Sums(h, S)[S]
BY Zenon DEF Total, MapThenSumSet, MapThenFoldSet, Rec, First, Sums

\* A set of naturals that is closed under successor holds every natural.
LEMMA NatClosed ==
    ASSUME NEW B, 0 \in B, \A n \in Nat : n \in B => n + 1 \in B
    PROVE  Nat \subseteq B
<1> SUFFICES ASSUME Nat \ B # {} PROVE FALSE
  OBVIOUS
<1>1. PICK m \in Nat \ B : \A k \in Nat \ B : <<k, m>> \notin OpToRel(<, Nat)
  BY WFMin, NatLessThanWellFounded, Zenon
<1>2. m # 0 /\ m - 1 \in Nat /\ m - 1 < m
  OBVIOUS
<1>3. <<m - 1, m>> \in OpToRel(<, Nat)
  BY <1>2 DEF OpToRel
<1>4. m - 1 \in B
  BY <1>1, <1>2, <1>3, Zenon
<1>5. (m - 1) + 1 = m
  OBVIOUS
<1> QED  BY <1>2, <1>4, <1>5

\* Induction on the subsets of a finite set, one element at a time.
LEMMA SubsetClosed ==
    ASSUME NEW S, IsFiniteSet(S), NEW B,
           \A s \in SUBSET S : (\A x \in s : s \ {x} \in B) => s \in B
    PROVE  SUBSET S \subseteq B
<1> DEFINE C == {n \in Nat : \A s \in SUBSET S : Cardinality(s) = n => s \in B}
<1>1. \A s \in SUBSET S : IsFiniteSet(s) /\ Cardinality(s) \in Nat
  BY FS_Subset, FS_CardinalityType
<1>2. 0 \in C
  <2> SUFFICES ASSUME NEW s \in SUBSET S, Cardinality(s) = 0 PROVE s \in B
    OBVIOUS
  <2>1. s = {}
    BY <1>1, FS_EmptySet
  <2> QED  BY <2>1
<1>3. ASSUME NEW n \in Nat, n \in C PROVE n + 1 \in C
  <2> SUFFICES ASSUME NEW s \in SUBSET S, Cardinality(s) = n + 1 PROVE s \in B
    OBVIOUS
  <2>1. ASSUME NEW x \in s PROVE s \ {x} \in B
    <3>1. Cardinality(s \ {x}) = Cardinality(s) - 1
      BY <1>1, FS_RemoveElement
    <3>2. Cardinality(s \ {x}) = n /\ s \ {x} \in SUBSET S
      BY <3>1
    <3> QED  BY <3>2, <1>3
  <2> QED  BY <2>1
<1>4. Nat \subseteq C
  <2> HIDE DEF C
  <2> QED  BY <1>2, <1>3, NatClosed
<1> QED  BY <1>1, <1>4

\* The recursion has a solution on the subsets of a finite set.
LEMMA SumsExist ==
    ASSUME NEW h, NEW S, IsFiniteSet(S)
    PROVE  \E g : g = Rec(h, S, g)
<1> DEFINE Small(n) == {u \in SUBSET S : Cardinality(u) <= n}
           RecTo(n, g) == [s \in Small(n) |->
                             IF s = {} THEN 0
                             ELSE h[First(s)] + g[s \ {First(s)}]]
           B == {n \in Nat : \E g : g = RecTo(n, g)}
<1>1. \A s \in SUBSET S : IsFiniteSet(s) /\ Cardinality(s) \in Nat
  BY FS_Subset, FS_CardinalityType
<1>2. 0 \in B
  <2>1. \A s \in Small(0) : s = {}
    BY <1>1, FS_EmptySet
  <2>2. [s \in Small(0) |-> 0] = RecTo(0, [s \in Small(0) |-> 0])
    BY <2>1
  <2> QED  BY <2>2, Zenon
<1>3. ASSUME NEW n \in Nat, n \in B PROVE n + 1 \in B
  <2>1. PICK g : g = RecTo(n, g)
    BY <1>3, Zenon
  <2> DEFINE f == RecTo(n + 1, g)
  <2>2. ASSUME NEW s \in Small(n + 1), s # {}
        PROVE  s \ {First(s)} \in Small(n)
    <3>1. First(s) \in s
      BY <2>2 DEF First
    <3>2. Cardinality(s \ {First(s)}) = Cardinality(s) - 1
      BY <1>1, <3>1, FS_RemoveElement
    <3> QED  BY <1>1, <3>2
  <2>3. \A s \in Small(n) : s \in Small(n + 1) /\ f[s] = g[s]
    <3> SUFFICES ASSUME NEW s \in Small(n)
                 PROVE  s \in Small(n + 1) /\ f[s] = g[s]
      BY Zenon
    <3>1. s \in Small(n + 1)
      BY <1>1
    <3>2. g[s] = IF s = {} THEN 0 ELSE h[First(s)] + g[s \ {First(s)}]
      BY <2>1, Zenon
    <3>3. f[s] = IF s = {} THEN 0 ELSE h[First(s)] + g[s \ {First(s)}]
      BY <3>1, Zenon
    <3> QED  BY <3>1, <3>2, <3>3, Zenon
  <2>4. \A s \in Small(n + 1) : s # {} => f[s \ {First(s)}] = g[s \ {First(s)}]
    <3> HIDE DEF Small, f
    <3> QED  BY <2>2, <2>3, Zenon
  <2>5. f = RecTo(n + 1, f)
    <3>1. \A s \in Small(n + 1) :
             (IF s = {} THEN 0 ELSE h[First(s)] + g[s \ {First(s)}])
               = (IF s = {} THEN 0 ELSE h[First(s)] + f[s \ {First(s)}])
      <4> HIDE DEF Small, f
      <4> QED  BY <2>4, Zenon
    <3> HIDE DEF Small
    <3> QED  BY <3>1, Zenon
  <2>6. n + 1 \in Nat
    OBVIOUS
  <2> HIDE DEF f, RecTo
  <2> QED  BY <2>5, <2>6, Zenon
<1>4. Nat \subseteq B
  <2> HIDE DEF B
  <2> QED  BY <1>2, <1>3, NatClosed
<1>5. PICK g : g = RecTo(Cardinality(S), g)
  BY <1>1, <1>4, Zenon
<1>6. Small(Cardinality(S)) = SUBSET S
  BY <1>1, FS_Subset
<1>7. g = Rec(h, S, g)
  <2> HIDE DEF Small
  <2> QED  BY <1>5, <1>6, Zenon DEF Rec
<1> QED  BY <1>7

\* The chosen solution satisfies the recursion.
LEMMA SumsRec ==
    ASSUME NEW h, NEW S, IsFiniteSet(S)
    PROVE  /\ Sums(h, S)[{}] = 0
           /\ \A s \in SUBSET S : s # {} =>
                /\ First(s) \in s
                /\ Sums(h, S)[s] = h[First(s)] + Sums(h, S)[s \ {First(s)}]
<1>1. Sums(h, S) = Rec(h, S, Sums(h, S))
  BY SumsExist, Zenon DEF Sums
<1>2. \A s \in SUBSET S : s # {} => First(s) \in s
  BY Zenon DEF First
<1>3. \A s \in SUBSET S :
        Sums(h, S)[s] = IF s = {} THEN 0
                        ELSE h[First(s)] + Sums(h, S)[s \ {First(s)}]
  BY <1>1, Zenon DEF Rec
<1> QED  BY <1>2, <1>3

\* Sums of functions that agree on the smaller of two sets agree there.
LEMMA SumsAgree ==
    ASSUME NEW h, NEW k, NEW S, NEW T \in SUBSET S, IsFiniteSet(S),
           \A x \in T : h[x] = k[x]
    PROVE  \A s \in SUBSET T : Sums(h, T)[s] = Sums(k, S)[s]
<1> DEFINE B == {s \in SUBSET T : Sums(h, T)[s] = Sums(k, S)[s]}
<1>1. IsFiniteSet(T)
  BY FS_Subset
<1>2. ASSUME NEW s \in SUBSET T, \A x \in s : s \ {x} \in B
      PROVE  s \in B
  <2>1. CASE s = {}
    BY <1>1, <2>1, SumsRec, Zenon
  <2>2. CASE s # {}
    <3>1. First(s) \in s /\ Sums(h, T)[s] = h[First(s)] + Sums(h, T)[s \ {First(s)}]
      BY <1>1, <2>2, SumsRec
    <3>2. Sums(k, S)[s] = k[First(s)] + Sums(k, S)[s \ {First(s)}]
      BY <2>2, SumsRec, SMTT(30)
    <3>3. Sums(h, T)[s \ {First(s)}] = Sums(k, S)[s \ {First(s)}]
      BY <1>2, <3>1, Zenon
    <3> QED  BY <3>1, <3>2, <3>3, Zenon
  <2> QED  BY <2>1, <2>2, Zenon
<1>3. SUBSET T \subseteq B
  <2> HIDE DEF B
  <2> QED  BY <1>1, <1>2, SubsetClosed, Zenon
<1> QED  BY <1>3

\* A sum of integers is an integer.
LEMMA SumsInt ==
    ASSUME NEW S, IsFiniteSet(S), NEW h, \A x \in S : h[x] \in Int
    PROVE  \A s \in SUBSET S : Sums(h, S)[s] \in Int
<1> DEFINE B == {s \in SUBSET S : Sums(h, S)[s] \in Int}
<1>1. ASSUME NEW s \in SUBSET S, \A x \in s : s \ {x} \in B
      PROVE  s \in B
  <2>1. CASE s = {}
    BY <2>1, SumsRec
  <2>2. CASE s # {}
    <3>1. First(s) \in s /\ Sums(h, S)[s] = h[First(s)] + Sums(h, S)[s \ {First(s)}]
      BY <2>2, SumsRec
    <3>2. Sums(h, S)[s \ {First(s)}] \in Int /\ h[First(s)] \in Int
      BY <1>1, <3>1
    <3> QED  BY <3>1, <3>2
  <2> QED  BY <2>1, <2>2
<1>2. SUBSET S \subseteq B
  <2> HIDE DEF B
  <2> QED  BY <1>1, SubsetClosed, Zenon
<1> QED  BY <1>2

\* A sum is taken in any order: one element may be set apart.
LEMMA SumsOrder ==
    ASSUME NEW S, IsFiniteSet(S), NEW h, \A x \in S : h[x] \in Int
    PROVE  \A s \in SUBSET S : \A x \in s :
             Sums(h, S)[s] = h[x] + Sums(h, S)[s \ {x}]
<1> DEFINE B == {s \in SUBSET S :
                   \A x \in s : Sums(h, S)[s] = h[x] + Sums(h, S)[s \ {x}]}
<1>1. ASSUME NEW s \in SUBSET S, \A x \in s : s \ {x} \in B
      PROVE  s \in B
  <2> SUFFICES ASSUME NEW x \in s
               PROVE  Sums(h, S)[s] = h[x] + Sums(h, S)[s \ {x}]
    OBVIOUS
  <2> DEFINE a == First(s)
  <2>1. a \in s /\ Sums(h, S)[s] = h[a] + Sums(h, S)[s \ {a}]
    BY SumsRec
  <2>2. CASE x = a
    BY <2>1, <2>2, Zenon
  <2>3. CASE x # a
    <3> DEFINE rest == Sums(h, S)[(s \ {a}) \ {x}]
    <3>1. x \in s \ {a} /\ a \in s \ {x} /\ (s \ {a}) \ {x} = (s \ {x}) \ {a}
      BY <2>1, <2>3, Zenon
    <3>2. Sums(h, S)[s \ {a}] = h[x] + rest
      BY <1>1, <2>1, <3>1, Zenon
    <3>3. Sums(h, S)[s \ {x}] = h[a] + rest
      BY <1>1, <3>1
    <3>4. rest \in Int /\ h[x] \in Int /\ h[a] \in Int
      BY <2>1, SumsInt
    <3> HIDE DEF rest
    <3>5. h[a] + (h[x] + rest) = h[x] + (h[a] + rest)
      BY <3>4
    <3> QED  BY <2>1, <3>2, <3>3, <3>5, Zenon
  <2> QED  BY <2>2, <2>3
<1>2. SUBSET S \subseteq B
  <2> HIDE DEF B
  <2> QED  BY <1>1, SubsetClosed, Zenon
<1> QED  BY <1>2, Zenon

\* What the sums are used for: the empty sum, and one element set apart.
LEMMA TotalStep ==
    ASSUME NEW S, IsFiniteSet(S), NEW h, \A x \in S : h[x] \in Int
    PROVE  /\ Total(h, S) \in Int
           /\ S = {} => Total(h, S) = 0
           /\ \A x \in S : Total(h, S) = h[x] + Total(h, S \ {x})
<1>1. Total(h, S) \in Int /\ (S = {} => Total(h, S) = 0)
  BY TotalIsSums, SumsInt, SumsRec, Zenon
<1>2. ASSUME NEW x \in S PROVE Total(h, S) = h[x] + Total(h, S \ {x})
  <2>1. Sums(h, S)[S] = h[x] + Sums(h, S)[S \ {x}]
    BY SumsOrder
  <2>2. Sums(h, S \ {x})[S \ {x}] = Sums(h, S)[S \ {x}]
    BY SumsAgree
  <2> QED  BY <2>1, <2>2, TotalIsSums
<1> QED  BY <1>1, <1>2, Zenon

\* Functions that agree have the same sum.
LEMMA TotalSame ==
    ASSUME NEW S, IsFiniteSet(S), NEW h, NEW k, \A x \in S : h[x] = k[x]
    PROVE  Total(h, S) = Total(k, S)
BY SumsAgree, TotalIsSums

\* A sum of naturals bounds each of its terms, and is 0 if they all are.
LEMMA TotalNat ==
    ASSUME NEW S, IsFiniteSet(S), NEW h, \A x \in S : h[x] \in Nat
    PROVE  /\ Total(h, S) \in Nat
           /\ \A x \in S : h[x] <= Total(h, S)
           /\ (\A x \in S : h[x] = 0) => Total(h, S) = 0
<1> DEFINE B == {s \in SUBSET S : Total(h, s) \in Nat
                    /\ ((\A x \in s : h[x] = 0) => Total(h, s) = 0)}
<1>1. ASSUME NEW s \in SUBSET S, \A x \in s : s \ {x} \in B
      PROVE  s \in B
  <2>1. IsFiniteSet(s) /\ \A x \in s : h[x] \in Int
    BY FS_Subset
  <2>2. CASE s = {}
    BY <2>1, <2>2, TotalStep
  <2>3. CASE s # {}
    <3>1. PICK x \in s : TRUE
      BY <2>3
    <3>2. Total(h, s) = h[x] + Total(h, s \ {x})
      BY <2>1, TotalStep, Zenon
    <3>3. s \ {x} \in B /\ h[x] \in Nat
      BY <1>1
    <3> QED  BY <3>2, <3>3
  <2> QED  BY <2>2, <2>3, Zenon
<1>2. SUBSET S \subseteq B
  <2> HIDE DEF B
  <2> QED  BY <1>1, SubsetClosed, Zenon
<1>3. ASSUME NEW x \in S PROVE h[x] <= Total(h, S)
  <2>1. Total(h, S) = h[x] + Total(h, S \ {x})
    BY TotalStep
  <2>2. Total(h, S \ {x}) \in Nat /\ h[x] \in Nat
    BY <1>2
  <2> QED  BY <2>1, <2>2
<1> QED  BY <1>2, <1>3, Zenon

\* The sum over a set is the sum over a part of it and over the rest.
LEMMA TotalSplit ==
    ASSUME NEW S, IsFiniteSet(S), NEW h, \A x \in S : h[x] \in Int,
           NEW A \in SUBSET S
    PROVE  Total(h, S) = Total(h, A) + Total(h, S \ A)
<1> DEFINE B == {s \in SUBSET S : Total(h, S) = Total(h, s) + Total(h, S \ s)}
<1>0. \A s \in SUBSET S : /\ IsFiniteSet(s) /\ Total(h, s) \in Int
                          /\ \A x \in s : h[x] \in Int
  BY FS_Subset, TotalStep, Zenon
<1>1. ASSUME NEW s \in SUBSET S, \A x \in s : s \ {x} \in B
      PROVE  s \in B
  <2>1. CASE s = {}
    <3>1. Total(h, s) = 0 /\ S \ s = S
      BY <1>0, <2>1, TotalStep
    <3> QED  BY <1>0, <3>1
  <2>2. CASE s # {}
    <3>1. PICK x \in s : TRUE
      BY <2>2
    <3>2. Total(h, s) = h[x] + Total(h, s \ {x})
      BY <1>0, TotalStep
    <3>3. Total(h, S \ (s \ {x})) = h[x] + Total(h, S \ s)
      <4>1. x \in S \ (s \ {x}) /\ (S \ (s \ {x})) \ {x} = S \ s
        OBVIOUS
      <4>2. S \ (s \ {x}) \in SUBSET S
        OBVIOUS
      <4> QED  BY <1>0, <4>1, <4>2, TotalStep
    <3>4. Total(h, S) = Total(h, s \ {x}) + Total(h, S \ (s \ {x}))
      BY <1>1
    <3>5. h[x] \in Int /\ Total(h, s \ {x}) \in Int /\ Total(h, S \ s) \in Int
      BY <1>0
    <3> QED  BY <3>2, <3>3, <3>4, <3>5, SMTT(30)
  <2> QED  BY <2>1, <2>2
<1>2. SUBSET S \subseteq B
  <2> HIDE DEF B
  <2> QED  BY <1>1, SubsetClosed, Zenon
<1> QED  BY <1>2

(********************************* the budget *******************************)
\* The budget's inductive invariant: the counter is the sum of what is held,
\* and an exclusive part holds at least the whole budget, alone.
Accounts ==
    /\ held \in [Parts -> Nat]
    /\ exclusive \in Parts \cup {0}
    /\ used = Total(held, Parts)
    /\ used > Limit => exclusive # 0
    /\ exclusive # 0 => /\ held[exclusive] >= Limit
                        /\ \A p \in Parts \ {exclusive} : held[p] = 0

\* The plan is a finite set of positive numbers; the limits are positive.
LEMMA PlanFacts == /\ IsFiniteSet(Parts) /\ 0 \notin Parts /\ Parts \subseteq Nat
                   /\ Limit \in Nat /\ Limit > 0 /\ Step \in Nat /\ Step > 0
                   /\ Encoders \in Nat /\ Encoders > 0
                   /\ Publications \in Nat /\ Publications > 0
<1>1. IsFiniteSet(Parts) /\ Cardinality(Parts) \in Nat
  BY PlanAssumption, FS_CardinalityType
<1> QED  BY <1>1, PlanAssumption, LimitsAssumption

\* What one reservation changes, the sum changes.
LEMMA SumOfChange ==
    ASSUME NEW h \in [Parts -> Nat], NEW p \in Parts, NEW v \in Nat
    PROVE  /\ [h EXCEPT ![p] = v] \in [Parts -> Nat]
           /\ Total([h EXCEPT ![p] = v], Parts) = Total(h, Parts) + (v - h[p])
<1> DEFINE k == [h EXCEPT ![p] = v]
<1>1. k \in [Parts -> Nat] /\ k[p] = v /\ \A x \in Parts \ {p} : k[x] = h[x]
  OBVIOUS
<1> HIDE DEF k
<1>2. IsFiniteSet(Parts) /\ IsFiniteSet(Parts \ {p})
  BY PlanFacts, FS_Subset
<1>3. Total(h, Parts) = h[p] + Total(h, Parts \ {p})
  BY <1>2, TotalStep
<1>4. Total(k, Parts) = v + Total(k, Parts \ {p})
  <2>1. \A x \in Parts : k[x] \in Int
    BY <1>1
  <2> QED  BY <1>1, <1>2, <2>1, TotalStep, Zenon
<1>5. Total(k, Parts \ {p}) = Total(h, Parts \ {p})
  BY <1>1, <1>2, TotalSame, Zenon
<1>6. Total(h, Parts \ {p}) \in Int /\ h[p] \in Nat
  BY <1>2, TotalStep
<1>7. Total(k, Parts) = Total(h, Parts) + (v - h[p])
  BY <1>3, <1>4, <1>5, <1>6
<1> QED  BY <1>1, <1>7 DEF k

\* What is released leaves the sum.
LEMMA SumOfRest ==
    ASSUME NEW h \in [Parts -> Nat], NEW S \in SUBSET Parts
    PROVE  /\ Total([p \in Parts |-> IF p \in S THEN 0 ELSE h[p]], Parts)
                = Total(h, Parts) - Total(h, S)
           /\ Total(h, S) \in Nat
<1> DEFINE k == [p \in Parts |-> IF p \in S THEN 0 ELSE h[p]]
<1>1. /\ k \in [Parts -> Nat]
      /\ \A x \in S : k[x] = 0
      /\ \A x \in Parts \ S : k[x] = h[x]
  OBVIOUS
<1> HIDE DEF k
<1>2. IsFiniteSet(Parts) /\ IsFiniteSet(S) /\ IsFiniteSet(Parts \ S)
  BY PlanFacts, FS_Subset, Zenon
<1>3. Total(h, Parts) = Total(h, S) + Total(h, Parts \ S)
  BY <1>2, TotalSplit
<1>4. Total(k, Parts) = Total(k, S) + Total(k, Parts \ S)
  <2>1. \A x \in Parts : k[x] \in Int
    BY <1>1
  <2> QED  BY <1>2, <2>1, TotalSplit
<1>5. Total(k, S) = 0
  <2>1. \A x \in S : k[x] \in Nat /\ k[x] = 0
    BY <1>1
  <2> QED  BY <1>2, <2>1, TotalNat
<1>6. Total(k, Parts \ S) = Total(h, Parts \ S)
  BY <1>1, <1>2, TotalSame, Zenon
<1>7. Total(h, S) \in Nat /\ Total(h, Parts \ S) \in Nat
  <2>1. \A x \in Parts : h[x] \in Nat
    OBVIOUS
  <2> QED  BY <1>2, <2>1, TotalNat, Zenon
<1>8. Total(k, Parts) = Total(h, Parts) - Total(h, S)
  BY <1>3, <1>4, <1>5, <1>6, <1>7, SMTT(30)
<1> QED  BY <1>7, <1>8, Zenon DEF k

\* Facts of the state: the counter bounds what each part holds.
LEMMA AccountFacts ==
    ASSUME Accounts
    PROVE  /\ used \in Nat
           /\ \A p \in Parts : held[p] \in Nat /\ held[p] <= used
           /\ (\A p \in Parts : held[p] = 0) => used = 0
<1>1. \A p \in Parts : held[p] \in Nat
  BY DEF Accounts
<1> QED  BY <1>1, PlanFacts, TotalNat, Zenon DEF Accounts

\* try_reserve and try_reserve_exclusive, for a part that holds nothing.
LEMMA ReserveKeeps ==
    ASSUME Accounts, NEW p \in Parts, held[p] = 0,
           NEW bytes \in Nat, Reserve(p, bytes) \/ ReserveExclusive(p)
    PROVE  Accounts' /\ \A q \in Parts \ {p} : held'[q] = held[q]
<1>1. CASE Reserve(p, bytes)
  <2>1. /\ held' = [held EXCEPT ![p] = bytes] /\ used' = used + bytes
        /\ exclusive = 0 /\ exclusive' = 0 /\ used + bytes <= Limit
    BY <1>1 DEF Reserve, MayReserve
  <2>2. held' \in [Parts -> Nat] /\ Total(held', Parts) = Total(held, Parts) + (bytes - held[p])
    BY <2>1, SumOfChange, Zenon DEF Accounts
  <2>3. used' = Total(held', Parts)
    BY <2>1, <2>2, AccountFacts DEF Accounts
  <2>4. used' <= Limit
    BY <2>1
  <2>5. \A q \in Parts \ {p} : held'[q] = held[q]
    BY <2>1 DEF Accounts
  <2>6. ~(used' > Limit)
    BY <2>4, <2>1, AccountFacts, PlanFacts
  <2> QED  BY <2>1, <2>2, <2>3, <2>5, <2>6, SMTT(30) DEF Accounts
<1>2. CASE ReserveExclusive(p)
  <2>1. /\ held' = [held EXCEPT ![p] = Limit] /\ used' = Limit
        /\ exclusive' = p /\ used = 0
    BY <1>2 DEF ReserveExclusive, MayReserveExclusive
  <2>2. held' \in [Parts -> Nat] /\ Total(held', Parts) = Total(held, Parts) + (Limit - held[p])
    BY <2>1, SumOfChange, PlanFacts, Zenon DEF Accounts
  <2>3. used' = Total(held', Parts)
    BY <2>1, <2>2, PlanFacts DEF Accounts
  <2>4. \A q \in Parts \ {p} : held'[q] = held[q]
    BY <2>1 DEF Accounts
  <2>5. \A q \in Parts : held[q] = 0
    BY <2>1, AccountFacts
  <2>6. held'[p] = Limit /\ Limit >= Limit /\ p # 0
    BY <2>1, PlanFacts DEF Accounts
  <2> QED  BY <2>1, <2>2, <2>3, <2>4, <2>5, <2>6, Zenon DEF Accounts
<1> QED  BY <1>1, <1>2

\* A reservation is set to another total: it may pass the limit only for the
\* exclusive part, and shrinks only if it is not exclusive.
LEMMA HoldKeeps ==
    ASSUME Accounts, NEW p \in Parts, NEW total \in Nat, Hold(p, total),
           \/ total > held[p] /\ Fits(p, total)
           \/ total < held[p] /\ p # exclusive
    PROVE  Accounts' /\ \A q \in Parts \ {p} : held'[q] = held[q]
<1>1. /\ held' = [held EXCEPT ![p] = total]
      /\ used' = used + (total - held[p]) /\ exclusive' = exclusive
  BY DEF Hold
<1>2. held' \in [Parts -> Nat] /\ Total(held', Parts) = Total(held, Parts) + (total - held[p])
  BY <1>1, SumOfChange, Zenon DEF Accounts
<1>3. used' = Total(held', Parts)
  BY <1>1, <1>2 DEF Accounts
<1>4. held'[p] = total /\ \A q \in Parts \ {p} : held'[q] = held[q]
  BY <1>1 DEF Accounts
<1>5. used \in Nat /\ held[p] \in Nat /\ Limit \in Nat
  BY AccountFacts, PlanFacts
<1>6. used' > Limit => exclusive # 0
  <2>1. CASE p = exclusive
    BY <2>1, PlanFacts, Zenon
  <2>2. CASE p # exclusive
    BY <1>1, <1>5, <2>2 DEF Fits, Accounts
  <2> QED  BY <2>1, <2>2
<1>7. ASSUME exclusive # 0
      PROVE  held'[exclusive] >= Limit /\ \A q \in Parts \ {exclusive} : held'[q] = 0
  <2>1. exclusive \in Parts /\ held[exclusive] \in Nat /\ held[exclusive] >= Limit
        /\ \A q \in Parts \ {exclusive} : held[q] = 0
    BY <1>7 DEF Accounts
  <2>2. CASE p = exclusive
    <3>1. total >= Limit
      BY <1>5, <2>1, <2>2
    <3> QED  BY <1>4, <2>1, <2>2, <3>1, Zenon
  <2>3. CASE p # exclusive
    <3>1. held[p] = 0 /\ used >= Limit
      BY <1>5, <2>1, <2>3, AccountFacts, SMTT(30)
    <3>2. total > 0 /\ used + (total - 0) <= Limit
      BY <2>3, <3>1 DEF Fits
    <3> QED  BY <1>5, <3>1, <3>2
  <2> QED  BY <2>2, <2>3, Zenon
<1> QED  BY <1>1, <1>2, <1>3, <1>4, <1>6, <1>7, Zenon DEF Accounts

\* The larger of two numbers.
LEMMA MaxOfTwo ==
    ASSUME NEW a \in Nat, NEW b \in Nat
    PROVE  Max({a, b}) \in Nat /\ Max({a, b}) >= a
<1>1. \E x \in {a, b} : \A y \in {a, b} : x >= y
  <2>1. CASE a >= b
    BY <2>1
  <2>2. CASE b >= a
    BY <2>2
  <2> QED  BY <2>1, <2>2
<1>2. Max({a, b}) \in {a, b} /\ \A y \in {a, b} : Max({a, b}) >= y
  BY <1>1, Zenon DEF Max
<1> QED  BY <1>2

\* grow_to.
LEMMA GrowKeeps ==
    ASSUME Accounts, NEW p \in Parts, NEW total \in Nat, Grow(p, total)
    PROVE  Accounts' /\ \A q \in Parts \ {p} : held'[q] = held[q]
<1>1. held[p] \in Nat /\ Step \in Nat
  BY AccountFacts, PlanFacts, Zenon
<1>2. Target(p, total) \in Nat /\ Target(p, total) >= total
  BY <1>1, MaxOfTwo DEF Target
<1>3. CASE UNCHANGED budget
  BY <1>3 DEF budget, Accounts
<1>4. CASE total > held[p] /\ Fits(p, Target(p, total)) /\ Hold(p, Target(p, total))
  <2>1. Target(p, total) > held[p]
    BY <1>1, <1>2, <1>4
  <2> QED  BY <1>2, <1>4, <2>1, HoldKeeps, Zenon
<1>5. CASE total > held[p] /\ Fits(p, total) /\ Hold(p, total)
  BY <1>5, HoldKeeps, Zenon
<1> QED  BY <1>3, <1>4, <1>5, Zenon DEF Grow

\* shrink_to.
LEMMA ShrinkKeeps ==
    ASSUME Accounts, NEW p \in Parts, Shrink(p)
    PROVE  Accounts' /\ \A q \in Parts \ {p} : held'[q] = held[q]
<1>1. held[p] \in Nat /\ Size[p] \in Nat
  BY AccountFacts, PlanAssumption, Zenon
<1>2. CASE UNCHANGED budget
  BY <1>2 DEF budget, Accounts
<1>3. CASE p # exclusive /\ ~(Size[p] >= held[p]) /\ Hold(p, Size[p])
  <2>1. Size[p] < held[p]
    BY <1>1, <1>3
  <2> QED  BY <1>1, <1>3, <2>1, HoldKeeps, Zenon
<1> QED  BY <1>2, <1>3, Zenon DEF Shrink

\* Drop of reservations.
LEMMA ReleaseKeeps ==
    ASSUME Accounts, NEW S \in SUBSET Parts, Release(S)
    PROVE  /\ Accounts'
           /\ \A q \in S : held'[q] = 0
           /\ \A q \in Parts \ S : held'[q] = held[q]
<1>1. /\ held' = [p \in Parts |-> IF p \in S THEN 0 ELSE held[p]]
      /\ used' = used - Total(held, S)
      /\ exclusive' = IF exclusive \in S THEN 0 ELSE exclusive
  BY Zenon DEF Release, Total
<1>2. /\ Total(held', Parts) = Total(held, Parts) - Total(held, S)
      /\ Total(held, S) \in Nat
  BY <1>1, SumOfRest, Zenon DEF Accounts
<1>3. used' = Total(held', Parts)
  BY <1>1, <1>2, Zenon DEF Accounts
<1>4. /\ held' \in [Parts -> Nat]
      /\ \A q \in S : held'[q] = 0
      /\ \A q \in Parts \ S : held'[q] = held[q]
  BY <1>1 DEF Accounts
<1>5. exclusive' \in Parts \cup {0}
  BY <1>1 DEF Accounts
<1>6. used' > Limit => exclusive' # 0
  <2> SUFFICES ASSUME used' > Limit, exclusive' = 0 PROVE FALSE
    OBVIOUS
  <2>1. used \in Nat /\ Limit \in Nat /\ used > Limit
    BY <1>1, <1>2, AccountFacts, PlanFacts
  <2>2. exclusive # 0 /\ \A q \in Parts \ {exclusive} : held[q] = 0
    BY <2>1 DEF Accounts
  <2>3. exclusive \in S
    BY <1>1, <2>2, Zenon
  <2>4. \A q \in Parts : held'[q] \in Nat /\ held'[q] = 0
    BY <1>4, <2>2, <2>3, Zenon
  <2>5. Total(held', Parts) = 0
    BY <2>4, PlanFacts, TotalNat, Zenon
  <2> QED  BY <1>3, <2>1, <2>5
<1>7. exclusive' # 0 => /\ held'[exclusive'] >= Limit
                        /\ \A q \in Parts \ {exclusive'} : held'[q] = 0
  <2> SUFFICES ASSUME exclusive' # 0
               PROVE  /\ held'[exclusive'] >= Limit
                      /\ \A q \in Parts \ {exclusive'} : held'[q] = 0
    OBVIOUS
  <2>1. exclusive' = exclusive /\ exclusive \in Parts \ S
    BY <1>1 DEF Accounts
  <2> QED  BY <1>4, <2>1 DEF Accounts
<1> QED  BY <1>3, <1>4, <1>5, <1>6, <1>7, Zenon DEF Accounts

(****************************** the flush's state ***************************)
\* The stages in which a part may hold a reservation, in which a failure is
\* not yet handled, and all of them.
Holding == {"encoding", "encoded", "staging", "stage_done", "receipts",
            "recording", "recorded", "record_failed", "publishable",
            "publishing"}
Failing == {"encode_failed", "stage_failed", "record_failed", "publish_failed"}
Stages == {"queued", "dropped", "done"} \cup Running \cup Finished \cup Waiting

PipelineTypes ==
    /\ turn \in {"encoders", "receipts", "publications", "await"}
    /\ queue \in Seq([part : Parts, exclusive : BOOLEAN])
    /\ stage \in [Parts -> Stages]
    /\ written \in [Parts -> Nat]
    /\ published \subseteq Parts
    /\ failed \in BOOLEAN /\ lane \in BOOLEAN
    /\ faults \in Nat

\* Only a part whose work is under way holds a reservation.
HoldersWork == \A p \in Parts : stage[p] \notin Holding => held[p] = 0

\* The queue names each part that waits for an encoder, once, and no other;
\* after a failure it may name fewer.
QueueExact ==
    /\ \A i \in 1..Len(queue) : stage[queue[i].part] = "queued"
    /\ \A i, j \in 1..Len(queue) : queue[i].part = queue[j].part => i = j
    /\ ~failed => \A p \in Parts : stage[p] = "queued" =>
                      \E i \in 1..Len(queue) : queue[i].part = p

\* A failure is known by its fault; it stops the coordinator's admissions and
\* leaves no part waiting for one, and without it no part is dropped.
FailureKnown ==
    /\ failed => turn = "await" /\ In(Waiting) = {} /\ faults > 0
    /\ In(Failing) # {} => faults > 0
    /\ ~failed => In({"dropped"}) = {}

\* A part is done only with its file at the final name.
Delivered == \A p \in Parts : stage[p] \in {"publish_done", "done"} => p \in published

\* Past each admission something keeps what could not be admitted company: a
\* queued part stays only while other parts are under way, a receipt only
\* while a write is, a publishable part only while publications are.
Driven ==
    ~failed =>
      /\ turn # "encoders" /\ queue # <<>> => In(Running \cup Finished \cup Waiting) # {}
      /\ turn \in {"publications", "await"} /\ In({"receipts"}) # {} => Recording # {}
      /\ turn = "await" /\ In({"publishable"}) # {} => Publishing # {}

PipelineInv ==
    /\ PipelineTypes /\ Accounts /\ HoldersWork /\ QueueExact /\ FailureKnown
    /\ Delivered /\ Driven /\ DrainedBeforeReturn

\* The stages that finished work moves to.
Moves == {<<"encoding", "refused">>, <<"encoding", "encoded">>,
          <<"encoding", "encode_failed">>, <<"staging", "stage_done">>,
          <<"staging", "stage_failed">>, <<"recording", "recorded">>,
          <<"recording", "record_failed">>, <<"publishing", "publish_done">>,
          <<"publishing", "publish_failed">>}

\* What a step of the work changes for the coordinator.
WorkMoves ==
    /\ UNCHANGED <<turn, queue, failed, result, lane>>
    /\ faults' \in Nat /\ faults' >= faults
    /\ published \subseteq published' /\ published' \subseteq Parts
    /\ written' \in [Parts -> Nat]
    /\ In(Running) # {}
    /\ stage' \in [Parts -> Stages]
    /\ \A q \in Parts : \/ stage'[q] = stage[q]
                        \/ /\ <<stage[q], stage'[q]>> \in Moves
                           /\ stage'[q] \in Failing => faults' > 0
                           /\ stage'[q] = "publish_done" => q \in published'

\* One part's stage changes.
LEMMA StageChange ==
    ASSUME stage \in [Parts -> Stages], NEW p \in Parts, NEW s \in Stages,
           stage' = [stage EXCEPT ![p] = s]
    PROVE  /\ stage' \in [Parts -> Stages]
           /\ stage'[p] = s
           /\ \A q \in Parts \ {p} : stage'[q] = stage[q]
<1> HIDE DEF Stages
<1> QED  BY Zenon

\* A work step moves finished work only.
LEMMA WorkIsMoves ==
    ASSUME PipelineInv, Record \/ \E p \in Parts : Work(p)
    PROVE  WorkMoves
<1>0. /\ stage \in [Parts -> Stages] /\ faults \in Nat /\ published \subseteq Parts
      /\ written \in [Parts -> Nat]
  BY DEF PipelineInv, PipelineTypes
<1>1. CASE Record
  <2>1. PICK lands \in BOOLEAN, ok \in BOOLEAN : RecordEnds(lands, ok)
    BY <1>1, Zenon DEF Record
  <2>2. /\ UNCHANGED <<turn, queue, failed, result, lane, written, published>>
        /\ faults' = IF ok THEN faults ELSE faults + 1
        /\ stage' = [p \in Parts |->
                        IF stage[p] # "recording" THEN stage[p]
                        ELSE IF ok THEN "recorded" ELSE "record_failed"]
    BY <2>1, Zenon DEF RecordEnds, outside
  <2>3. In(Running) # {}
    BY <2>1, Zenon DEF RecordEnds, In, Running
  <2>4. stage' \in [Parts -> Stages]
    BY <1>0, <2>2, Zenon DEF Stages, Finished
  <2>5. faults' \in Nat /\ faults' >= faults /\ (~ok => faults' > 0)
    BY <1>0, <2>2
  <2>6. \A q \in Parts : \/ stage'[q] = stage[q]
                         \/ /\ <<stage[q], stage'[q]>> \in Moves
                            /\ stage'[q] \in Failing => faults' > 0
                            /\ stage'[q] = "publish_done" => q \in published'
    BY <2>2, <2>5, Zenon DEF Moves, Failing
  <2> QED  BY <1>0, <2>2, <2>3, <2>4, <2>5, <2>6, Zenon DEF WorkMoves
<1>2. ASSUME NEW p \in Parts, Work(p) PROVE WorkMoves
  <2>1. In(Running) # {}
    BY <1>2, Zenon DEF Work, EncoderWrites, EncoderRefused, EncoderFinishes, EncoderFails,
          StageEnds, PublishEnds, In, Running
  <2>2. CASE EncoderWrites(p)
    <3>1. /\ UNCHANGED <<turn, queue, failed, result, lane, published, faults, stage>>
          /\ written' = [written EXCEPT ![p] = @ + 1]
      BY <2>2, Zenon DEF EncoderWrites, outside
    <3>2. written' \in [Parts -> Nat]
      BY <1>0, <3>1
    <3>3. faults' >= faults
      BY <1>0, <3>1
    <3> QED  BY <1>0, <2>1, <3>1, <3>2, <3>3, Zenon DEF WorkMoves
  <2>3. ASSUME NEW s \in Finished, stage' = [stage EXCEPT ![p] = s],
               <<stage[p], s>> \in Moves,
               s \in Failing => faults' > 0,
               s = "publish_done" => p \in published',
               faults' \in Nat /\ faults' >= faults,
               published \subseteq published' /\ published' \subseteq Parts,
               UNCHANGED <<turn, queue, failed, result, lane, written>>
        PROVE  WorkMoves
    <3>1. s \in Stages
      BY <2>3 DEF Stages
    <3>2. /\ stage' \in [Parts -> Stages] /\ stage'[p] = s
          /\ \A q \in Parts \ {p} : stage'[q] = stage[q]
      BY <1>0, <2>3, <3>1, StageChange, Zenon
    <3>3. ASSUME NEW q \in Parts
          PROVE  \/ stage'[q] = stage[q]
                 \/ /\ <<stage[q], stage'[q]>> \in Moves
                    /\ stage'[q] \in Failing => faults' > 0
                    /\ stage'[q] = "publish_done" => q \in published'
      BY <2>3, <3>2, Zenon
    <3> QED  BY <1>0, <2>1, <2>3, <3>2, <3>3, Zenon DEF WorkMoves
  <2>4. CASE EncoderRefused(p) \/ EncoderFinishes(p)
    <3>1. /\ UNCHANGED <<turn, queue, failed, result, lane, published, faults, written>>
          /\ stage[p] = "encoding"
          /\ \E s \in {"refused", "encoded"} : stage' = [stage EXCEPT ![p] = s]
      BY <2>4 DEF EncoderRefused, EncoderFinishes, outside
    <3>2. faults' >= faults
      BY <1>0, <3>1
    <3> QED  BY <1>0, <3>1, <3>2, <2>3, Zenon DEF Moves, Failing, Finished
  <2>5. CASE EncoderFails(p)
    <3>1. /\ UNCHANGED <<turn, queue, failed, result, lane, published, written>>
          /\ stage[p] = "encoding" /\ faults' = faults + 1
          /\ stage' = [stage EXCEPT ![p] = "encode_failed"]
      BY <2>5 DEF EncoderFails, outside
    <3>2. faults' \in Nat /\ faults' >= faults /\ faults' > 0
      BY <1>0, <3>1
    <3> QED  BY <1>0, <3>1, <3>2, <2>3, Zenon DEF Moves, Failing, Finished
  <2>6. CASE \E ok \in BOOLEAN : StageEnds(p, ok)
    <3>1. PICK ok \in BOOLEAN : StageEnds(p, ok)
      BY <2>6
    <3>2. /\ UNCHANGED <<turn, queue, failed, result, lane, published, written>>
          /\ stage[p] = "staging"
          /\ faults' = IF ok THEN faults ELSE faults + 1
          /\ stage' = [stage EXCEPT ![p] = IF ok THEN "stage_done" ELSE "stage_failed"]
      BY <3>1 DEF StageEnds, outside
    <3>3. faults' \in Nat /\ faults' >= faults /\ (~ok => faults' > 0)
      BY <1>0, <3>2
    <3> QED  BY <1>0, <3>2, <3>3, <2>3, Zenon DEF Moves, Failing, Finished
  <2>7. CASE \E lands, ok \in BOOLEAN : PublishEnds(p, lands, ok)
    <3>1. PICK lands \in BOOLEAN, ok \in BOOLEAN : PublishEnds(p, lands, ok)
      BY <2>7
    <3>2. /\ UNCHANGED <<turn, queue, failed, result, lane, written>>
          /\ stage[p] = "publishing" /\ (ok => lands)
          /\ faults' = IF ok THEN faults ELSE faults + 1
          /\ published' = IF lands THEN published \cup {p} ELSE published
          /\ stage' = [stage EXCEPT ![p] = IF ok THEN "publish_done" ELSE "publish_failed"]
      BY <3>1 DEF PublishEnds, outside
    <3>3. faults' \in Nat /\ faults' >= faults /\ (~ok => faults' > 0)
      BY <1>0, <3>2
    <3>4. /\ published \subseteq published' /\ published' \subseteq Parts
          /\ ok => p \in published'
      BY <1>0, <3>2, Zenon
    <3> QED  BY <1>0, <3>2, <3>3, <3>4, <2>3, Zenon DEF Moves, Failing, Finished
  <2> QED  BY <1>2, <2>2, <2>4, <2>5, <2>6, <2>7, Zenon DEF Work
<1> QED  BY <1>1, <1>2, Zenon

\* Finished work stays where the coordinator counts it.
LEMMA PlacesKept ==
    ASSUME WorkMoves, NEW q \in Parts
    PROVE  /\ \A s \in {"queued", "dropped", "done", "receipts", "publishable"} :
                stage'[q] = s <=> stage[q] = s
           /\ stage'[q] \in Running \cup Finished <=> stage[q] \in Running \cup Finished
           /\ stage'[q] \in {"recording", "recorded", "record_failed"}
                <=> stage[q] \in {"recording", "recorded", "record_failed"}
           /\ stage'[q] \in {"publishing", "publish_done", "publish_failed"}
                <=> stage[q] \in {"publishing", "publish_done", "publish_failed"}
<1>1. stage'[q] = stage[q] \/ <<stage[q], stage'[q]>> \in Moves
  BY DEF WorkMoves
<1> QED  BY <1>1 DEF Moves, Running, Finished

\* A work step keeps the coordinator's invariants.
LEMMA WorkKeepsControl ==
    ASSUME PipelineInv, WorkMoves
    PROVE  /\ PipelineTypes' /\ QueueExact' /\ FailureKnown' /\ Delivered'
           /\ Driven' /\ DrainedBeforeReturn'
<1>1. PipelineTypes'
  BY DEF PipelineInv, PipelineTypes, WorkMoves
<1>2. \A q \in Parts : /\ stage'[q] = "queued" <=> stage[q] = "queued"
                       /\ stage'[q] = "dropped" <=> stage[q] = "dropped"
                       /\ stage'[q] = "receipts" <=> stage[q] = "receipts"
                       /\ stage'[q] = "publishable" <=> stage[q] = "publishable"
                       /\ stage'[q] = "done" <=> stage[q] = "done"
  BY PlacesKept, Zenon
<1>3. QueueExact'
  <2>1. \A i \in 1..Len(queue) : queue[i].part \in Parts
    <3> DEFINE E == [part : Parts, exclusive : BOOLEAN]
    <3>1. queue \in Seq(E)
      BY DEF PipelineInv, PipelineTypes
    <3>2. \A e \in E : e.part \in Parts
      OBVIOUS
    <3>3. \A i \in 1..Len(queue) : queue[i] \in E
      <4> HIDE DEF E
      <4> QED  BY <3>1
    <3> HIDE DEF E
    <3> QED  BY <3>2, <3>3, Zenon
  <2>2. queue' = queue /\ failed' = failed
    BY DEF WorkMoves
  <2>3. QueueExact
    BY DEF PipelineInv
  <2>4. Len(queue') = Len(queue)
    BY <2>2, Zenon
  <2> QED  BY <1>2, <2>1, <2>2, <2>3, <2>4, Zenon DEF QueueExact
<1>4. FailureKnown'
  <2>1. failed' = failed /\ turn' = turn /\ faults \in Nat /\ faults' \in Nat /\ faults' >= faults
    BY DEF WorkMoves, PipelineInv, PipelineTypes
  <2>2. In(Waiting)' = In(Waiting) /\ In({"dropped"})' = In({"dropped"})
    BY <1>2, Zenon DEF In, Waiting
  <2>3. In(Failing)' # {} => faults' > 0
    <3> SUFFICES ASSUME NEW q \in Parts, stage'[q] \in Failing PROVE faults' > 0
      BY DEF In
    <3>1. CASE stage'[q] = stage[q]
      <4>1. In(Failing) # {}
        BY <3>1 DEF In
      <4>2. faults > 0
        BY <4>1 DEF PipelineInv, FailureKnown
      <4> QED  BY <2>1, <4>2
    <3>2. CASE stage'[q] # stage[q]
      BY <3>2, Zenon DEF WorkMoves
    <3> QED  BY <3>1, <3>2, Zenon
  <2>4. FailureKnown
    BY DEF PipelineInv
  <2>5. faults > 0 => faults' > 0
    BY <2>1
  <2> QED  BY <2>1, <2>2, <2>3, <2>4, <2>5, Zenon DEF FailureKnown
<1>5. Delivered'
  <2> SUFFICES ASSUME NEW q \in Parts, stage'[q] \in {"publish_done", "done"}
               PROVE  q \in published'
    BY DEF Delivered
  <2>1. CASE stage'[q] = stage[q]
    BY <2>1 DEF PipelineInv, Delivered, WorkMoves
  <2>2. CASE stage'[q] # stage[q]
    BY <1>2, <2>2, Zenon DEF WorkMoves
  <2> QED  BY <2>1, <2>2
<1>6. Driven'
  <2>1. failed' = failed /\ turn' = turn /\ queue' = queue
    BY DEF WorkMoves
  <2>2. In(Running \cup Finished \cup Waiting)' = In(Running \cup Finished \cup Waiting)
    <3>1. \A q \in Parts : stage'[q] \in Waiting <=> stage[q] \in Waiting
      BY <1>2 DEF Waiting
    <3>2. \A q \in Parts : stage'[q] \in Running \cup Finished
                             <=> stage[q] \in Running \cup Finished
      BY PlacesKept, Zenon
    <3> QED  BY <3>1, <3>2, Zenon DEF In
  <2>3. In({"receipts"})' = In({"receipts"}) /\ In({"publishable"})' = In({"publishable"})
    BY <1>2 DEF In
  <2>4. Recording' = Recording
    <3>1. \A q \in Parts : stage'[q] \in {"recording", "recorded", "record_failed"}
                <=> stage[q] \in {"recording", "recorded", "record_failed"}
      BY PlacesKept, Zenon
    <3> QED  BY <3>1, Zenon DEF Recording, In
  <2>5. Publishing' = Publishing
    <3>1. \A q \in Parts : stage'[q] \in {"publishing", "publish_done", "publish_failed"}
                <=> stage[q] \in {"publishing", "publish_done", "publish_failed"}
      BY PlacesKept, Zenon
    <3> QED  BY <3>1, Zenon DEF Publishing, In
  <2>6. Driven
    BY DEF PipelineInv
  <2> QED  BY <2>1, <2>2, <2>3, <2>4, <2>5, <2>6, Zenon DEF Driven
<1>7. DrainedBeforeReturn'
  <2>1. In(Running \cup Finished) # {}
    BY DEF WorkMoves, In
  <2>2. result' = "running"
    BY <2>1, Zenon DEF PipelineInv, DrainedBeforeReturn, WorkMoves
  <2> QED  BY <2>2 DEF DrainedBeforeReturn
<1> QED  BY <1>1, <1>3, <1>4, <1>5, <1>6, <1>7, Zenon

\* A work step keeps the accounts: it holds more only while it encodes, and
\* the stages it leaves for hold nothing, or what they held.
LEMMA WorkKeepsAccounts ==
    ASSUME PipelineInv, Record \/ \E p \in Parts : Work(p)
    PROVE  Accounts' /\ HoldersWork'
<1>0. Accounts /\ HoldersWork /\ stage \in [Parts -> Stages]
      /\ written \in [Parts -> Nat]
  BY DEF PipelineInv, PipelineTypes
<1>1. CASE Record
  <2>1. PICK lands \in BOOLEAN, ok \in BOOLEAN : RecordEnds(lands, ok)
    BY <1>1 DEF Record
  <2>2. /\ UNCHANGED <<held, exclusive, used>>
        /\ stage' = [p \in Parts |->
                        IF stage[p] # "recording" THEN stage[p]
                        ELSE IF ok THEN "recorded" ELSE "record_failed"]
    BY <2>1 DEF RecordEnds, budget
  <2>3. HoldersWork'
    BY <1>0, <2>2, Zenon DEF HoldersWork, Holding
  <2> QED  BY <1>0, <2>2, <2>3 DEF Accounts
<1>2. ASSUME NEW p \in Parts, Work(p) PROVE Accounts' /\ HoldersWork'
  <2>1. CASE EncoderWrites(p)
    <3>1. /\ Grow(p, written[p] + 1) /\ stage' = stage /\ stage[p] = "encoding"
          /\ written[p] + 1 \in Nat
      BY <1>0, <2>1 DEF EncoderWrites
    <3>2. Accounts' /\ \A q \in Parts \ {p} : held'[q] = held[q]
      BY <1>0, <3>1, GrowKeeps, Zenon
    <3> QED  BY <1>0, <3>1, <3>2, Zenon DEF HoldersWork, Holding
  <2>2. CASE EncoderFinishes(p)
    <3>1. /\ Shrink(p) /\ stage[p] = "encoding"
          /\ stage' = [stage EXCEPT ![p] = "encoded"]
      BY <2>2, Zenon DEF EncoderFinishes
    <3>2. Accounts' /\ \A q \in Parts \ {p} : held'[q] = held[q]
      BY <1>0, <3>1, ShrinkKeeps, Zenon
    <3> QED  BY <1>0, <3>1, <3>2, Zenon DEF HoldersWork, Holding
  <2>3. ASSUME NEW s, stage' = [stage EXCEPT ![p] = s], Release({p})
        PROVE  Accounts' /\ HoldersWork'
    <3>1. /\ Accounts' /\ held'[p] = 0
          /\ \A q \in Parts \ {p} : held'[q] = held[q]
      BY <1>0, <2>3, ReleaseKeeps, Zenon
    <3>2. \A q \in Parts \ {p} : stage'[q] = stage[q]
      BY <1>0, <2>3, Zenon
    <3> QED  BY <1>0, <3>1, <3>2, Zenon DEF HoldersWork
  <2>4. CASE EncoderRefused(p) \/ EncoderFails(p)
    BY <2>3, <2>4, Zenon DEF EncoderRefused, EncoderFails
  <2>5. CASE \E ok \in BOOLEAN : StageEnds(p, ok)
    <3>1. PICK ok \in BOOLEAN : StageEnds(p, ok)
      BY <2>5
    <3>2. CASE ok
      <4>1. UNCHANGED <<held, exclusive, used>> /\ stage[p] = "staging"
            /\ stage' = [stage EXCEPT ![p] = "stage_done"]
        BY <3>1, <3>2 DEF StageEnds, budget
      <4> QED  BY <1>0, <4>1, Zenon DEF HoldersWork, Holding, Accounts
    <3>3. CASE ~ok
      BY <2>3, <3>1, <3>3, Zenon DEF StageEnds
    <3> QED  BY <3>2, <3>3, Zenon
  <2>6. CASE \E lands, ok \in BOOLEAN : PublishEnds(p, lands, ok)
    BY <2>3, <2>6, Zenon DEF PublishEnds
  <2> QED  BY <1>2, <2>1, <2>2, <2>4, <2>5, <2>6, Zenon DEF Work
<1> QED  BY <1>1, <1>2

\* An entry of the queue.
Item == [part : Parts, exclusive : BOOLEAN]

\* The facts of the invariant that the steps below use.
LEMMA InvFacts ==
    ASSUME PipelineInv
    PROVE  /\ stage \in [Parts -> Stages] /\ queue \in Seq(Item)
           /\ written \in [Parts -> Nat] /\ faults \in Nat
           /\ turn \in {"encoders", "receipts", "publications", "await"}
           /\ failed \in BOOLEAN /\ lane \in BOOLEAN /\ published \subseteq Parts
           /\ \A i \in 1..Len(queue) : queue[i] \in Item /\ queue[i].part \in Parts
           /\ turn # "await" => ~failed
<1>1. /\ stage \in [Parts -> Stages] /\ queue \in Seq(Item)
      /\ written \in [Parts -> Nat] /\ faults \in Nat
      /\ turn \in {"encoders", "receipts", "publications", "await"}
      /\ failed \in BOOLEAN /\ lane \in BOOLEAN /\ published \subseteq Parts
  BY DEF PipelineInv, PipelineTypes, Item
<1>2. \A e \in Item : e.part \in Parts
  BY DEF Item
<1>3. \A i \in 1..Len(queue) : queue[i] \in Item
  BY <1>1
<1>4. turn # "await" => ~failed
  BY DEF PipelineInv, FailureKnown
<1> QED  BY <1>1, <1>2, <1>3, <1>4, SMTT(30)

\* The outcome Ok of an event: the parts of S, all past their queue and with
\* finished work, move on or are dropped.
LEMMA PassKeeps ==
    ASSUME PipelineInv, NEW S \in SUBSET Parts,
           NEW next \in {"staging", "receipts", "publishable", "done"},
           Pass(S, next),
           \A p \in S : stage[p] \in Finished,
           next = "done" => S \subseteq published,
           turn = "await", result = "running",
           UNCHANGED <<written, outside, faults>>
    PROVE  PipelineInv'
<1>0. /\ stage' = [p \in Parts |-> IF p \notin S THEN stage[p]
                                   ELSE IF failed THEN "dropped" ELSE next]
      /\ turn' = IF failed THEN turn ELSE "encoders"
      /\ queue' = queue /\ failed' = failed /\ result' = "running"
      /\ written' = written /\ faults' = faults /\ published' = published /\ lane' = lane
  BY DEF Pass, outside
<1> DEFINE new == IF failed THEN "dropped" ELSE next
<1>1. /\ \A p \in Parts \ S : stage'[p] = stage[p]
      /\ \A p \in S : stage'[p] = new
  BY <1>0, Zenon
<1>2. new \in Stages /\ new \notin Failing /\ new # "queued" /\ new # "publish_done"
      /\ (failed => new \notin Waiting) /\ (~failed => new # "dropped")
  BY DEF Stages, Running, Waiting, Failing
<1>2a. new \notin Holding => failed \/ next = "done"
  BY DEF Holding
<1>2b. new = "done" => S \subseteq published
  BY Zenon
<1>3. PipelineTypes'
  <2>1. stage' \in [Parts -> Stages]
    <3> HIDE DEF new
    <3>1. stage' = [p \in Parts |-> IF p \notin S THEN stage[p] ELSE new]
      BY <1>0, Zenon DEF new
    <3>2. \A p \in Parts : stage[p] \in Stages
      BY InvFacts, Zenon
    <3> HIDE DEF Stages
    <3> QED  BY <1>2, <3>1, <3>2, Zenon
  <2>2. turn' \in {"encoders", "receipts", "publications", "await"}
    BY <1>0, InvFacts, Zenon
  <2> QED  BY <1>0, <2>1, <2>2 DEF PipelineInv, PipelineTypes
<1> HIDE DEF new
<1>4. Accounts' /\ HoldersWork'
  <2>0. Accounts /\ HoldersWork
    BY DEF PipelineInv
  <2>1. CASE failed \/ next = "done"
    <3>1. Release(S)
      BY <2>1, Zenon DEF Pass
    <3>2. /\ Accounts'
          /\ \A q \in S : held'[q] = 0
          /\ \A q \in Parts \ S : held'[q] = held[q]
      BY <2>0, <3>1, ReleaseKeeps
    <3>3. HoldersWork'
      BY <1>1, <2>0, <3>2, Zenon DEF HoldersWork
    <3> QED  BY <3>2, <3>3, Zenon
  <2>2. CASE ~(failed \/ next = "done")
    <3>1. UNCHANGED <<held, exclusive, used>>
      BY <2>2 DEF Pass, budget
    <3>2. HoldersWork'
      BY <1>1, <1>2a, <2>0, <2>2, <3>1, Zenon DEF HoldersWork
    <3> QED  BY <2>0, <3>1, <3>2 DEF Accounts
  <2> QED  BY <2>1, <2>2, Zenon
<1>5. QueueExact'
  <2>1. \A p \in Parts : stage'[p] = "queued" <=> stage[p] = "queued"
    <3>1. \A p \in S : stage[p] # "queued"
      BY DEF Finished
    <3> QED  BY <1>1, <1>2, <3>1, Zenon
  <2>2. QueueExact
    BY DEF PipelineInv
  <2>3. Len(queue') = Len(queue)
    BY <1>0
  <2> QED  BY <1>0, <2>1, <2>2, <2>3, InvFacts, Zenon DEF QueueExact
<1>6. FailureKnown'
  <2>0. FailureKnown
    BY DEF PipelineInv
  <2>1. failed => turn' = "await" /\ In(Waiting)' = {} /\ faults' > 0
    BY <1>0, <1>1, <1>2, <2>0, Zenon DEF FailureKnown, In
  <2>2. In(Failing)' # {} => faults' > 0
    BY <1>0, <1>1, <1>2, <2>0, Zenon DEF FailureKnown, In
  <2>3. ~failed => In({"dropped"})' = {}
    BY <1>0, <1>1, <1>2, <2>0, Zenon DEF FailureKnown, In
  <2> QED  BY <1>0, <2>1, <2>2, <2>3, Zenon DEF FailureKnown
<1>7. Delivered'
  BY <1>0, <1>1, <1>2, <1>2b, Zenon DEF Delivered, PipelineInv
<1>8. Driven' /\ DrainedBeforeReturn'
  BY <1>0, Zenon DEF Driven, DrainedBeforeReturn
<1> QED  BY <1>3, <1>4, <1>5, <1>6, <1>7, <1>8, Zenon DEF PipelineInv

\* The outcome is an error: the parts of S and those that wait are dropped
\* with what they hold.
LEMMA FailKeeps ==
    ASSUME PipelineInv, NEW S \in SUBSET Parts, Fail(S),
           \A p \in S : stage[p] \in Finished,
           turn = "await", result = "running",
           UNCHANGED <<written, outside>>,
           faults' \in Nat, faults' > 0
    PROVE  PipelineInv'
<1>0. /\ stage' = [p \in Parts |-> IF p \in S \/ stage[p] \in Waiting
                                   THEN "dropped" ELSE stage[p]]
      /\ turn' = "await" /\ failed' = TRUE /\ result' = "running"
      /\ queue' = IF failed THEN queue ELSE <<>>
      /\ written' = written /\ published' = published /\ lane' = lane
      /\ Release(S \cup In(Waiting))
  BY DEF Fail, outside
<1> DEFINE D == S \cup In(Waiting)
<1>1. /\ D \in SUBSET Parts
      /\ \A p \in D : stage'[p] = "dropped"
      /\ \A p \in Parts \ D : stage'[p] = stage[p]
      /\ \A p \in D : stage[p] \in Finished \cup Waiting
      /\ In(Waiting) \subseteq D
  BY <1>0, Zenon DEF In
<1> HIDE DEF D
<1>2. PipelineTypes'
  <2>1. stage' \in [Parts -> Stages]
    <3>1. \A p \in Parts : stage[p] \in Stages /\ "dropped" \in Stages
      BY InvFacts, Zenon DEF Stages
    <3> HIDE DEF Stages
    <3> QED  BY <1>0, <3>1, Zenon
  <2>2. queue' \in Seq(Item)
    BY <1>0, InvFacts
  <2> QED  BY <1>0, <2>1, <2>2 DEF PipelineInv, PipelineTypes, Item
<1>3. Accounts' /\ HoldersWork'
  <2>0. Accounts /\ HoldersWork /\ Release(D)
    BY <1>0, Zenon DEF PipelineInv, D
  <2>1. /\ Accounts'
        /\ \A q \in D : held'[q] = 0
        /\ \A q \in Parts \ D : held'[q] = held[q]
    BY <1>1, <2>0, ReleaseKeeps
  <2>2. HoldersWork'
    BY <1>1, <2>0, <2>1, Zenon DEF HoldersWork
  <2> QED  BY <2>1, <2>2, Zenon
<1>4. QueueExact'
  <2>1. CASE failed
    <3>1. queue' = queue /\ Len(queue') = Len(queue)
      BY <1>0, <2>1
    <3>2. \A p \in Parts : stage[p] = "queued" => stage'[p] = "queued"
      <4>1. "queued" \notin Finished \cup Waiting
        BY DEF Finished, Waiting
      <4> QED  BY <1>1, <4>1, Zenon
    <3>3. QueueExact
      BY DEF PipelineInv
    <3> QED  BY <1>0, <3>1, <3>2, <3>3, InvFacts, Zenon DEF QueueExact
  <2>2. CASE ~failed
    <3>1. queue' = <<>> /\ Len(queue') = 0
      BY <1>0, <2>2, Zenon
    <3>2. 1..Len(queue') = {}
      BY <3>1
    <3> QED  BY <1>0, <3>2, Zenon DEF QueueExact
  <2> QED  BY <2>1, <2>2
<1>5. FailureKnown'
  <2>1. In(Waiting)' = {}
    <3>1. "dropped" \notin Waiting
      BY DEF Waiting
    <3> QED  BY <1>0, <3>1, Zenon DEF In
  <2> QED  BY <1>0, <2>1 DEF FailureKnown
<1>6. Delivered'
  BY <1>0, <1>1, Zenon DEF Delivered, PipelineInv
<1>7. Driven' /\ DrainedBeforeReturn'
  BY <1>0, Zenon DEF Driven, DrainedBeforeReturn
<1> QED  BY <1>2, <1>3, <1>4, <1>5, <1>6, <1>7, Zenon DEF PipelineInv

\* A refused part returns to the front of the queue.
LEMMA RequeueKeeps ==
    ASSUME PipelineInv, NEW p \in Parts, stage[p] = "refused",
           turn = "await", result = "running",
           queue' = Requeue(p), stage' = [stage EXCEPT ![p] = "queued"],
           turn' = IF failed THEN turn ELSE "encoders",
           UNCHANGED <<budget, failed, result, faults, written, outside>>
    PROVE  PipelineInv'
<1> DEFINE e == [part |-> p, exclusive |-> TRUE]
<1>1. e \in Item /\ e.part = p
  BY Zenon DEF Item
<1>2. /\ stage' \in [Parts -> Stages] /\ stage'[p] = "queued"
      /\ \A q \in Parts \ {p} : stage'[q] = stage[q]
  <2>1. "queued" \in Stages
    BY DEF Stages
  <2> QED  BY <2>1, InvFacts, StageChange, Zenon
<1>3. /\ UNCHANGED <<held, exclusive, used, failed, result, faults, written,
                     published, lane>>
  BY Zenon DEF budget, outside
<1>4. /\ queue' \in Seq(Item) /\ Len(queue') = Len(queue) + 1
      /\ queue'[1] = e /\ Len(queue) \in Nat
      /\ \A i \in 1..Len(queue) : queue'[i + 1] = queue[i]
      /\ \A i \in 1..Len(queue') : i = 1 \/ (i - 1 \in 1..Len(queue) /\ queue'[i] = queue[i - 1])
  <2>1. queue' = <<e>> \o queue
    BY Zenon DEF Requeue
  <2>2. queue \in Seq(Item)
    BY InvFacts, Zenon
  <2> HIDE DEF e, Item
  <2> QED  BY <1>1, <2>1, <2>2
<1> HIDE DEF e
<1>5. PipelineTypes'
  <2>1. turn' \in {"encoders", "receipts", "publications", "await"}
    BY InvFacts, Zenon
  <2> QED  BY <1>2, <1>3, <1>4, <2>1, Zenon DEF PipelineInv, PipelineTypes, Item
<1>6. Accounts' /\ HoldersWork'
  BY <1>2, <1>3 DEF PipelineInv, Accounts, HoldersWork, Holding
<1>7. QueueExact'
  <2>0. /\ \A i \in 1..Len(queue) : stage[queue[i].part] = "queued"
        /\ \A i, j \in 1..Len(queue) : queue[i].part = queue[j].part => i = j
        /\ \A i \in 1..Len(queue) : queue[i].part \in Parts \ {p}
        /\ ~failed => \A q \in Parts : stage[q] = "queued" =>
                          \E i \in 1..Len(queue) : queue[i].part = q
    BY InvFacts, Zenon DEF PipelineInv, QueueExact
  <2>1. ASSUME NEW i \in 1..Len(queue') PROVE stage'[queue'[i].part] = "queued"
    <3>1. CASE i = 1
      BY <1>1, <1>2, <1>4, <3>1, ZenonT(30)
    <3>2. CASE i # 1
      <4>1. i - 1 \in 1..Len(queue) /\ queue'[i] = queue[i - 1]
        BY <1>4, <3>2, Zenon
      <4>2. stage[queue[i - 1].part] = "queued" /\ queue[i - 1].part \in Parts \ {p}
        BY <2>0, <4>1, Zenon
      <4> QED  BY <1>2, <4>1, <4>2
    <3> QED  BY <3>1, <3>2, Zenon
  <2>2. ASSUME NEW i \in 1..Len(queue'), NEW j \in 1..Len(queue'),
               queue'[i].part = queue'[j].part
        PROVE  i = j
    <3>1. CASE i = 1 /\ j = 1
      BY <3>1, Zenon
    <3>2. CASE i = 1 /\ j # 1
      <4>1. j - 1 \in 1..Len(queue) /\ queue'[j] = queue[j - 1]
        BY <1>4, <3>2, Zenon
      <4>2. queue[j - 1].part # p
        BY <2>0, <4>1, Zenon
      <4>3. queue'[i].part = p
        BY <1>1, <1>4, <3>2, Zenon
      <4> QED  BY <2>2, <4>1, <4>2, <4>3, SMTT(30)
    <3>3. CASE i # 1 /\ j = 1
      <4>1. i - 1 \in 1..Len(queue) /\ queue'[i] = queue[i - 1]
        BY <1>4, <3>3, Zenon
      <4>2. queue[i - 1].part # p
        BY <2>0, <4>1, Zenon
      <4>3. queue'[j].part = p
        BY <1>1, <1>4, <3>3, Zenon
      <4> QED  BY <2>2, <4>1, <4>2, <4>3, SMTT(30)
    <3>4. CASE i # 1 /\ j # 1
      <4>1. /\ i - 1 \in 1..Len(queue) /\ queue'[i] = queue[i - 1]
            /\ j - 1 \in 1..Len(queue) /\ queue'[j] = queue[j - 1]
        BY <1>4, <3>4, Zenon
      <4>2. queue[i - 1].part = queue[j - 1].part
        BY <2>2, <4>1
      <4>3. i - 1 = j - 1
        BY <2>0, <4>1, <4>2, Zenon
      <4> QED  BY <1>4, <4>3
    <3> QED  BY <3>1, <3>2, <3>3, <3>4, Zenon
  <2>3. ASSUME ~failed', NEW q \in Parts, stage'[q] = "queued"
        PROVE  \E i \in 1..Len(queue') : queue'[i].part = q
    <3>1. CASE q = p
      <4>1. 1 \in 1..Len(queue')
        BY <1>4
      <4> QED  BY <1>1, <1>4, <3>1, <4>1, Zenon
    <3>2. CASE q # p
      <4>1. PICK i \in 1..Len(queue) : queue[i].part = q
        <5>1. stage[q] = "queued" /\ ~failed
          BY <1>2, <1>3, <2>3, <3>2, SMTT(30)
        <5> QED  BY <2>0, <5>1, Zenon
      <4>2. i + 1 \in 1..Len(queue')
        BY <1>4
      <4> QED  BY <1>4, <4>1, <4>2, Zenon
    <3> QED  BY <3>1, <3>2
  <2> QED  BY <2>1, <2>2, <2>3, Zenon DEF QueueExact
<1>8. FailureKnown' /\ Delivered'
  BY <1>2, <1>3 DEF PipelineInv, FailureKnown, Delivered, In, Waiting, Failing
<1>9. Driven' /\ DrainedBeforeReturn'
  BY <1>3 DEF Driven, DrainedBeforeReturn
<1> QED  BY <1>5, <1>6, <1>7, <1>8, <1>9, Zenon DEF PipelineInv

\* Admission of the front of the queue: it holds nothing yet, and no other
\* entry names it.
LEMMA AdmitKeeps == ASSUME PipelineInv, AdmitEncoder PROVE PipelineInv'
<1> DEFINE p == Head(queue).part
<1>0. /\ queue # <<>> /\ queue' = Tail(queue) /\ turn = "encoders"
      /\ IF Alone THEN ReserveExclusive(p) ELSE Reserve(p, Estimate[p])
      /\ stage' = [stage EXCEPT ![p] = "encoding"]
      /\ written' = [written EXCEPT ![p] = 0]
      /\ result' = "running"
      /\ UNCHANGED <<turn, failed, faults, published, lane>>
  BY Zenon DEF AdmitEncoder, Admissible, outside
<1>1. queue \in Seq(Item) /\ ~failed
  BY <1>0, InvFacts, Zenon
<1>2. /\ Len(queue) \in Nat /\ Len(queue) > 0 /\ Head(queue) = queue[1]
      /\ queue' \in Seq(Item) /\ Len(queue') = Len(queue) - 1
      /\ \A i \in 1..Len(queue') : i + 1 \in 1..Len(queue) /\ queue'[i] = queue[i + 1]
      /\ \A i \in 1..Len(queue) : i = 1 \/ (i - 1 \in 1..Len(queue') /\ queue'[i - 1] = queue[i])
  <2> HIDE DEF Item
  <2> QED  BY <1>0, <1>1
<1>3. 1 \in 1..Len(queue)
  BY <1>2
<1>4. p \in Parts /\ stage[p] = "queued" /\ p = queue[1].part
  BY <1>2, <1>3, InvFacts DEF PipelineInv, QueueExact
<1> HIDE DEF p
<1>5. /\ stage' \in [Parts -> Stages] /\ stage'[p] = "encoding"
      /\ \A q \in Parts \ {p} : stage'[q] = stage[q]
  <2>1. "encoding" \in Stages
    BY Zenon DEF Stages, Running
  <2> QED  BY <1>0, <1>4, <2>1, InvFacts, StageChange, Zenon
<1>6. PipelineTypes'
  <2>1. written' \in [Parts -> Nat]
    BY <1>0, <1>4, InvFacts, Zenon
  <2> QED  BY <1>0, <1>2, <1>5, <2>1, Zenon DEF PipelineInv, PipelineTypes, Item
<1>7. Accounts' /\ HoldersWork'
  <2>0. Accounts /\ HoldersWork /\ held[p] = 0 /\ Estimate[p] \in Nat
    BY <1>4, PlanAssumption, Zenon DEF PipelineInv, HoldersWork, Holding
  <2>1. Accounts' /\ \A q \in Parts \ {p} : held'[q] = held[q]
    BY <1>0, <1>4, <2>0, ReserveKeeps, SMTT(30)
  <2> QED  BY <1>5, <2>0, <2>1, Zenon DEF HoldersWork, Holding
<1>8. QueueExact'
  <2>0. /\ \A i \in 1..Len(queue) : stage[queue[i].part] = "queued"
        /\ \A i, j \in 1..Len(queue) : queue[i].part = queue[j].part => i = j
        /\ \A q \in Parts : stage[q] = "queued" =>
               \E i \in 1..Len(queue) : queue[i].part = q
    BY <1>1, Zenon DEF PipelineInv, QueueExact
  <2>1. ASSUME NEW i \in 1..Len(queue') PROVE queue'[i].part \in Parts \ {p}
    <3>1. i + 1 \in 1..Len(queue) /\ queue'[i] = queue[i + 1] /\ i + 1 # 1
      BY <1>2
    <3>2. queue[i + 1].part # queue[1].part
      BY <1>3, <2>0, <3>1, Zenon
    <3> QED  BY <1>4, <3>1, <3>2, InvFacts, Zenon
  <2>2. ASSUME NEW i \in 1..Len(queue') PROVE stage'[queue'[i].part] = "queued"
    <3>1. i + 1 \in 1..Len(queue) /\ queue'[i] = queue[i + 1]
      BY <1>2
    <3>2. stage[queue[i + 1].part] = "queued"
      BY <2>0, <3>1, Zenon
    <3> QED  BY <1>5, <2>1, <3>1, <3>2, Zenon
  <2>3. ASSUME NEW i \in 1..Len(queue'), NEW j \in 1..Len(queue'),
               queue'[i].part = queue'[j].part
        PROVE  i = j
    <3>1. /\ i + 1 \in 1..Len(queue) /\ queue'[i] = queue[i + 1]
          /\ j + 1 \in 1..Len(queue) /\ queue'[j] = queue[j + 1]
      BY <1>2, Zenon
    <3>2. queue[i + 1].part = queue[j + 1].part
      BY <2>3, <3>1, Zenon
    <3>3. i + 1 = j + 1
      BY <2>0, <3>1, <3>2, Zenon
    <3> QED  BY <1>2, <3>3
  <2>4. ASSUME NEW q \in Parts, stage'[q] = "queued"
        PROVE  \E i \in 1..Len(queue') : queue'[i].part = q
    <3>1. q # p /\ stage[q] = "queued"
      BY <1>4, <1>5, <2>4, Zenon
    <3>2. PICK i \in 1..Len(queue) : queue[i].part = q
      BY <2>0, <3>1, Zenon
    <3> QED  BY <1>2, <1>4, <3>1, <3>2, Zenon
  <2> QED  BY <2>2, <2>3, <2>4, Zenon DEF QueueExact
<1>9. FailureKnown' /\ Delivered'
  BY <1>0, <1>1, <1>5, Zenon DEF PipelineInv, FailureKnown, Delivered, In, Waiting, Failing
<1>10. Driven' /\ DrainedBeforeReturn'
  BY <1>0 DEF Driven, DrainedBeforeReturn
<1> QED  BY <1>6, <1>7, <1>8, <1>9, <1>10, Zenon DEF PipelineInv

\* With the budget in use, or held alone, some part is under way.
LEMMA HolderExists ==
    ASSUME PipelineInv, used # 0 \/ exclusive # 0
    PROVE  In(Running \cup Finished \cup Waiting) # {}
<1>1. Accounts /\ HoldersWork
  BY DEF PipelineInv
<1>2. PICK p \in Parts : held[p] # 0
  <2>1. CASE used # 0
    BY <1>1, <2>1, AccountFacts, Zenon
  <2>2. CASE exclusive # 0
    BY <1>1, <2>2, PlanFacts DEF Accounts
  <2> QED  BY <2>1, <2>2, Zenon
<1>3. stage[p] \in Holding
  BY <1>1, <1>2, Zenon DEF HoldersWork
<1>4. Holding \subseteq Running \cup Finished \cup Waiting
  BY DEF Holding, Running, Finished, Waiting
<1> QED  BY <1>3, <1>4, Zenon DEF In

\* A queued part is left behind only while an encoder or a reservation is
\* in its way.
LEMMA EncodersAdmittedKeeps ==
    ASSUME PipelineInv, EncodersAdmitted PROVE PipelineInv'
<1>0. /\ turn = "encoders" /\ turn' = "receipts" /\ ~Admissible
      /\ result' = result /\ result = "running"
      /\ UNCHANGED <<queue, stage, held, exclusive, used, written, published,
                     lane, failed, faults>>
  BY DEF EncodersAdmitted, budget, outside
<1>1. ~failed
  BY <1>0, InvFacts, Zenon
<1>2. queue # <<>> => In(Running \cup Finished \cup Waiting) # {}
  <2> SUFFICES ASSUME queue # <<>> PROVE In(Running \cup Finished \cup Waiting) # {}
    BY Zenon
  <2> DEFINE p == Head(queue).part
  <2>0. p \in Parts
    <3>1. queue \in Seq(Item)
      BY InvFacts
    <3>2. Head(queue) = queue[1] /\ 1 \in 1..Len(queue)
      <4> HIDE DEF Item
      <4> QED  BY <3>1
    <3> QED  BY <3>2, InvFacts
  <2>1. CASE ~(Cardinality(Encoding) < Encoders)
    <3>1. Encoding # {}
      <4>1. Cardinality({}) = 0
        BY FS_EmptySet
      <4> QED  BY <2>1, <4>1, PlanFacts, Zenon
    <3>2. {"encoding", "encoded", "refused", "encode_failed"} \subseteq Running \cup Finished
      BY DEF Running, Finished
    <3> QED  BY <3>1, <3>2, Zenon DEF Encoding, In
  <2>2. CASE Alone /\ ~MayReserveExclusive
    BY <2>2, HolderExists, Zenon DEF MayReserveExclusive
  <2>3. CASE ~Alone /\ ~MayReserve(Estimate[p])
    <3>1. Estimate[p] \in Nat /\ Estimate[p] < Limit
      <4>1. ~(Estimate[p] >= Limit)
        BY <2>3, Zenon DEF Alone
      <4>2. Estimate[p] \in Nat
        BY <2>0, PlanAssumption, Zenon
      <4> HIDE DEF p
      <4> QED  BY <4>1, <4>2, PlanFacts
    <3>2. exclusive # 0 \/ used # 0
      BY <2>3, <3>1, PlanFacts DEF MayReserve
    <3> QED  BY <3>2, HolderExists, Zenon
  <2> HIDE DEF p
  <2> QED  BY <1>0, <2>1, <2>2, <2>3, Zenon DEF Admissible, p
<1>3. PipelineTypes' /\ Accounts' /\ HoldersWork' /\ QueueExact' /\ Delivered'
  BY <1>0, Zenon DEF PipelineInv, PipelineTypes, Accounts, HoldersWork, QueueExact, Delivered
<1>4. FailureKnown' /\ DrainedBeforeReturn'
  BY <1>0, <1>1, Zenon DEF PipelineInv, FailureKnown, DrainedBeforeReturn, In
<1>5. Driven'
  BY <1>0, <1>2, Zenon DEF Driven, In
<1> QED  BY <1>3, <1>4, <1>5, Zenon DEF PipelineInv

\* A receipt is left behind only while a write is under way.
LEMMA StartRecordingKeeps ==
    ASSUME PipelineInv, StartRecording PROVE PipelineInv'
<1>0. /\ turn = "receipts" /\ turn' = "publications"
      /\ result' = result /\ result = "running"
      /\ UNCHANGED <<queue, held, exclusive, used, written, published,
                     lane, failed, faults>>
  BY DEF StartRecording, budget, outside
<1>1. ~failed
  BY <1>0, InvFacts, Zenon
<1>2. ASSUME NEW q \in Parts
      PROVE  \/ stage'[q] = stage[q]
             \/ stage[q] = "receipts" /\ stage'[q] = "recording"
  BY DEF StartRecording
<1>3. stage' \in [Parts -> Stages]
  <2>1. \/ stage' = stage
        \/ stage' = [p \in Parts |-> IF stage[p] = "receipts" THEN "recording"
                                                             ELSE stage[p]]
    BY DEF StartRecording
  <2>2. "recording" \in Stages /\ stage \in [Parts -> Stages]
    BY InvFacts, Zenon DEF Stages, Running
  <2> HIDE DEF Stages
  <2> QED  BY <2>1, <2>2, Zenon
<1>4. PipelineTypes'
  BY <1>0, <1>3, Zenon DEF PipelineInv, PipelineTypes
<1>5. Accounts' /\ HoldersWork'
  BY <1>0, <1>2 DEF PipelineInv, Accounts, HoldersWork, Holding
<1>6. QueueExact'
  <2>1. \A q \in Parts : stage'[q] = "queued" <=> stage[q] = "queued"
    BY <1>2
  <2>2. QueueExact
    BY DEF PipelineInv
  <2>3. Len(queue') = Len(queue)
    BY <1>0, Zenon
  <2> QED  BY <1>0, <2>1, <2>2, <2>3, InvFacts, Zenon DEF QueueExact
<1>7. FailureKnown' /\ Delivered' /\ DrainedBeforeReturn'
  BY <1>0, <1>1, <1>2 DEF PipelineInv, FailureKnown, Delivered, DrainedBeforeReturn,
        In, Failing
<1>8. Driven'
  <2>1. queue # <<>> => In(Running \cup Finished \cup Waiting)' # {}
    <3> SUFFICES ASSUME queue # <<>> PROVE In(Running \cup Finished \cup Waiting)' # {}
      BY Zenon
    <3>1. PICK q \in Parts : stage[q] \in Running \cup Finished \cup Waiting
      BY <1>0, <1>1 DEF PipelineInv, Driven, In
    <3>2. stage'[q] \in Running \cup Finished \cup Waiting
      BY <1>2, <3>1 DEF Running
    <3> QED  BY <3>2, Zenon DEF In
  <2>2. In({"receipts"})' # {} => Recording' # {}
    <3> SUFFICES ASSUME NEW q \in Parts, stage'[q] = "receipts" PROVE Recording' # {}
      BY DEF In
    <3>1. Recording # {}
      BY DEF StartRecording
    <3>2. stage' = stage
      BY <3>1, Zenon DEF StartRecording
    <3> QED  BY <3>1, <3>2, Zenon DEF Recording, In
  <2> QED  BY <1>0, <2>1, <2>2, Zenon DEF Driven
<1> QED  BY <1>4, <1>5, <1>6, <1>7, <1>8, Zenon DEF PipelineInv

\* A publication starts, or waits for the others.
LEMMA StartPublicationKeeps ==
    ASSUME PipelineInv, NEW p \in Parts, StartPublication(p) PROVE PipelineInv'
<1>0. /\ turn = "publications" /\ turn' = turn /\ stage[p] = "publishable"
      /\ result' = result /\ result = "running"
      /\ stage' = [stage EXCEPT ![p] = "publishing"]
      /\ UNCHANGED <<queue, held, exclusive, used, written, published,
                     lane, failed, faults>>
  BY Zenon DEF StartPublication, budget, outside
<1>1. ~failed
  BY <1>0, InvFacts, Zenon
<1>2. /\ stage' \in [Parts -> Stages] /\ stage'[p] = "publishing"
      /\ \A q \in Parts \ {p} : stage'[q] = stage[q]
  <2>1. "publishing" \in Stages
    BY Zenon DEF Stages, Running
  <2> QED  BY <1>0, <2>1, InvFacts, StageChange, Zenon
<1>3. PipelineTypes'
  BY <1>0, <1>2, Zenon DEF PipelineInv, PipelineTypes
<1>4. Accounts' /\ HoldersWork'
  BY <1>0, <1>2 DEF PipelineInv, Accounts, HoldersWork, Holding
<1>5. QueueExact'
  <2>1. \A q \in Parts : stage'[q] = "queued" <=> stage[q] = "queued"
    BY <1>0, <1>2, Zenon
  <2>2. QueueExact
    BY DEF PipelineInv
  <2>3. Len(queue') = Len(queue)
    BY <1>0, Zenon
  <2> QED  BY <1>0, <2>1, <2>2, <2>3, InvFacts, Zenon DEF QueueExact
<1>6. FailureKnown' /\ Delivered' /\ DrainedBeforeReturn'
  BY <1>0, <1>1, <1>2 DEF PipelineInv, FailureKnown, Delivered, DrainedBeforeReturn,
        In, Failing
<1>7. Driven'
  <2>1. In(Running \cup Finished \cup Waiting)' # {}
    BY <1>2 DEF In, Running
  <2>2. In({"receipts"})' # {} => Recording' # {}
    <3> SUFFICES ASSUME NEW q \in Parts, stage'[q] = "receipts" PROVE Recording' # {}
      BY DEF In
    <3>1. In({"receipts"}) # {}
      BY <1>2, Zenon DEF In
    <3>2. PICK r \in Parts : stage[r] \in {"recording", "recorded", "record_failed"}
      BY <1>0, <1>1, <3>1, Zenon DEF PipelineInv, Driven, Recording, In
    <3>3. stage'[r] \in {"recording", "recorded", "record_failed"}
      BY <1>0, <1>2, <3>2, Zenon
    <3> QED  BY <3>3, Zenon DEF Recording, In
  <2> QED  BY <1>0, <2>1, <2>2, Zenon DEF Driven
<1> QED  BY <1>3, <1>4, <1>5, <1>6, <1>7, Zenon DEF PipelineInv

\* The coordinator awaits: a publishable part is left behind only while
\* publications are under way.
LEMMA AwaitKeeps == ASSUME PipelineInv, Await PROVE PipelineInv'
<1>0. /\ turn = "publications" /\ turn' = "await"
      /\ result' = result /\ result = "running"
      /\ In({"publishable"}) = {} \/ Cardinality(Publishing) >= Publications
      /\ UNCHANGED <<queue, stage, held, exclusive, used, written, published,
                     lane, failed, faults>>
  BY DEF Await, budget, outside
<1>1. ~failed
  BY <1>0, InvFacts, Zenon
<1>2. In({"publishable"}) # {} => Publishing # {}
  <2>1. Cardinality({}) = 0
    BY FS_EmptySet, Zenon
  <2> QED  BY <1>0, <2>1, PlanFacts
<1>3. PipelineTypes' /\ Accounts' /\ HoldersWork' /\ QueueExact' /\ Delivered'
  BY <1>0, Zenon DEF PipelineInv, PipelineTypes, Accounts, HoldersWork, QueueExact, Delivered
<1>4. FailureKnown' /\ DrainedBeforeReturn'
  BY <1>0, <1>1, Zenon DEF PipelineInv, FailureKnown, DrainedBeforeReturn, In
<1>5. Driven'
  BY <1>0, <1>1, <1>2, Zenon DEF PipelineInv, Driven, In, Recording, Publishing
<1> QED  BY <1>3, <1>4, <1>5 DEF PipelineInv

\* With no work left the flush returns: nothing is held, and without a failure
\* every part is done.
LEMMA ReturnKeeps == ASSUME PipelineInv, Return PROVE PipelineInv'
<1>0. /\ turn = "await" /\ turn' = turn
      /\ In(Running \cup Finished) = {}
      /\ UNCHANGED <<queue, stage, held, exclusive, used, written, published,
                     lane, failed, faults>>
  BY Zenon DEF Return, budget, outside
<1>1. In(Waiting) = {}
  <2>1. CASE failed
    BY <2>1 DEF PipelineInv, FailureKnown
  <2>2. CASE ~failed
    <3>1. Recording = {} /\ Publishing = {}
      <4>1. {"recording", "recorded", "record_failed", "publishing", "publish_done",
             "publish_failed"} \subseteq Running \cup Finished
        BY Zenon DEF Running, Finished
      <4> QED  BY <1>0, <4>1, Zenon DEF Recording, Publishing, In
    <3>2. In({"receipts"}) = {} /\ In({"publishable"}) = {}
      BY <1>0, <2>2, <3>1, Zenon DEF PipelineInv, Driven
    <3> QED  BY <3>2 DEF In, Waiting
  <2> QED  BY <2>1, <2>2
<1>2. \A p \in Parts : stage[p] \in {"queued", "dropped", "done"}
  BY <1>0, <1>1, InvFacts, Zenon DEF In, Stages
<1>3. used = 0
  <2>1. \A p \in Parts : held[p] = 0
    BY <1>2, Zenon DEF PipelineInv, HoldersWork, Holding
  <2>2. Accounts
    BY Zenon DEF PipelineInv
  <2> QED  BY <2>1, <2>2, AccountFacts, Zenon
<1>4. CASE failed
  <2>1. result' = "error"
    BY <1>4, Zenon DEF Return
  <2>2. faults > 0
    BY <1>4, Zenon DEF PipelineInv, FailureKnown
  <2>3. DrainedBeforeReturn'
    <3>1. In(Running \cup Finished)' = {}
      BY <1>0, Zenon DEF In
    <3> QED  BY <1>0, <1>3, <2>1, <2>2, <3>1 DEF DrainedBeforeReturn
  <2> QED  BY <1>0, <2>3, Zenon DEF PipelineInv, PipelineTypes, Accounts, HoldersWork,
                QueueExact, FailureKnown, Delivered, Driven, In, Recording, Publishing
<1>5. CASE ~failed
  <2>1. In(Running \cup Finished \cup Waiting) = {}
    BY <1>0, <1>1, Zenon DEF In
  <2>2. queue = <<>>
    BY <1>0, <1>5, <2>1, Zenon DEF PipelineInv, Driven
  <2>3. result' = "ok"
    BY <1>1, <1>3, <1>5, <2>2 DEF Return
  <2>4. \A p \in Parts : stage[p] = "done"
    <3>1. Len(queue) = 0
      BY <2>2
    <3>2. 1..Len(queue) = {}
      BY <3>1
    <3>3. \A p \in Parts : stage[p] # "queued"
      BY <1>5, <3>2, Zenon DEF PipelineInv, QueueExact
    <3>4. \A p \in Parts : stage[p] # "dropped"
      BY <1>5 DEF PipelineInv, FailureKnown, In
    <3> QED  BY <1>2, <3>3, <3>4
  <2>5. published = Parts
    BY <2>4, InvFacts, Zenon DEF PipelineInv, Delivered
  <2>6. DrainedBeforeReturn'
    BY <1>0, <1>3, <2>3, <2>5 DEF DrainedBeforeReturn, In
  <2> QED  BY <1>0, <2>6 DEF PipelineInv, PipelineTypes, Accounts, HoldersWork,
                QueueExact, FailureKnown, Delivered, Driven, In, Recording, Publishing
<1> QED  BY <1>4, <1>5

\* The coordinator handles one finished piece of work.
LEMMA HandleKeeps ==
    ASSUME PipelineInv,
           HandleRecorded \/ \E p \in Parts : \/ HandleEncoded(p) \/ HandleStaged(p)
                                              \/ HandlePublished(p)
    PROVE  PipelineInv'
<1>0. /\ stage \in [Parts -> Stages] /\ faults \in Nat /\ lane \in BOOLEAN
      /\ In(Failing) # {} => faults > 0
      /\ Delivered
  BY InvFacts, Zenon DEF PipelineInv, FailureKnown
<1>1. ASSUME NEW S \in SUBSET Parts, S # {}, \A p \in S : stage[p] \in Failing,
             Fail(S), turn = "await", result = "running",
             UNCHANGED <<written, outside, faults>>
      PROVE  PipelineInv'
  <2>1. faults' \in Nat /\ faults' > 0
    BY <1>0, <1>1, Zenon DEF In
  <2>2. Failing \subseteq Finished
    BY DEF Failing, Finished
  <2>3. \A p \in S : stage[p] \in Finished
    BY <1>1, <2>2, Zenon
  <2> QED  BY <1>1, <2>1, <2>3, FailKeeps, Zenon
<1>2. ASSUME NEW p \in Parts, HandleEncoded(p) PROVE PipelineInv'
  <2>0. turn = "await" /\ result = "running" /\ UNCHANGED <<written, outside>>
    BY <1>2, Zenon DEF HandleEncoded
  <2>1. CASE /\ stage[p] = "encoded"
             /\ Pass({p}, IF lane THEN "staging" ELSE "receipts")
             /\ UNCHANGED faults
    <3>1. "encoded" \in Finished
      BY Zenon DEF Finished
    <3> QED  BY <2>0, <2>1, <3>1, PassKeeps, SMTT(30)
  <2>2. CASE stage[p] = "encoded" /\ faults' = faults + 1 /\ Fail({p})
    <3>1. "encoded" \in Finished /\ faults' \in Nat /\ faults' > 0
      BY <1>0, <2>2 DEF Finished
    <3> QED  BY <2>0, <2>2, <3>1, FailKeeps, Zenon
  <2>3. CASE stage[p] = "encode_failed" /\ Fail({p}) /\ UNCHANGED faults
    <3>1. "encode_failed" \in Failing
      BY DEF Failing
    <3> QED  BY <1>1, <2>0, <2>3, <3>1, Zenon
  <2>4. CASE /\ stage[p] = "refused"
             /\ queue' = Requeue(p)
             /\ stage' = [stage EXCEPT ![p] = "queued"]
             /\ turn' = IF failed THEN turn ELSE "encoders"
             /\ UNCHANGED <<budget, failed, result, faults>>
    BY <2>0, <2>4, RequeueKeeps, Zenon
  <2> QED  BY <1>2, <2>1, <2>2, <2>3, <2>4, Zenon DEF HandleEncoded
<1>3. ASSUME NEW p \in Parts, HandleStaged(p) PROVE PipelineInv'
  <2>0. turn = "await" /\ result = "running" /\ UNCHANGED <<written, outside, faults>>
    BY <1>3, Zenon DEF HandleStaged
  <2>1. "stage_done" \in Finished /\ "stage_failed" \in Failing
    BY DEF Finished, Failing
  <2>2. CASE stage[p] = "stage_done" /\ Pass({p}, "receipts")
    BY <2>0, <2>1, <2>2, PassKeeps, SMTT(30)
  <2>3. CASE stage[p] = "stage_failed" /\ Fail({p})
    BY <1>1, <2>0, <2>1, <2>3, Zenon
  <2> QED  BY <1>3, <2>2, <2>3 DEF HandleStaged
<1>4. ASSUME NEW p \in Parts, HandlePublished(p) PROVE PipelineInv'
  <2>0. turn = "await" /\ result = "running" /\ UNCHANGED <<written, outside, faults>>
    BY <1>4 DEF HandlePublished
  <2>1. "publish_done" \in Finished /\ "publish_failed" \in Failing
    BY DEF Finished, Failing
  <2>2. CASE stage[p] = "publish_done" /\ Pass({p}, "done")
    <3>1. {p} \subseteq published
      BY <1>0, <2>2, Zenon DEF Delivered
    <3> QED  BY <2>0, <2>1, <2>2, <3>1, PassKeeps, SMTT(30)
  <2>3. CASE stage[p] = "publish_failed" /\ Fail({p})
    BY <1>1, <2>0, <2>1, <2>3, Zenon
  <2> QED  BY <1>4, <2>2, <2>3, Zenon DEF HandlePublished
<1>5. ASSUME HandleRecorded PROVE PipelineInv'
  <2>0. turn = "await" /\ result = "running" /\ UNCHANGED <<written, outside, faults>>
    BY <1>5 DEF HandleRecorded
  <2>1. "recorded" \in Finished /\ "record_failed" \in Failing
    BY DEF Finished, Failing
  <2>2. CASE Pass(In({"recorded"}), "publishable")
    <3>1. In({"recorded"}) \in SUBSET Parts /\ \A p \in In({"recorded"}) : stage[p] \in Finished
      BY <2>1, Zenon DEF In
    <3> QED  BY <2>0, <2>2, <3>1, PassKeeps, Zenon
  <2>3. CASE In({"record_failed"}) # {} /\ Fail(In({"record_failed"}))
    <3>1. /\ In({"record_failed"}) \in SUBSET Parts
          /\ \A p \in In({"record_failed"}) : stage[p] \in Failing
      BY <2>1, Zenon DEF In
    <3> QED  BY <1>1, <2>0, <2>3, <3>1, Zenon
  <2> QED  BY <1>5, <2>2, <2>3, ZenonT(30) DEF HandleRecorded
<1> QED  BY <1>2, <1>3, <1>4, <1>5

\* The flush starts with every part queued and nothing held.
LEMMA InitPipeline == Init => PipelineInv
<1> SUFFICES ASSUME Init PROVE PipelineInv
  OBVIOUS
<1>1. IsFiniteSet(Parts) /\ Cardinality(Parts) \in Nat /\ Parts = 1..Cardinality(Parts)
  BY PlanAssumption, FS_CardinalityType, Zenon
<1> DEFINE n == Cardinality(Parts)
<1>2. /\ queue = [i \in 1..n |-> [part |-> i, exclusive |-> FALSE]] /\ n \in Nat
      /\ Parts = 1..n
  BY <1>1, Zenon DEF Init
<1> HIDE DEF n
<1>3. \A i \in 1..n : [part |-> i, exclusive |-> FALSE] \in Item
  BY <1>2, Zenon DEF Item
<1>4. queue \in Seq(Item) /\ Len(queue) = n
  <2> HIDE DEF Item
  <2> QED  BY <1>2, <1>3
<1>5. \A i \in 1..n : queue[i].part = i
  BY <1>2
<1>6. PipelineTypes
  BY <1>4, Zenon DEF Init, PipelineTypes, Item, Stages
<1>7. Accounts
  <2>1. held = [p \in Parts |-> 0] /\ used = 0 /\ exclusive = 0
    BY DEF Init
  <2>2. \A p \in Parts : held[p] = 0 /\ held[p] \in Nat
    BY <2>1
  <2>3. Total(held, Parts) = 0
    BY <1>1, <2>2, TotalNat, SMTT(30)
  <2> QED  BY <2>1, <2>3, PlanFacts, SMTT(30) DEF Accounts
<1>8. QueueExact
  BY <1>2, <1>4, <1>5, ZenonT(30) DEF Init, QueueExact
<1>9. HoldersWork /\ FailureKnown /\ Delivered /\ Driven /\ DrainedBeforeReturn
  BY DEF Init, HoldersWork, FailureKnown, Delivered, Driven, DrainedBeforeReturn, In,
        Failing
<1> QED  BY <1>6, <1>7, <1>8, <1>9, Zenon DEF PipelineInv

\* The inductive invariant of the flush: exact accounts, an exact queue, known
\* failures, and work under way wherever something could not be admitted.
THEOREM FlushSafe == Spec => []PipelineInv
<1>1. PipelineInv /\ [Next]_vars => PipelineInv'
  <2> SUFFICES ASSUME PipelineInv, [Next]_vars PROVE PipelineInv'
    BY Zenon
  <2>1. CASE UNCHANGED vars
    <3>1. PipelineTypes' /\ Accounts' /\ HoldersWork'
      BY <2>1, Zenon DEF vars, PipelineInv, PipelineTypes, Accounts, HoldersWork
    <3>2. QueueExact' /\ FailureKnown' /\ Delivered'
      BY <2>1, Zenon DEF vars, PipelineInv, QueueExact, FailureKnown, Delivered, In
    <3>3. Driven' /\ DrainedBeforeReturn'
      BY <2>1, Zenon DEF vars, PipelineInv, Driven, DrainedBeforeReturn, In, Recording,
            Publishing
    <3> QED  BY <3>1, <3>2, <3>3, Zenon DEF PipelineInv
  <2>2. CASE Record \/ \E p \in Parts : Work(p)
    <3>1. WorkMoves
      BY <2>2, WorkIsMoves
    <3> QED  BY <2>2, <3>1, WorkKeepsControl, WorkKeepsAccounts, SMTT(30) DEF PipelineInv
  <2>3. CASE Coordinator
    BY <2>3, AdmitKeeps, EncodersAdmittedKeeps, StartRecordingKeeps, AwaitKeeps,
       StartPublicationKeeps, HandleKeeps, ReturnKeeps, Zenon DEF Coordinator
  <2> QED  BY <2>1, <2>2, <2>3 DEF Next
<1> QED  BY <1>1, InitPipeline, PTL DEF Spec

\* The budget is never exceeded but by one exclusive part that holds it alone,
\* and no refusal, failure or drain leaks a byte of it (budget.rs).
THEOREM BudgetSafe == Spec => []BudgetHeld
<1>1. PipelineInv => BudgetHeld
  BY Zenon DEF PipelineInv, Accounts, BudgetHeld, Total
<1> QED  BY <1>1, FlushSafe, PTL

\* publish_parts returns only when no encoder, write or request can still act
\* and every reservation is released; Ok means that every part is published,
\* an error that something failed, and "unfinished" is never returned.
THEOREM ReturnsDrained == Spec => []DrainedBeforeReturn
<1>1. PipelineInv => DrainedBeforeReturn
  BY DEF PipelineInv
<1> QED  BY <1>1, FlushSafe, PTL
=============================================================================
