---------------------------- MODULE Trail_proofs ----------------------------
(***************************************************************************)
(* Proofs about the trail as it is written, verified and reported on, for  *)
(* any number of events, batch and tree size: the promises of the abstract *)
(* event stream; the verdict of Verifier.verifyRange; and, for any hooks   *)
(* and runs, clocks and options, what the reports say of the log.          *)
(***************************************************************************)
EXTENDS Verifier, EventStream, Reports, FiniteSetTheorems, WellFoundedInduction, TLAPS

(* What EventStream's steps guarantee. *)
StreamInv == Partition /\ OldestFirst

LEMMA StreamInit == Init => StreamInv
BY DEF Init, StreamInv, Partition, OldestFirst

(* Arriving and leaving keep each event in one place. *)
LEMMA ArriveStep ==
  ASSUME StreamInv, Arrive
  PROVE  StreamInv'
<1> DEFINE e == arrived + 1
<1>1. /\ arrived \in Nat /\ arrived' = e /\ urgent \subseteq recorded
      /\ pending \cup recorded \cup lost = 1 .. arrived
      /\ pending \cap recorded = {} /\ pending \cap lost = {} /\ recorded \cap lost = {}
  BY DEF StreamInv, Partition, Arrive
<1>2. /\ 1 .. arrived' = (1 .. arrived) \cup {e} /\ e \notin 1 .. arrived
      /\ \A r \in 1 .. arrived : r < e
  BY <1>1
<1>3. CASE pending' = pending \cup {e} /\ UNCHANGED <<recorded, lost, urgent>>
  <2>1. Partition'
    BY <1>1, <1>2, <1>3 DEF Partition
  <2>2. OldestFirst'
    BY <1>1, <1>2, <1>3 DEF StreamInv, OldestFirst
  <2> QED  BY <2>1, <2>2 DEF StreamInv
<1>4. CASE /\ recorded' = recorded \cup {e}
           /\ urgent' = urgent \/ urgent' = urgent \cup {e}
           /\ pending # {} => e \in urgent'
           /\ UNCHANGED <<pending, lost>>
  <2>1. Partition'
    BY <1>1, <1>2, <1>4 DEF Partition
  <2>2. OldestFirst'
    BY <1>1, <1>4 DEF StreamInv, OldestFirst
  <2> QED  BY <2>1, <2>2 DEF StreamInv
<1>5. CASE lost' = lost \cup {e} /\ UNCHANGED <<pending, recorded, urgent>>
  <2>1. Partition'
    BY <1>1, <1>2, <1>5 DEF Partition
  <2>2. OldestFirst'
    BY <1>5 DEF StreamInv, OldestFirst
  <2> QED  BY <2>1, <2>2 DEF StreamInv
<1> QED  BY <1>3, <1>4, <1>5 DEF Arrive

LEMMA LeaveStep ==
  ASSUME StreamInv, NEW P \in SUBSET pending, NEW L \in SUBSET P, Leave(P, L)
  PROVE  StreamInv'
<1>1. /\ \A p \in P, q \in pending \ P : p < q
      /\ pending' = pending \ P /\ recorded' = recorded \cup (P \ L)
      /\ lost' = lost \cup L /\ UNCHANGED <<arrived, urgent>>
  BY DEF Leave
<1>2. Partition'
  BY <1>1 DEF StreamInv, Partition
<1>3. OldestFirst'
  BY <1>1 DEF StreamInv, OldestFirst
<1> QED  BY <1>2, <1>3 DEF StreamInv

LEMMA StreamStep == StreamInv /\ [Next]_vars => StreamInv'
<1> SUFFICES ASSUME StreamInv, [Next]_vars PROVE StreamInv'
  OBVIOUS
<1>1. CASE Arrive
  BY <1>1, ArriveStep
<1>2. CASE \E P \in SUBSET pending : \E L \in SUBSET P : Leave(P, L)
  BY <1>2, LeaveStep
<1>3. CASE UNCHANGED vars
  BY <1>3 DEF vars, StreamInv, Partition, OldestFirst
<1> QED  BY <1>1, <1>2, <1>3 DEF Next

(* Every event is at any time waiting, recorded or lost, and only one; what *)
(* queued is recorded before nothing older that still waits.                *)
THEOREM StreamCorrect == Spec => [](Partition /\ OldestFirst)
<1>1. StreamInv => Partition /\ OldestFirst
  BY DEF StreamInv
<1> QED  BY <1>1, StreamInit, StreamStep, PTL DEF Spec

(* The log grows in the order of arrival. *)
THEOREM StreamInOrder == Spec => RecordedInOrder
<1>1. StreamInv /\ [Next]_vars =>
        [\A old \in recorded \ urgent, new \in recorded' \ recorded : old < new]_vars
  <2> SUFFICES ASSUME StreamInv, Next,
                      NEW old \in recorded \ urgent, NEW new \in recorded' \ recorded
               PROVE  old < new
    OBVIOUS
  <2>1. CASE Arrive
    <3>1. new = arrived + 1 /\ old \in 1 .. arrived /\ arrived \in Nat
      BY <2>1 DEF Arrive, StreamInv, Partition
    <3> QED  BY <3>1
  <2>2. CASE \E P \in SUBSET pending : \E L \in SUBSET P : Leave(P, L)
    BY <2>2 DEF Leave, StreamInv, OldestFirst
  <2> QED  BY <2>1, <2>2 DEF Next
<1> QED  BY <1>1, StreamInit, StreamStep, PTL DEF Spec, RecordedInOrder

-----------------------------------------------------------------------------
(* verifyRange: the batches do not show.                                     *)

(* A set of numbers that is not empty has a least one, and a largest one if  *)
(* it is bounded.                                                            *)
LEMMA SmallestIs ==
  ASSUME NEW S \in SUBSET Nat, S # {}
  PROVE  Min(S) \in S /\ \A x \in S : Min(S) <= x
<1>1. PICK n \in S : \A m \in S : ~(<<m, n>> \in OpToRel(<, Nat))
  BY NatLessThanWellFounded, WFMin
<1>2. \A m \in S : n <= m
  <2>1. \A m \in S : ~(m < n) BY <1>1 DEF OpToRel
  <2> QED BY <2>1
<1>3. Min(S) \in S /\ \A x \in S : Min(S) =< x BY <1>2 DEF Min
<1> QED BY <1>3

LEMMA LargestIs ==
  ASSUME NEW k \in Nat, NEW S \in SUBSET (0 .. k), S # {}
  PROVE  Max(S) \in S /\ \A x \in S : x <= Max(S)
<1> DEFINE T == {k - x : x \in S}
<1>1. T \in SUBSET Nat /\ T # {}
  <2>1. \A x \in S : k - x \in Nat BY k \in Nat
  <2> QED BY <2>1
<1>2. PICK m : m = Min(T) OBVIOUS
<1>3. m \in T /\ \A y \in T : m <= y
  <2> HIDE DEF T
  <2> QED BY <1>1, <1>2, SmallestIs
<1>4. PICK n \in S : m = k - n BY <1>3
<1>5. \A x \in S : n >= x
  <2> TAKE x \in S
  <2>1. k - n <= k - x BY <1>3, <1>4
  <2> QED BY <2>1
<1>6. Max(S) \in S /\ \A x \in S : Max(S) >= x BY <1>5 DEF Max
<1> QED BY <1>6

-----------------------------------------------------------------------------
(* The order of the checkpoints. *)

LEMMA Ranges ==
  ASSUME TableSound
  PROVE  /\ last \in Nat
         /\ \A c \in checkpoints : /\ c.start \in Nat /\ c.end \in Nat /\ 1 <= c.start
                                   /\ c.start <= c.end /\ c.end <= last
         /\ \A c, d \in checkpoints : c.start < d.start => c.end < d.start
         /\ \A c, d \in checkpoints : c.start = d.start => c = d
         /\ \A c, d \in checkpoints : c.end = d.end => c = d
<1>1. last \in Nat /\ \A c \in checkpoints : c.start \in 1 .. last /\ c.end \in c.start .. last
  BY VerifierAssumption DEF TableSound, VerifierAssumption
<1>2. \A c \in checkpoints : /\ c.start \in Nat /\ c.end \in Nat /\ 1 <= c.start
                             /\ c.start <= c.end /\ c.end <= last
  BY <1>1
<1>3. \A c, d \in checkpoints : c = d \/ c.end < d.start \/ d.end < c.start BY DEF TableSound
<1> QED BY <1>1, <1>2, <1>3

(* A checkpoint's position is the number of those before it: they are 0 to   *)
(* one less than there are, in the order of the ranges.                      *)
LEMMA Positions ==
  ASSUME TableSound, NEW n, n = Cardinality(checkpoints)
  PROVE  /\ n \in Nat /\ \A c \in checkpoints : Position(c) \in 0 .. n - 1
         /\ \A c, d \in checkpoints : c.start < d.start => Position(c) < Position(d)
         /\ \A k \in 0 .. n - 1 : \E c \in checkpoints : Position(c) = k
<1> DEFINE before(c) == {d \in checkpoints : d.start < c.start}
<1>1. IsFiniteSet(checkpoints) /\ n \in Nat BY FS_CardinalityType DEF TableSound
<1>2. /\ \A c \in checkpoints : c.start \in Nat
      /\ \A c, d \in checkpoints : c.start = d.start => c = d
  BY Ranges
<1>3. ASSUME NEW c \in checkpoints
      PROVE  /\ IsFiniteSet(before(c)) /\ Position(c) = Cardinality(before(c))
             /\ Position(c) \in 0 .. n - 1
  <2>1. before(c) \subseteq checkpoints /\ c \notin before(c) BY <1>2
  <2>2. /\ IsFiniteSet(before(c)) /\ Cardinality(before(c)) <= n
        /\ (Cardinality(before(c)) = n => before(c) = checkpoints)
    BY <1>1, <2>1, FS_Subset
  <2>3. Cardinality(before(c)) \in Nat BY <2>2, FS_CardinalityType
  <2>4. Position(c) = Cardinality(before(c)) BY DEF Position
  <2> HIDE DEF before
  <2> QED BY <1>1, <2>1, <2>2, <2>3, <2>4
<1>4. ASSUME NEW c \in checkpoints, NEW d \in checkpoints, c.start < d.start
      PROVE  Position(c) < Position(d)
  <2>1. before(c) \subseteq before(d) /\ c \in before(d) /\ c \notin before(c)
    BY <1>2, <1>4
  <2> HIDE DEF before
  <2>2. /\ Cardinality(before(c)) <= Cardinality(before(d))
        /\ (Cardinality(before(c)) = Cardinality(before(d)) => before(c) = before(d))
    BY <1>3, <2>1, FS_Subset
  <2>3. Position(c) \in 0 .. n - 1 /\ Position(d) \in 0 .. n - 1 BY <1>3
  <2> QED BY <1>1, <1>3, <2>1, <2>2, <2>3
<1>5. ASSUME NEW k \in 0 .. n - 1 PROVE \E c \in checkpoints : Position(c) = k
  <2> SUFFICES ASSUME \A c \in checkpoints : Position(c) # k PROVE FALSE OBVIOUS
  <2> DEFINE T == (0 .. n - 1) \ {k}
             f == [c \in checkpoints |-> Position(c)]
  <2>1. f \in [checkpoints -> T] BY <1>3
  <2>2. IsFiniteSet(0 .. n - 1) /\ Cardinality(0 .. n - 1) = n
    <3>1. 0 \in Int /\ n - 1 \in Int /\ 0 <= n - 1 /\ (n - 1) - 0 + 1 = n BY <1>1
    <3> QED BY <3>1, FS_Interval
  <2>3. IsFiniteSet(T) /\ Cardinality(T) = n - 1 BY <2>2, FS_RemoveElement
  <2>4. Cardinality(T) < Cardinality(checkpoints) BY <1>1, <2>3
  <2>5. \A c \in checkpoints : f[c] = Position(c) OBVIOUS
  <2> HIDE DEF T, f
  <2>6. PICK c, d \in checkpoints : c # d /\ f[c] = f[d] BY <1>1, <2>1, <2>3, <2>4, FS_PigeonHole
  <2>7. c.start < d.start \/ d.start < c.start BY <1>2, <2>6
  <2>8. Position(c) = Position(d) /\ Position(c) \in 0 .. n - 1 BY <1>3, <2>5, <2>6
  <2> QED BY <1>4, <2>7, <2>8
<1> QED BY <1>1, <1>3, <1>4, <1>5

LEMMA LastEndIs ==
  ASSUME TableSound, checkpoints # {}
  PROVE  /\ LastEnd \in Nat /\ LastEnd <= last
         /\ \A c \in checkpoints : c.end <= LastEnd
         /\ \E c \in checkpoints : c.end = LastEnd
<1>1. PICK n : n = Cardinality(checkpoints) OBVIOUS
<1>2. /\ n \in Nat /\ \A c \in checkpoints : Position(c) \in 0 .. n - 1
      /\ \A c, d \in checkpoints : c.start < d.start => Position(c) < Position(d)
      /\ \A k \in 0 .. n - 1 : \E c \in checkpoints : Position(c) = k
  BY <1>1, Positions
<1>3. PICK c0 \in checkpoints : TRUE OBVIOUS
<1>4. n - 1 \in 0 .. n - 1 BY <1>2, <1>3
<1>5. PICK c : c = CHOOSE d \in checkpoints : Position(d) = n - 1 OBVIOUS
<1>6. c \in checkpoints /\ Position(c) = n - 1 BY <1>2, <1>4, <1>5
<1>7. LastEnd = c.end BY <1>1, <1>5 DEF LastEnd
<1>8. ASSUME NEW d \in checkpoints PROVE d.end <= c.end
  <2>1. ~(c.start < d.start)
    <3>1. ~(n - 1 < Position(d)) BY <1>2
    <3> QED BY <1>2, <1>6, <3>1
  <2>2. /\ c.start \in Nat /\ d.start \in Nat /\ c.end \in Nat /\ d.end \in Nat
        /\ c.start <= c.end
        /\ d.start < c.start => d.end < c.start
        /\ d.start = c.start => c = d
    BY <1>6, Ranges
  <2> QED BY <2>1, <2>2
<1>9. c.end \in Nat /\ c.end <= last BY <1>6, Ranges
<1> QED BY <1>6, <1>7, <1>8, <1>9

-----------------------------------------------------------------------------
(* The batches. *)

LEMMA NextBatchIs ==
  ASSUME TableSound, seen \in Nat
  PROVE  /\ NextBatch \subseteq rows /\ \A b \in NextBatch : b > seen
         /\ \A b \in NextBatch, r \in rows : seen < r /\ r < b => r \in NextBatch
         /\ NextBatch = {} \/ LastBatch(NextBatch) => \A r \in rows : r > seen => r \in NextBatch
<1> DEFINE ahead == {r \in rows : r > seen}
           below(x) == {q \in ahead : q < x}
<1>1. last \in Nat /\ rows \subseteq 1 .. last /\ Batch \in Nat \ {0}
  BY VerifierAssumption DEF TableSound, VerifierAssumption
<1>2. ahead \subseteq 1 .. last /\ ahead \in SUBSET Nat
  <2>1. ahead \subseteq rows /\ 1 .. last \subseteq Nat OBVIOUS
  <2> HIDE DEF ahead
  <2> QED BY <1>1, <2>1
<1>3. NextBatch = {r \in ahead : Cardinality(below(r)) < Batch} BY DEF NextBatch
<1>4. \A S : S \subseteq ahead => IsFiniteSet(S) /\ Cardinality(S) \in Nat
  <2>1. IsFiniteSet(1 .. last) BY <1>1, FS_Interval
  <2>2. IsFiniteSet(ahead) BY <1>2, <2>1, FS_Subset
  <2> HIDE DEF ahead
  <2> QED BY <2>2, FS_Subset, FS_CardinalityType
<1>5. ASSUME NEW b \in NextBatch, NEW r \in rows, seen < r, r < b PROVE r \in NextBatch
  <2>1. r \in ahead /\ b \in ahead /\ r \in Int /\ b \in Int BY <1>1, <1>2, <1>3, <1>5
  <2>2. below(r) \subseteq below(b)
    <3>1. \A q \in ahead : q < r => q < b BY <1>2, <1>5, <2>1
    <3> QED BY <3>1
  <2>3. below(b) \subseteq ahead /\ below(r) \subseteq ahead OBVIOUS
  <2> HIDE DEF ahead, below
  <2>4. Cardinality(below(r)) <= Cardinality(below(b)) BY <1>4, <2>2, <2>3, FS_Subset
  <2>5. Cardinality(below(b)) < Batch BY <1>3
  <2>6. Cardinality(below(b)) \in Nat /\ Cardinality(below(r)) \in Nat BY <1>4, <2>3
  <2> QED BY <1>1, <1>3, <2>1, <2>4, <2>5, <2>6
<1>6. ASSUME NextBatch = {} \/ LastBatch(NextBatch), NEW r \in rows, r > seen
      PROVE  r \in NextBatch
  <2> DEFINE left == ahead \ NextBatch
  <2> SUFFICES ASSUME left # {} PROVE FALSE BY <1>6
  <2>1. left \in SUBSET Nat BY <1>2
  <2>2. PICK x : x = Min(left) OBVIOUS
  <2>3. x \in left /\ \A y \in left : x <= y
    <3> HIDE DEF left
    <3> QED BY <2>1, <2>2, SmallestIs
  <2>4. below(x) \subseteq NextBatch
    <3>1. \A y \in ahead : y < x => y \notin left BY <1>2, <2>3
    <3> QED BY <3>1
  <2>5. NextBatch \subseteq ahead /\ x \in ahead /\ below(x) \subseteq ahead BY <1>3, <2>3
  <2>6. ~(Cardinality(below(x)) < Batch) BY <1>3, <2>3
  <2> HIDE DEF left, ahead, below
  <2>7. /\ Cardinality(below(x)) <= Cardinality(NextBatch)
        /\ Cardinality(below(x)) \in Nat /\ Cardinality(NextBatch) \in Nat
    BY <1>4, <2>4, <2>5, FS_Subset
  <2>8. NextBatch = {} => Cardinality(NextBatch) = 0 BY FS_EmptySet
  <2>9. Cardinality(NextBatch) < Batch BY <1>1, <1>6, <2>8 DEF LastBatch
  <2> QED BY <1>1, <2>6, <2>7, <2>9
<1>7. NextBatch \subseteq rows /\ \A b \in NextBatch : b > seen BY <1>3
<1> QED BY <1>5, <1>6, <1>7

-----------------------------------------------------------------------------
(* The histories. *)

LEMMA AppendKeeps ==
  ASSUME TableSound, RootsOfRows, OnEventAppended PROVE TableSound' /\ RootsOfRows'
<1> DEFINE l == last + 1
<1>1. /\ last \in Nat /\ last \in 0 .. MaxSeq /\ MaxSeq \in Nat /\ rows \subseteq 1 .. last
      /\ leaves \subseteq 1 .. last /\ skips \subseteq 1 .. last /\ rows \ skips \subseteq leaves
      /\ \A c \in checkpoints \cup flight :
           DOMAIN c = {"start", "end", "root"} /\ c.start \in 1 .. last /\ c.end \in c.start .. last
  BY VerifierAssumption DEF TableSound, VerifierAssumption
<1>2. /\ last < MaxSeq /\ last' = l /\ rows' = rows \cup {l} /\ altered' = altered
      /\ checkpoints' = checkpoints /\ flight' = flight
      /\ cap' = cap /\ prunes' = prunes /\ tampers' = tampers
      /\ \/ leaves' = leaves \cup {l} /\ skips' = skips
         \/ leaves' = leaves /\ skips' = skips \cup {l}
  BY DEF OnEventAppended
<1>3. 1 .. l = (1 .. last) \cup {l} /\ l \notin 1 .. last /\ l \in 0 .. MaxSeq BY <1>1, <1>2
<1> HIDE DEF l
<1>4. \A c \in checkpoints \cup flight : c.start \in 1 .. l /\ c.end \in c.start .. l
  <2> TAKE c \in checkpoints \cup flight
  <2>1. c.start \in 1 .. last /\ c.end \in c.start .. last BY <1>1
  <2> QED BY <1>1, <2>1 DEF l
<1>5. TableSound'
  <2>1. rows' \subseteq 1 .. l /\ altered \subseteq rows' /\ leaves' \cup skips' \subseteq 1 .. l
        /\ rows' \ skips' \subseteq leaves'
    BY <1>1, <1>2, <1>3 DEF TableSound
  <2> QED BY <1>1, <1>2, <1>3, <1>4, <2>1 DEF TableSound
<1>6. RootsOfRows'
  <2>1. ASSUME Untouched
        PROVE  /\ altered' = {} /\ rows' = 1 .. l /\ leaves' = rows' \ skips'
               /\ \A c \in checkpoints \cup flight : c.root = {r \in rows' \ skips' : r <= c.end}
    <3>1. /\ altered = {} /\ rows = 1 .. last /\ leaves = rows \ skips
          /\ \A c \in checkpoints \cup flight : c.root = {r \in rows \ skips : r <= c.end}
      BY <2>1 DEF RootsOfRows
    <3>2. ASSUME NEW c \in checkpoints \cup flight
          PROVE  {r \in rows' \ skips' : r <= c.end} = {r \in rows \ skips : r <= c.end}
      <4>1. c.end \in Int /\ c.end <= last
        <5>1. c.start \in 1 .. last /\ c.end \in c.start .. last BY <1>1
        <5> QED BY <1>1, <5>1
      <4>2. ~(l <= c.end) BY <1>1, <4>1 DEF l
      <4>3. rows' \ skips' \subseteq (rows \ skips) \cup {l} /\ rows \ skips \subseteq rows' \ skips'
        BY <1>1, <1>2, <1>3
      <4> QED BY <4>2, <4>3
    <3>3. leaves' = rows' \ skips' BY <1>1, <1>2, <1>3, <3>1
    <3> QED BY <1>2, <1>3, <3>1, <3>2, <3>3
  <2> QED BY <1>2, <2>1 DEF RootsOfRows, Untouched
<1> QED BY <1>5, <1>6

(* The range of a submission follows those of all checkpoints. *)
LEMMA SubmitKeeps ==
  ASSUME TableSound, RootsOfRows, Submit PROVE TableSound' /\ RootsOfRows'
<1> DEFINE E == {0} \cup {c.end : c \in checkpoints}
           s == Max(E) + 1
           since == {r \in rows : r >= s}
           f == [start |-> s, end |-> Max(since), root |-> leaves]
<1>1. /\ flight = {} /\ since # {} /\ flight' = {f}
      /\ UNCHANGED <<last, rows, altered, leaves, skips, cap, checkpoints, prunes, tampers>>
  BY DEF Submit
<1>2. /\ last \in Nat /\ rows \subseteq 1 .. last
      /\ \A c \in checkpoints : c.end \in Nat /\ c.end <= last
  BY Ranges DEF TableSound
<1>3. Max(E) \in E /\ \A x \in E : x <= Max(E)
  <2>1. E \in SUBSET (0 .. last) /\ E # {} BY <1>2
  <2> HIDE DEF E
  <2> QED BY <1>2, <2>1, LargestIs
<1>4. Max(E) \in Nat /\ \A c \in checkpoints : c.end < s
  <2>1. Max(E) \in Nat BY <1>2, <1>3
  <2>2. \A c \in checkpoints : c.end \in E OBVIOUS
  <2> HIDE DEF E
  <2> QED BY <1>2, <1>3, <2>1, <2>2
<1> HIDE DEF E
<1>5. Max(since) \in since /\ \A x \in since : x <= Max(since)
  <2>1. since \in SUBSET (0 .. last)
    <3>1. since \subseteq rows /\ 1 .. last \subseteq 0 .. last BY <1>2
    <3> HIDE DEF since
    <3> QED BY <1>2, <3>1
  <2> HIDE DEF since
  <2> QED BY <1>1, <1>2, <2>1, LargestIs
<1>6. PICK m : m = Max(since) OBVIOUS
<1>7. /\ m \in rows /\ m >= s /\ \A x \in rows : x >= s => x <= m
      /\ m \in 1 .. last /\ s \in Nat /\ s >= 1
  <2>1. s \in Nat /\ s >= 1 BY <1>4
  <2> HIDE DEF s
  <2>2. m \in rows /\ m >= s /\ \A x \in rows : x >= s => x <= m BY <1>5, <1>6
  <2>3. m \in 1 .. last BY <1>2, <2>2
  <2> QED BY <2>1, <2>2, <2>3
<1>8. PICK g : g = f OBVIOUS
<1>9. DOMAIN g = {"start", "end", "root"} /\ g.start = s /\ g.end = m /\ g.root = leaves
  BY <1>6, <1>8
<1>10. s \in 1 .. last /\ m \in s .. last BY <1>2, <1>7
<1> HIDE DEF since, s, f
<1>11. TableSound'
  <2>1. \A c \in checkpoints \cup {g} :
          DOMAIN c = {"start", "end", "root"} /\ c.start \in 1 .. last /\ c.end \in c.start .. last
    BY <1>9, <1>10 DEF TableSound
  <2>2. \A c \in checkpoints, h \in {g} : c.end < h.start BY <1>4, <1>9
  <2>3. flight' = {g} BY <1>1, <1>8
  <2> QED BY <1>1, <2>1, <2>2, <2>3 DEF TableSound
<1>12. RootsOfRows'
  <2>1. ASSUME Untouched PROVE leaves = {r \in rows \ skips : r <= m}
    <3>1. rows = 1 .. last /\ leaves = rows \ skips BY <2>1 DEF RootsOfRows
    <3>2. last \in rows /\ last >= s BY <1>2, <1>7, <3>1
    <3>3. last <= m BY <1>7, <3>2
    <3> QED BY <1>2, <1>7, <3>1, <3>3
  <2>2. flight' = {g} BY <1>1, <1>8
  <2>3. Untouched' <=> Untouched BY <1>1 DEF Untouched
  <2> QED BY <1>1, <1>9, <2>1, <2>2, <2>3 DEF RootsOfRows
<1> QED BY <1>11, <1>12

LEMMA AnchoredKeeps ==
  ASSUME TableSound, RootsOfRows, Anchored PROVE TableSound' /\ RootsOfRows'
<1>1. /\ flight # {} /\ checkpoints' = checkpoints \cup flight /\ flight' = {}
      /\ UNCHANGED <<last, rows, altered, leaves, skips, cap, prunes, tampers>>
  BY DEF Anchored
<1>2. PICK f \in flight : flight = {f} BY <1>1 DEF TableSound
<1>3. IsFiniteSet(checkpoints') BY <1>1, <1>2, FS_AddElement DEF TableSound
<1>4. \A c, d \in checkpoints' : c = d \/ c.end < d.start \/ d.end < c.start
  BY <1>1, <1>2 DEF TableSound
<1>5. TableSound' BY <1>1, <1>3, <1>4 DEF TableSound
<1>6. RootsOfRows' BY <1>1 DEF RootsOfRows, Untouched
<1> QED BY <1>5, <1>6

LEMMA PruneKeeps ==
  ASSUME TableSound, RootsOfRows, NEW k, Prune(k) PROVE TableSound' /\ RootsOfRows'
<1>1. /\ rows' \subseteq rows /\ altered' \subseteq rows' /\ checkpoints' \subseteq checkpoints
      /\ prunes' = prunes + 1
      /\ UNCHANGED <<last, leaves, skips, cap, flight, tampers>>
  BY DEF Prune
<1>2. IsFiniteSet(checkpoints') BY <1>1, FS_Subset DEF TableSound
<1>3. TableSound' BY <1>1, <1>2 DEF TableSound
<1>4. ~Untouched' BY <1>1 DEF RootsOfRows, Untouched
<1> QED BY <1>1, <1>3, <1>4 DEF RootsOfRows

LEMMA RaiseCapKeeps ==
  ASSUME TableSound, RootsOfRows, RaiseCap PROVE TableSound' /\ RootsOfRows'
<1>1. /\ cap < MaxSeq /\ cap' = MaxSeq /\ leaves' = leaves \cup (skips \cap rows)
      /\ skips' = skips \ rows /\ altered' = altered \ skips /\ flight' = {}
      /\ UNCHANGED <<last, rows, checkpoints, prunes, tampers>>
  BY DEF RaiseCap
<1>2. TableSound' BY <1>1 DEF TableSound
<1>3. ~Untouched'
  <2>1. cap \in {Cap, MaxSeq} /\ MaxSeq \in Nat BY VerifierAssumption DEF RootsOfRows, VerifierAssumption
  <2>2. cap = Cap /\ Cap # MaxSeq BY <1>1, <2>1
  <2> QED BY <1>1, <2>2 DEF Untouched
<1> QED BY <1>1, <1>2, <1>3 DEF RootsOfRows

LEMMA TamperKeeps ==
  ASSUME TableSound, RootsOfRows, Tamper PROVE TableSound' /\ RootsOfRows'
<1>1. /\ tampers' = tampers + 1 /\ rows' \subseteq rows /\ altered' \subseteq rows'
      /\ UNCHANGED <<last, leaves, skips, cap, checkpoints, flight, prunes>>
  BY DEF Tamper, TableSound
<1>2. TableSound' BY <1>1 DEF TableSound
<1>3. ~Untouched' BY <1>1 DEF RootsOfRows, Untouched
<1> QED BY <1>1, <1>2, <1>3 DEF RootsOfRows

LEMMA HistoryKeeps == ASSUME VerifierInv, History PROVE VerifierInv'
<1>1. TableSound /\ RootsOfRows /\ pc = "idle" /\ UNCHANGED replay
  BY DEF VerifierInv, History
<1>2. TableSound' /\ RootsOfRows'
  BY <1>1, AppendKeeps, SubmitKeeps, AnchoredKeeps, PruneKeeps, RaiseCapKeeps, TamperKeeps
  DEF History
<1>3. VerdictSound'
  <2>1. verdict = NoVerdict /\ pc' = "idle" /\ NoVerdict.status = "none"
        /\ seen' = 0 /\ batch' = {} /\ cpIdx' = 0 /\ tree' = {} /\ verdict' = NoVerdict
    BY <1>1 DEF VerifierInv, VerdictSound, replay, NoVerdict
  <2> QED BY <2>1 DEF VerdictSound
<1>4. ReplayRight' BY <1>1 DEF ReplayRight, replay
<1> QED BY <1>2, <1>3, <1>4 DEF VerifierInv

-----------------------------------------------------------------------------
(* The verification, over a table that stays as it is. *)

LEMMA TableStays ==
  ASSUME UNCHANGED table
  PROVE  /\ TableSound' <=> TableSound
         /\ RootsOfRows' <=> RootsOfRows
         /\ Tracked' = Tracked /\ LastEnd' = LastEnd
         /\ checkpoints' = checkpoints /\ rows' = rows /\ skips' = skips
         /\ \A c : Position(c)' = Position(c)
         /\ \A c : Met(c)' <=> Met(c)
         /\ \A c : Fails(c)' <=> Fails(c)
<1>1. /\ last' = last /\ rows' = rows /\ altered' = altered /\ leaves' = leaves
      /\ skips' = skips /\ cap' = cap /\ checkpoints' = checkpoints /\ flight' = flight
      /\ prunes' = prunes /\ tampers' = tampers
  BY DEF table
<1>2. TableSound' <=> TableSound BY <1>1 DEF TableSound
<1>3. RootsOfRows' <=> RootsOfRows BY <1>1 DEF RootsOfRows, Untouched
<1>4. \A c : Position(c)' = Position(c) BY <1>1 DEF Position
<1>5. LastEnd' = LastEnd BY <1>1, <1>4 DEF LastEnd, Position
<1>6. \A c : Met(c)' <=> Met(c) BY <1>1 DEF Met
<1>7. \A c : Fails(c)' <=> Fails(c) BY <1>1 DEF Fails
<1>8. Tracked' = Tracked BY <1>1 DEF Tracked
<1> QED BY <1>1, <1>2, <1>3, <1>4, <1>5, <1>6, <1>7, <1>8

LEMMA VerifierInvInit == VerifierInit => VerifierInv
<1> SUFFICES ASSUME VerifierInit PROVE VerifierInv OBVIOUS
<1>1. /\ last = 0 /\ rows = {} /\ altered = {} /\ leaves = {} /\ skips = {} /\ cap = Cap
      /\ checkpoints = {} /\ flight = {} /\ prunes = 0 /\ tampers = 0
      /\ pc = "idle" /\ seen = 0 /\ batch = {} /\ cpIdx = 0 /\ tree = {} /\ verdict = NoVerdict
  BY DEF VerifierInit
<1>2. MaxSeq \in Nat BY VerifierAssumption DEF VerifierAssumption
<1>3. TableSound BY <1>1, <1>2, FS_EmptySet DEF TableSound
<1>4. RootsOfRows BY <1>1 DEF RootsOfRows
<1>5. ReplayRight BY <1>1 DEF ReplayRight
<1>6. VerdictSound BY <1>1 DEF VerdictSound, NoVerdict
<1> QED BY <1>3, <1>4, <1>5, <1>6 DEF VerifierInv

LEMMA VerifyRangeKeeps == ASSUME VerifierInv, VerifyRange PROVE VerifierInv'
<1>1. /\ pc = "idle" /\ UNCHANGED table /\ seen' = 0 /\ batch' = {} /\ cpIdx' = 0
      /\ tree' = {} /\ verdict = NoVerdict
  BY DEF VerifyRange, VerifierInv, VerdictSound
<1>2. TableSound /\ TableSound' /\ RootsOfRows' BY <1>1, TableStays DEF VerifierInv
<1>3. CASE checkpoints = {}
  <2>1. /\ pc' = "done" /\ verdict' = [NoVerdict EXCEPT !.status = "anchor-pending"]
        /\ checkpoints' = {}
    BY <1>1, <1>3, TableStays DEF VerifyRange
  <2>2. DOMAIN verdict' = DOMAIN NoVerdict /\ verdict'.status = "anchor-pending"
    BY <2>1 DEF NoVerdict
  <2>3. VerdictRight' BY <2>1, <2>2 DEF VerdictRight
  <2>4. VerdictSound' BY <2>1, <2>2, <2>3 DEF VerdictSound, NoVerdict
  <2>5. ReplayRight' BY <2>1 DEF ReplayRight
  <2> QED BY <1>2, <2>4, <2>5 DEF VerifierInv
<1>4. CASE checkpoints # {}
  <2>1. pc' = "replay" /\ verdict' = NoVerdict BY <1>1, <1>4 DEF VerifyRange
  <2>2. NoVerdict = [NoVerdict EXCEPT !.checked = NoVerdict.checked] /\ NoVerdict.status = "none"
    BY DEF NoVerdict
  <2>3. PICK n : n = Cardinality(checkpoints) OBVIOUS
  <2>4. \A c \in checkpoints : Position(c) \in 0 .. n - 1 /\ n \in Nat /\ c.end \in Nat /\ c.end >= 1
    BY <1>2, <2>3, Positions, Ranges
  <2>5. LastEnd \in Nat BY <1>2, <1>4, LastEndIs
  <2>6. \A r \in rows : ~(r <= 0) BY <1>2, Ranges DEF TableSound
  <2>7. \A c \in checkpoints : ~(Position(c) < 0) /\ c.end > 0 BY <2>4
  <2>8. /\ LastEnd' = LastEnd /\ checkpoints' = checkpoints /\ rows' = rows
        /\ \A c : Position(c)' = Position(c)
    BY <1>1, TableStays
  <2>9. ReplayRight'
    <3>1. tree' = {r \in rows' \ skips' : r <= seen'} BY <1>1, <2>6, <2>8
    <3>2. 0 <= LastEnd /\ seen' <= LastEnd' BY <1>1, <2>5, <2>8
    <3>3. \A c \in checkpoints' : /\ Position(c)' < cpIdx' => c.end \in rows' /\ ~Fails(c)'
                                  /\ Position(c)' = cpIdx' => c.end \notin rows' \/ c.end > seen'
      BY <1>1, <2>7, <2>8
    <3> QED BY <1>1, <1>4, <2>1, <2>2, <2>8, <3>1, <3>2, <3>3 DEF ReplayRight
  <2>10. VerdictSound' BY <2>1, <2>2 DEF VerdictSound
  <2> QED BY <1>2, <2>9, <2>10 DEF VerifierInv
<1> QED BY <1>3, <1>4

(* A checkpoint that is met and fails has the next one at its row, still to  *)
(* come, at or before it.                                                    *)
LEMMA NextIsDue ==
  ASSUME TableSound, ReplayRight, pc = "replay", NEW c \in checkpoints, Met(c), Fails(c)
  PROVE  \E d \in checkpoints :
            Position(d) = cpIdx /\ d.end \in rows /\ d.end > seen /\ d.end <= LastEnd
<1>1. PICK n : n = Cardinality(checkpoints) OBVIOUS
<1>2. /\ n \in Nat /\ Position(c) \in 0 .. n - 1
      /\ \A d \in checkpoints : c.start < d.start => Position(c) < Position(d)
      /\ \A k \in 0 .. n - 1 : \E d \in checkpoints : Position(d) = k
  BY <1>1, Positions
<1>3. cpIdx \in Nat /\ ~(Position(c) < cpIdx) BY DEF ReplayRight
<1>4. cpIdx \in 0 .. n - 1 /\ cpIdx <= Position(c) BY <1>2, <1>3
<1>5. PICK d \in checkpoints : Position(d) = cpIdx BY <1>2, <1>4
<1>6. ~(c.start < d.start)
  <2>1. ~(Position(c) < Position(d)) BY <1>3, <1>5
  <2> QED BY <1>2, <2>1
<1>7. d.start <= c.start BY <1>6, Ranges
<1>8. d.end \in rows BY <1>7 DEF Met
<1>9. d.end > seen BY <1>5, <1>8 DEF ReplayRight
<1>10. d.end <= LastEnd BY LastEndIs
<1> QED BY <1>5, <1>8, <1>9, <1>10

LEMMA FetchKeeps == ASSUME VerifierInv, Fetch PROVE VerifierInv'
<1>1. /\ pc = "replay" /\ UNCHANGED table /\ batch' = NextBatch /\ seen < LastEnd
      /\ seen' = seen /\ cpIdx' = cpIdx /\ tree' = tree
  BY DEF Fetch
<1>2. /\ TableSound /\ TableSound' /\ RootsOfRows' /\ ReplayRight
      /\ DOMAIN verdict = DOMAIN NoVerdict
  BY <1>1, TableStays DEF VerifierInv, VerdictSound
<1>3. checkpoints # {} /\ seen \in Nat /\ LastEnd \in Nat /\ last \in Nat /\ rows \subseteq 1 .. last
  <2>1. checkpoints # {} /\ seen \in rows \cup {0} BY <1>1, <1>2 DEF ReplayRight
  <2>2. last \in Nat /\ rows \subseteq 1 .. last BY <1>2, Ranges DEF TableSound
  <2> QED BY <1>2, <2>1, <2>2, LastEndIs
<1>4. CASE NextBatch = {}
  <2>1. pc' = "done" /\ verdict' = [verdict EXCEPT !.status = "events-missing"]
    BY <1>4 DEF Fetch
  <2>2. DOMAIN verdict' = DOMAIN NoVerdict /\ verdict'.status = "events-missing"
    BY <1>2, <2>1 DEF NoVerdict
  <2>3. \A r \in rows : ~(r > seen) BY <1>2, <1>3, <1>4, NextBatchIs
  <2>4. \A r \in rows : r < LastEnd BY <1>1, <1>3, <2>3
  <2>5. \A c \in checkpoints : ~(Met(c) /\ Fails(c)) BY <1>1, <1>2, <2>3, NextIsDue
  <2>6. VerdictRight' BY <1>1, <1>3, <2>2, <2>4, <2>5, TableStays DEF VerdictRight
  <2>7. VerdictSound' BY <2>1, <2>2, <2>6 DEF VerdictSound, NoVerdict
  <2>8. ReplayRight' BY <2>1 DEF ReplayRight
  <2> QED BY <1>2, <2>7, <2>8 DEF VerifierInv
<1>5. CASE NextBatch # {}
  <2>1. pc' = "replay" /\ verdict' = verdict BY <1>1, <1>5 DEF Fetch
  <2>2. /\ NextBatch \subseteq rows /\ \A b \in NextBatch : b > seen
        /\ \A b \in NextBatch, r \in rows : seen < r /\ r < b => r \in NextBatch
    BY <1>2, <1>3, NextBatchIs
  <2>3. ReplayRight' BY <1>1, <1>2, <2>1, <2>2, TableStays DEF ReplayRight
  <2>4. verdict.status = "none" BY <1>1, <1>2 DEF ReplayRight, NoVerdict
  <2>5. VerdictSound' BY <1>2, <2>1, <2>4 DEF VerdictSound
  <2> QED BY <1>2, <2>3, <2>5 DEF VerifierInv
<1> QED BY <1>4, <1>5

LEMMA ReplayEndsKeeps == ASSUME VerifierInv, ReplayEnds PROVE VerifierInv'
<1>1. PICK s \in {"verified", "anchor-pending"} : verdict' = [verdict EXCEPT !.status = s]
  BY DEF ReplayEnds
<1>2. pc = "replay" /\ seen >= LastEnd /\ pc' = "done" /\ UNCHANGED table BY DEF ReplayEnds
<1>3. /\ TableSound /\ TableSound' /\ RootsOfRows' /\ ReplayRight
      /\ DOMAIN verdict = DOMAIN NoVerdict
  BY <1>2, TableStays DEF VerifierInv, VerdictSound
<1>4. /\ checkpoints # {} /\ seen \in rows \cup {0} /\ LastEnd \in Nat /\ LastEnd >= 1
      /\ last \in Nat /\ rows \subseteq 1 .. last
  <2>1. checkpoints # {} /\ seen \in rows \cup {0} BY <1>2, <1>3 DEF ReplayRight
  <2>2. last \in Nat /\ rows \subseteq 1 .. last BY <1>3, Ranges DEF TableSound
  <2>3. PICK c \in checkpoints : c.end = LastEnd BY <1>3, <2>1, LastEndIs
  <2>4. c.end \in Nat /\ c.end >= 1 BY <1>3, Ranges
  <2> QED BY <2>1, <2>2, <2>3, <2>4
<1>5. seen \in rows /\ ~(seen < LastEnd) BY <1>2, <1>4
<1>6. \A c \in checkpoints : ~(Met(c) /\ Fails(c))
  <2>1. \A x \in rows : ~(x > seen /\ x <= LastEnd) BY <1>2, <1>4
  <2> QED BY <1>2, <1>3, <2>1, NextIsDue
<1>7. DOMAIN verdict' = DOMAIN NoVerdict /\ verdict'.status \in {"verified", "anchor-pending"}
  BY <1>1, <1>3 DEF NoVerdict
<1>8. VerdictRight' BY <1>2, <1>5, <1>6, <1>7, TableStays DEF VerdictRight
<1>9. VerdictSound' BY <1>2, <1>7, <1>8 DEF VerdictSound, NoVerdict
<1>10. ReplayRight' BY <1>2 DEF ReplayRight
<1> QED BY <1>3, <1>9, <1>10 DEF VerifierInv

(* Met, and not passed over: the next checkpoint, at a row that is there.    *)
LEMMA NextIsMet ==
  ASSUME TableSound, ReplayRight, pc = "replay",
         NEW c \in checkpoints, Position(c) = cpIdx, c.end \in rows
  PROVE  Met(c)
<1>1. PICK n : n = Cardinality(checkpoints) OBVIOUS
<1>2. \A d \in checkpoints : d.start <= c.start => d.end \in rows
  <2> SUFFICES ASSUME NEW d \in checkpoints, d.start <= c.start PROVE d.end \in rows
    OBVIOUS
  <2>1. d.start \in Nat /\ c.start \in Nat /\ (d.start = c.start => c = d) BY Ranges
  <2>2. CASE d.start < c.start
    <3>1. Position(d) < cpIdx BY <1>1, <2>2, Positions
    <3> QED BY <3>1 DEF ReplayRight
  <2> QED BY <2>1, <2>2
<1> QED BY <1>2 DEF Met

(* The checkpoints whose turn it is at a row: none, or one.                  *)
LEMMA DueIs ==
  ASSUME TableSound, NEW e
  PROVE  \/ Due(e) = {} /\ Cardinality(Due(e)) = 0
         \/ \E c \in checkpoints : Due(e) = {c} /\ Cardinality(Due(e)) = 1
<1>1. PICK n : n = Cardinality(checkpoints) OBVIOUS
<1>2. ASSUME NEW c \in checkpoints, NEW d \in checkpoints, Position(c) = Position(d) PROVE c = d
  <2>1. Position(c) \in 0 .. n - 1 /\ Position(d) \in 0 .. n - 1 /\ n \in Nat BY <1>1, Positions
  <2>2. ~(Position(c) < Position(d)) /\ ~(Position(d) < Position(c)) BY <1>2, <2>1
  <2>3. ~(c.start < d.start) /\ ~(d.start < c.start) BY <1>1, <2>2, Positions
  <2> QED BY <2>3, Ranges
<1>3. \A c, d \in Due(e) : c = d BY <1>2 DEF Due
<1>4. CASE Due(e) = {} BY <1>4, FS_EmptySet
<1>5. CASE Due(e) # {}
  <2>1. PICK c \in checkpoints : c \in Due(e) BY <1>5 DEF Due
  <2>2. Due(e) = {c} BY <1>3, <2>1
  <2> QED BY <2>2, FS_Singleton
<1> QED BY <1>4, <1>5

LEMMA ReplayKeeps == ASSUME VerifierInv, Replay PROVE VerifierInv'
<1>1. pc = "replay" /\ batch # {} /\ UNCHANGED table BY DEF Replay
<1>2. /\ TableSound /\ TableSound' /\ RootsOfRows' /\ ReplayRight
      /\ DOMAIN verdict = DOMAIN NoVerdict
  BY <1>1, TableStays DEF VerifierInv, VerdictSound
<1>3. /\ checkpoints # {} /\ seen \in Nat /\ LastEnd \in Nat /\ last \in Nat
      /\ rows \subseteq 1 .. last /\ seen <= LastEnd /\ cpIdx \in Nat /\ altered \subseteq rows
  <2>1. checkpoints # {} /\ seen \in rows \cup {0} /\ seen <= LastEnd /\ cpIdx \in Nat
    BY <1>1, <1>2 DEF ReplayRight
  <2>2. last \in Nat /\ rows \subseteq 1 .. last BY <1>2, Ranges DEF TableSound
  <2> QED BY <1>2, <2>1, <2>2, LastEndIs DEF TableSound
<1>4. /\ batch \subseteq rows
      /\ \A b \in batch : b > seen /\ \A r \in rows : seen < r /\ r < b => r \in batch
      /\ verdict = [NoVerdict EXCEPT !.checked = verdict.checked]
      /\ tree = {r \in rows \ skips : r <= seen}
      /\ \A c \in checkpoints :
           /\ Position(c) < cpIdx => c.end \in rows /\ ~Fails(c)
           /\ Position(c) = cpIdx => c.end \notin rows \/ c.end > seen
  BY <1>1, <1>2 DEF ReplayRight
<1>5. verdict.status = "none" /\ verdict.from = 0 /\ verdict.to = 0 BY <1>4 DEF NoVerdict
<1>6. PICK e : e = Min(batch) OBVIOUS
<1>7. e \in batch /\ \A b \in batch : e <= b
  <2>1. batch \in SUBSET Nat BY <1>3, <1>4
  <2> QED BY <1>1, <1>6, <2>1, SmallestIs
<1>8. e \in rows /\ e \in Nat /\ e > seen /\ \A r \in rows : ~(seen < r /\ r < e)
  <2>1. e \in rows /\ e \in Nat /\ e > seen BY <1>3, <1>4, <1>7
  <2>2. ASSUME NEW r \in rows, seen < r, r < e PROVE FALSE
    <3>1. r \in batch /\ e <= r BY <1>4, <1>7, <2>2
    <3>2. r \in Nat BY <1>3
    <3> QED BY <2>1, <2>2, <3>1, <3>2
  <2> QED BY <2>1, <2>2
<1>9. CASE Min(batch) > LastEnd
  <2>1. batch' = {} /\ UNCHANGED <<pc, seen, cpIdx, tree, verdict>> BY <1>9 DEF Replay
  <2>2. ReplayRight' BY <1>1, <1>2, <2>1, TableStays DEF ReplayRight
  <2>3. VerdictSound' BY <1>1, <1>2, <1>5, <2>1 DEF VerdictSound
  <2> QED BY <1>2, <2>2, <2>3 DEF VerifierInv
<1>10. CASE ~(Min(batch) > LastEnd)
  <2>1. /\ tree' = Applied(e)
        /\ verdict' = [verdict EXCEPT
             !.checked = @ + Cardinality(Due(e)),
             !.status  = IF \A c \in Due(e) : RootMatches(c) THEN @ ELSE "root-mismatch"]
        /\ IF \A c \in Due(e) : RootMatches(c)
             THEN /\ seen' = e /\ batch' = batch \ {e}
                  /\ cpIdx' = cpIdx + Cardinality(Due(e)) /\ pc' = pc
             ELSE pc' = "scan" /\ seen' = 0 /\ batch' = {} /\ cpIdx' = cpIdx
    BY <1>6, <1>10 DEF Replay
  <2>2. e <= LastEnd BY <1>3, <1>6, <1>8, <1>10
  <2>3. tree' = {r \in rows \ skips : r <= e}
    <3>1. \A r \in rows : r <= e <=> r <= seen \/ r = e
      <4> TAKE r \in rows
      <4>1. r \in Nat /\ ~(seen < r /\ r < e) BY <1>3, <1>8
      <4> QED BY <1>3, <1>8, <4>1
    <3> QED BY <1>4, <1>8, <2>1, <3>1 DEF Applied
  <2>4. \A c \in Due(e) : /\ c \in checkpoints /\ Position(c) = cpIdx /\ c.end = e
                          /\ RootMatches(c) <=> ~Fails(c)
    <3>1. \A r \in altered \ skips : r <= e <=> r \in tree' BY <1>3, <2>3
    <3>2. tree' \cap altered = {} <=> ~ \E r \in altered \ skips : r <= e BY <2>3, <3>1
    <3> QED BY <2>3, <3>2 DEF Due, RootMatches, Fails
  <2>5. DOMAIN verdict' = DOMAIN NoVerdict /\ verdict'.from = 0 /\ verdict'.to = 0
    BY <1>2, <1>5, <2>1 DEF NoVerdict
  <2>6. CASE \A c \in Due(e) : RootMatches(c)
    <3>1. seen' = e /\ batch' = batch \ {e} /\ cpIdx' = cpIdx + Cardinality(Due(e)) /\ pc' = "replay"
      BY <1>1, <2>1, <2>6
    <3>2. verdict' = [verdict EXCEPT !.checked = verdict.checked + Cardinality(Due(e))]
      BY <1>5, <2>1, <2>6 DEF NoVerdict
    <3>3. verdict' = [NoVerdict EXCEPT !.checked = verdict'.checked] BY <1>4, <3>2 DEF NoVerdict
    <3>4. /\ batch' \subseteq rows
          /\ \A b \in batch' : b > e /\ \A r \in rows : e < r /\ r < b => r \in batch'
      <4>1. \A b \in batch' : b > e BY <1>3, <1>4, <1>7, <1>8, <3>1
      <4>2. ASSUME NEW b \in batch', NEW r \in rows, e < r, r < b PROVE r \in batch'
        <5>1. r \in Nat /\ seen < r /\ r # e BY <1>3, <1>8, <4>2
        <5>2. r \in batch BY <1>4, <3>1, <4>2, <5>1
        <5> QED BY <3>1, <5>1, <5>2
      <4> QED BY <1>4, <3>1, <4>1, <4>2
    <3>5. /\ cpIdx' \in Nat
          /\ \A c \in checkpoints : /\ Position(c) < cpIdx' => c.end \in rows /\ ~Fails(c)
                                    /\ Position(c) = cpIdx' => c.end \notin rows \/ c.end > e
      <4>1. CASE Due(e) = {} /\ Cardinality(Due(e)) = 0
        <5>1. cpIdx' = cpIdx BY <1>3, <3>1, <4>1
        <5>2. ASSUME NEW c \in checkpoints, Position(c) = cpIdx, c.end \in rows PROVE c.end > e
          <6>1. c.end > seen /\ c.end # e BY <1>4, <4>1, <5>2 DEF Due
          <6>2. ~(c.end < e) BY <1>8, <5>2, <6>1
          <6>3. c.end \in Nat /\ e \in Nat BY <1>2, <1>8, Ranges
          <6> QED BY <6>1, <6>2, <6>3
        <5> QED BY <1>3, <1>4, <5>1, <5>2
      <4>2. ASSUME NEW c \in checkpoints, Due(e) = {c}, Cardinality(Due(e)) = 1
            PROVE  /\ cpIdx' \in Nat
                   /\ \A d \in checkpoints : /\ Position(d) < cpIdx' => d.end \in rows /\ ~Fails(d)
                                             /\ Position(d) = cpIdx' => d.end \notin rows \/ d.end > e
        <5>1. cpIdx' = cpIdx + 1 /\ cpIdx' \in Nat BY <1>3, <3>1, <4>2
        <5>2. c.end = e /\ Position(c) = cpIdx /\ ~Fails(c) BY <2>4, <2>6, <4>2
        <5>3. PICK n : n = Cardinality(checkpoints) OBVIOUS
        <5>4. /\ n \in Nat /\ \A d \in checkpoints : Position(d) \in 0 .. n - 1
              /\ \A d \in checkpoints : d.start < c.start => Position(d) < Position(c)
          BY <1>2, <5>3, Positions
        <5>5. ASSUME NEW d \in checkpoints, Position(d) < cpIdx' PROVE d.end \in rows /\ ~Fails(d)
          <6>1. Position(d) \in Int BY <5>4
          <6>2. Position(d) < cpIdx \/ Position(d) = cpIdx BY <1>3, <5>1, <5>5, <6>1
          <6>3. CASE Position(d) < cpIdx BY <1>4, <6>3
          <6>4. CASE Position(d) = cpIdx
            <7>1. ~(d.start < c.start) /\ ~(c.start < d.start)
              <8>1. ~(Position(d) < Position(c)) /\ ~(Position(c) < Position(d)) BY <5>2, <6>1, <6>4
              <8> QED BY <1>2, <5>3, <8>1, Positions
            <7>2. d = c BY <1>2, <7>1, Ranges
            <7> QED BY <1>8, <5>2, <7>2
          <6> QED BY <6>2, <6>3, <6>4
        <5>6. ASSUME NEW d \in checkpoints, Position(d) = cpIdx' PROVE d.end > e
          <6>1. ~(Position(d) < Position(c)) /\ Position(d) # Position(c) BY <1>3, <5>1, <5>2, <5>6
          <6>2. ~(d.start < c.start) /\ d # c BY <5>4, <6>1
          <6>3. c.start < d.start BY <1>2, <6>2, Ranges
          <6>4. c.end < d.start BY <1>2, <6>3, Ranges
          <6>5. d.start \in Nat /\ d.end \in Nat /\ d.start <= d.end /\ c.end \in Nat BY <1>2, Ranges
          <6> QED BY <5>2, <6>4, <6>5
        <5> QED BY <5>1, <5>5, <5>6
      <4> QED BY <1>2, <4>1, <4>2, DueIs
    <3>6. ReplayRight'
      <4>1. /\ LastEnd' = LastEnd /\ checkpoints' = checkpoints /\ rows' = rows /\ skips' = skips
            /\ \A c : Position(c)' = Position(c)
            /\ \A c : Fails(c)' <=> Fails(c)
        BY <1>1, TableStays
      <4> QED BY <1>3, <1>8, <2>2, <2>3, <3>1, <3>3, <3>4, <3>5, <4>1 DEF ReplayRight
    <3>7. VerdictSound'
      <4>1. verdict'.status = "none" BY <3>3 DEF NoVerdict
      <4> QED BY <2>5, <3>1, <4>1 DEF VerdictSound
    <3> QED BY <1>2, <3>6, <3>7 DEF VerifierInv
  <2>7. CASE ~ \A c \in Due(e) : RootMatches(c)
    <3>1. PICK c \in Due(e) : ~RootMatches(c) BY <2>7
    <3>2. pc' = "scan" /\ seen' = 0 BY <2>1, <2>7
    <3>3. verdict'.status = "root-mismatch" BY <1>2, <2>1, <2>7 DEF NoVerdict
    <3>4. c \in checkpoints /\ Fails(c) /\ Position(c) = cpIdx /\ c.end = e BY <2>4, <3>1
    <3>5. Met(c) BY <1>1, <1>2, <1>8, <3>4, NextIsMet
    <3>6. \E d \in checkpoints' : Met(d)' /\ Fails(d)' BY <1>1, <3>4, <3>5, TableStays
    <3>7. {r \in Tracked' : r <= seen'} = {}
      <4>1. \A r \in Tracked : ~(r <= 0) BY <1>3 DEF Tracked
      <4> QED BY <1>1, <3>2, <4>1, TableStays
    <3>8. VerdictSound' BY <2>5, <3>2, <3>3, <3>6, <3>7 DEF VerdictSound, Brackets
    <3>9. ReplayRight' BY <3>2 DEF ReplayRight
    <3> QED BY <1>2, <3>8, <3>9 DEF VerifierInv
  <2> QED BY <2>6, <2>7
<1> QED BY <1>9, <1>10

(* The brackets of a set that grows by later elements.                       *)
LEMMA BracketsGrow ==
  ASSUME NEW k \in Nat, NEW A \in SUBSET (0 .. k), NEW B \in SUBSET (0 .. k), B # {}, A # {},
         \A x \in A, y \in B : x < y
  PROVE  Min(A \cup B) = Min(A) /\ Max(A \cup B) = Max(B)
<1>1. PICK a, b, c, d : a = Min(A) /\ b = Max(B) /\ c = Min(A \cup B) /\ d = Max(A \cup B)
  OBVIOUS
<1>2. A \in SUBSET Nat /\ A \cup B \in SUBSET Nat /\ A \cup B \in SUBSET (0 .. k) OBVIOUS
<1>3. a \in A /\ \A x \in A : a <= x BY <1>1, <1>2, SmallestIs
<1>4. b \in B /\ \A x \in B : x <= b BY <1>1, LargestIs
<1>5. c \in A \cup B /\ \A x \in A \cup B : c <= x
  <2>1. A \cup B # {} OBVIOUS
  <2> QED BY <1>1, <1>2, <2>1, SmallestIs
<1>6. d \in A \cup B /\ \A x \in A \cup B : x <= d
  <2>1. A \cup B # {} OBVIOUS
  <2> QED BY <1>1, <1>2, <2>1, LargestIs
<1>7. a \in Nat /\ b \in Nat /\ c \in Nat /\ d \in Nat BY <1>3, <1>4, <1>5, <1>6
<1>8. c = a
  <2>1. c <= a BY <1>3, <1>5
  <2>2. c \notin B
    <3>1. \A y \in B : a < y BY <1>3
    <3> QED BY <1>7, <2>1, <3>1
  <2>3. a <= c BY <1>3, <1>5, <2>2
  <2> QED BY <1>7, <2>1, <2>3
<1>9. d = b
  <2>1. b <= d BY <1>4, <1>6
  <2>2. d \notin A
    <3>1. \A x \in A : x < b BY <1>4
    <3> QED BY <1>7, <2>1, <3>1
  <2>3. d <= b BY <1>4, <1>6, <2>2
  <2> QED BY <1>7, <2>1, <2>3
<1> QED BY <1>1, <1>8, <1>9

LEMMA FindTamperedKeeps == ASSUME VerifierInv, FindTampered PROVE VerifierInv'
<1> DEFINE tracked == {r \in NextBatch : r <= Max(leaves)}
           bad     == (tracked \cap altered) \ skips
           old     == {r \in Tracked : r <= seen}
<1>1. /\ pc = "scan" /\ UNCHANGED table
      /\ seen' = IF tracked = {} THEN seen ELSE Max(tracked)
      /\ verdict' = IF bad = {} THEN verdict
                    ELSE [verdict EXCEPT !.from = IF @ = 0 THEN Min(bad) ELSE @, !.to = Max(bad)]
      /\ pc' = IF tracked # NextBatch \/ LastBatch(NextBatch) THEN "done" ELSE "scan"
  BY DEF FindTampered
<1>2. /\ TableSound /\ TableSound' /\ RootsOfRows' /\ DOMAIN verdict = DOMAIN NoVerdict
      /\ verdict.status = "root-mismatch" /\ seen \in Nat /\ Brackets(old)
      /\ \E c \in checkpoints : Met(c) /\ Fails(c)
  BY <1>1, TableStays DEF VerifierInv, VerdictSound
<1>3. /\ last \in Nat /\ rows \subseteq 1 .. last /\ altered \subseteq rows
      /\ leaves \subseteq 1 .. last /\ rows \ skips \subseteq leaves
  BY <1>2, Ranges DEF TableSound
<1>4. /\ NextBatch \subseteq rows /\ \A b \in NextBatch : b > seen
      /\ \A b \in NextBatch, r \in rows : seen < r /\ r < b => r \in NextBatch
      /\ NextBatch = {} \/ LastBatch(NextBatch) => \A r \in rows : r > seen => r \in NextBatch
  BY <1>2, NextBatchIs
<1>5. PICK top : top = Max(leaves) OBVIOUS
<1>6. \A r \in Tracked : r \in rows /\ r \in Nat /\ 1 <= r /\ r <= top /\ top \in Nat
  <2>1. \A r \in Tracked : r \in rows /\ r \in leaves BY <1>3 DEF Tracked
  <2>2. leaves # {} => top \in leaves /\ \A x \in leaves : x <= top
    <3>1. leaves \in SUBSET (0 .. last) BY <1>3
    <3> QED BY <1>3, <1>5, <3>1, LargestIs
  <2>3. ASSUME NEW r \in Tracked PROVE r \in rows /\ r \in Nat /\ 1 <= r /\ r <= top /\ top \in Nat
    <3>1. r \in rows /\ r \in 1 .. last /\ r <= top /\ top \in 1 .. last BY <1>3, <2>1, <2>2
    <3> QED BY <1>3, <3>1
  <2> QED BY <2>3
<1>7. \A r \in Tracked : r \in NextBatch <=> r \in bad BY <1>5, <1>6 DEF Tracked
<1>8. bad \subseteq Tracked /\ bad \subseteq tracked /\ tracked \subseteq NextBatch BY DEF Tracked
<1>9. PICK high : high = Max(tracked) OBVIOUS
<1>10. tracked # {} => high \in tracked /\ \A x \in tracked : x <= high
  <2>1. tracked \in SUBSET (0 .. last)
    <3>1. NextBatch \in SUBSET (0 .. last) BY <1>3, <1>4
    <3> QED BY <1>8, <3>1
  <2> HIDE DEF tracked
  <2> QED BY <1>3, <1>9, <2>1, LargestIs
<1>11. \A r \in NextBatch : r \in tracked <=> r <= top BY <1>5
<1>12. tracked # NextBatch => \E x \in NextBatch : ~(x <= top) BY <1>5
<1>13. \A r \in NextBatch : r \in rows /\ r \in Nat /\ r > seen BY <1>3, <1>4
<1> HIDE DEF tracked, bad
<1>14. seen' \in Nat /\ seen <= seen'
  <2>1. CASE tracked = {} BY <1>1, <1>2, <2>1
  <2>2. CASE tracked # {}
    <3>1. seen' = high /\ high \in NextBatch BY <1>1, <1>8, <1>9, <1>10, <2>2
    <3> QED BY <1>2, <1>13, <3>1
  <2> QED BY <2>1, <2>2
<1>15. {r \in Tracked : r <= seen'} = old \cup bad
  <2>1. ASSUME NEW r \in Tracked, r <= seen', ~(r <= seen) PROVE r \in bad
    <3>1. tracked # {} BY <1>1, <2>1
    <3>2. high \in NextBatch /\ seen' = high BY <1>1, <1>8, <1>9, <1>10, <3>1
    <3>3. r \in Nat /\ high \in Nat /\ seen < r /\ r <= high BY <1>2, <1>6, <1>13, <2>1, <3>2
    <3>4. r \in NextBatch BY <1>4, <1>6, <3>2, <3>3
    <3> QED BY <1>7, <3>4
  <2>2. ASSUME NEW r \in bad PROVE r \in Tracked /\ r <= seen'
    <3>1. r \in tracked BY <1>8
    <3>2. seen' = high /\ r <= high BY <1>1, <1>9, <1>10, <3>1
    <3> QED BY <1>8, <3>2
  <2>3. ASSUME NEW r \in old PROVE r \in Tracked /\ r <= seen'
    <3>1. r \in Tracked /\ r <= seen /\ r \in Nat BY <1>6
    <3> QED BY <1>2, <1>14, <3>1
  <2> QED BY <2>1, <2>2, <2>3
<1>16. PICK O, B : O = old /\ B = bad OBVIOUS
<1>17. /\ DOMAIN verdict' = DOMAIN NoVerdict /\ verdict'.status = "root-mismatch"
       /\ O \cup B = {} => verdict'.from = 0 /\ verdict'.to = 0
       /\ O \cup B # {} => verdict'.from = Min(O \cup B) /\ verdict'.to = Max(O \cup B)
  <2>1. /\ O = {} => verdict.from = 0 /\ verdict.to = 0
        /\ O # {} => verdict.from = Min(O) /\ verdict.to = Max(O)
    BY <1>2, <1>16 DEF Brackets
  <2>2. CASE B = {}
    <3>1. verdict' = verdict /\ O \cup B = O BY <1>1, <1>16, <2>2
    <3> QED BY <1>2, <2>1, <3>1
  <2>3. CASE B # {}
    <3>1. verdict' = [verdict EXCEPT !.from = IF verdict.from = 0 THEN Min(B) ELSE verdict.from,
                                     !.to   = Max(B)]
      BY <1>1, <1>16, <2>3
    <3>2. /\ DOMAIN verdict' = DOMAIN NoVerdict /\ verdict'.status = "root-mismatch"
          /\ verdict'.from = IF verdict.from = 0 THEN Min(B) ELSE verdict.from
          /\ verdict'.to = Max(B)
      BY <1>2, <3>1 DEF NoVerdict
    <3>3. CASE O = {}
      <4>1. O \cup B = B BY <3>3
      <4> QED BY <2>1, <2>3, <3>2, <3>3, <4>1
    <3>4. CASE O # {}
      <4>1. O \in SUBSET (1 .. last) /\ B \in SUBSET (1 .. last)
        <5>1. \A r \in Tracked : r \in 1 .. last BY <1>3, <1>6
        <5> QED BY <1>8, <1>16, <5>1
      <4>2. \A x \in O, y \in B : x < y
        <5>1. \A x \in O : x <= seen /\ x \in Nat BY <1>6, <1>16
        <5>2. \A y \in B : y > seen /\ y \in Nat BY <1>8, <1>13, <1>16
        <5> QED BY <1>2, <5>1, <5>2
      <4>3. Min(O) \in O
        <5>1. O \in SUBSET Nat BY <1>3, <4>1
        <5> QED BY <3>4, <5>1, SmallestIs
      <4>4. verdict.from = Min(O) /\ verdict.from # 0 BY <1>3, <2>1, <3>4, <4>1, <4>3
      <4>5. Min(O \cup B) = Min(O) /\ Max(O \cup B) = Max(B)
        <5>1. O \in SUBSET (0 .. last) /\ B \in SUBSET (0 .. last) BY <1>3, <4>1
        <5> QED BY <1>3, <2>3, <3>4, <4>2, <5>1, BracketsGrow
      <4>6. O \cup B # {} BY <3>4
      <4> QED BY <3>2, <4>4, <4>5, <4>6
    <3> QED BY <3>3, <3>4
  <2> QED BY <2>2, <2>3
<1>18. pc' = "done" => {r \in Tracked : r <= seen'} = Tracked
  <2> SUFFICES ASSUME pc' = "done", NEW r \in Tracked PROVE r <= seen'
    OBVIOUS
  <2>1. CASE r <= seen BY <1>2, <1>6, <1>14, <2>1
  <2>2. CASE ~(r <= seen)
    <3>1. r > seen /\ r \in rows /\ r \in Nat BY <1>2, <1>6, <2>2
    <3>2. r \in NextBatch
      <4>1. CASE tracked # NextBatch
        <5>1. PICK x \in NextBatch : ~(x <= top) BY <1>12, <4>1
        <5>2. r < x BY <1>6, <1>13, <5>1
        <5> QED BY <1>4, <3>1, <5>2
      <4>2. CASE LastBatch(NextBatch) BY <1>4, <3>1, <4>2
      <4> QED BY <1>1, <4>1, <4>2
    <3>3. r \in tracked BY <1>7, <1>8, <3>2
    <3> QED BY <1>1, <1>9, <1>10, <3>3
  <2> QED BY <2>1, <2>2
<1>19. \E c \in checkpoints' : Met(c)' /\ Fails(c)' BY <1>1, <1>2, TableStays
<1>20. pc' \in {"scan", "done"} BY <1>1
<1>21. {r \in Tracked' : r <= seen'} = O \cup B /\ (pc' = "done" => Tracked' = O \cup B)
  <2>1. Tracked' = Tracked BY <1>1, TableStays
  <2>2. {r \in Tracked : r <= seen'} = O \cup B BY <1>15, <1>16
  <2> QED BY <1>18, <2>1, <2>2
<1>22. VerdictRight'
  <2>1. verdict'.status # "events-missing" BY <1>17
  <2> QED BY <1>17, <1>19, <2>1 DEF VerdictRight
<1>23. VerdictSound'
  <2> HIDE DEF old
  <2>1. Brackets({r \in Tracked : r <= seen})' BY <1>17, <1>21 DEF Brackets
  <2>2. pc' = "done" => Brackets(Tracked)' BY <1>17, <1>21 DEF Brackets
  <2> QED BY <1>14, <1>17, <1>19, <1>20, <1>22, <2>1, <2>2 DEF VerdictSound
<1>24. ReplayRight' BY <1>20 DEF ReplayRight
<1> QED BY <1>2, <1>23, <1>24 DEF VerifierInv

LEMMA VerifierInvStep == VerifierInv /\ [VerifierNext]_verifierVars => VerifierInv'
<1> SUFFICES ASSUME VerifierInv, [VerifierNext]_verifierVars PROVE VerifierInv'
  OBVIOUS
<1>1. CASE History BY <1>1, HistoryKeeps
<1>2. CASE VerifyRange BY <1>2, VerifyRangeKeeps
<1>3. CASE Fetch BY <1>3, FetchKeeps
<1>4. CASE Replay BY <1>4, ReplayKeeps
<1>5. CASE ReplayEnds BY <1>5, ReplayEndsKeeps
<1>6. CASE FindTampered BY <1>6, FindTamperedKeeps
<1>7. CASE UNCHANGED verifierVars
  <2>1. /\ UNCHANGED table /\ pc' = pc /\ seen' = seen /\ batch' = batch /\ cpIdx' = cpIdx
        /\ tree' = tree /\ verdict' = verdict
    BY <1>7 DEF verifierVars, replay
  <2>2. /\ TableSound' /\ RootsOfRows' /\ ReplayRight /\ VerdictSound
    BY <2>1, TableStays DEF VerifierInv
  <2>3. ReplayRight'
    <3>1. /\ LastEnd' = LastEnd /\ checkpoints' = checkpoints /\ rows' = rows /\ skips' = skips
          /\ \A c : Position(c)' = Position(c)
          /\ \A c : Fails(c)' <=> Fails(c)
      BY <2>1, TableStays
    <3> QED BY <2>1, <2>2, <3>1 DEF ReplayRight
  <2>4. VerdictSound'
    <3>1. /\ Tracked' = Tracked /\ LastEnd' = LastEnd /\ checkpoints' = checkpoints /\ rows' = rows
          /\ \A c : Met(c)' <=> Met(c)
          /\ \A c : Fails(c)' <=> Fails(c)
      BY <2>1, TableStays
    <3>2. VerdictRight' <=> VerdictRight BY <2>1, <3>1 DEF VerdictRight
    <3>3. Brackets({r \in Tracked : r <= seen})' <=> Brackets({r \in Tracked : r <= seen})
      BY <2>1, <3>1 DEF Brackets
    <3>4. Brackets(Tracked)' <=> Brackets(Tracked) BY <2>1, <3>1 DEF Brackets
    <3> QED BY <2>1, <2>2, <3>1, <3>2, <3>3, <3>4 DEF VerdictSound
  <2> QED BY <2>2, <2>3, <2>4 DEF VerifierInv
<1> QED BY <1>1, <1>2, <1>3, <1>4, <1>5, <1>6, <1>7 DEF VerifierNext

(* The replay of Verifier.verifyRange: what it has done up to lastSeqSeen is *)
(* what a single pass over the rows does, whatever batches the store gave.   *)
THEOREM VerifierInductive == VerifierSpec => []VerifierInv
<1> QED BY VerifierInvInit, VerifierInvStep, PTL DEF VerifierSpec

(* Verifier.verifyRange's verdict is that of a single pass: a root mismatch  *)
(* exactly where a checkpoint that is met fails, missing events exactly      *)
(* where none does and the rows end before the last checkpoint.              *)
THEOREM VerdictAlwaysRight == VerifierSpec => []VerdictRight
<1>1. VerifierInv => VerdictRight BY DEF VerifierInv, VerdictSound, VerdictRight
<1> QED BY <1>1, VerifierInductive, PTL

(* findTamperedRange: an altered row below the last anchor gives a mismatch, *)
(* and the range it reports runs from the first to the last altered row.     *)
THEOREM AlterationAlwaysFound == VerifierSpec => []AlterationFound
<1>1. ASSUME VerifierInv PROVE AlterationFound
  <2> SUFFICES ASSUME pc = "done", \A c \in checkpoints : c.end \in rows,
                      NEW e \in Tracked, NEW c \in checkpoints, e <= c.end
               PROVE  /\ verdict.status = "root-mismatch"
                      /\ verdict.from = Min(Tracked) /\ verdict.to = Max(Tracked)
    BY DEF AlterationFound
  <2>1. Met(c) /\ Fails(c) BY DEF Met, Fails, Tracked
  <2>2. verdict.status = "root-mismatch"
    BY <1>1, <2>1 DEF VerifierInv, VerdictSound, VerdictRight
  <2>3. Brackets(Tracked) BY <1>1, <2>2 DEF VerifierInv, VerdictSound
  <2> QED BY <2>2, <2>3 DEF Brackets
<1> QED BY <1>1, VerifierInductive, PTL

(* A trail nobody altered, deleted from or pruned never gives a mismatch,    *)
(* whichever of its events were skipped at smt.maxTreeSize.                  *)
THEOREM NeverFalseAlarm == VerifierSpec => []NoFalseAlarm
<1>1. ASSUME VerifierInv PROVE NoFalseAlarm
  <2> SUFFICES ASSUME Untouched, Mismatch PROVE FALSE BY DEF NoFalseAlarm, Untouched
  <2>1. TableSound /\ altered = {} /\ rows = 1 .. last
        /\ \A c \in checkpoints : c.root = {r \in rows \ skips : r <= c.end}
    BY <1>1 DEF VerifierInv, RootsOfRows
  <2>2. \A c \in checkpoints : ~Fails(c) BY <2>1 DEF Fails
  <2>3. verdict.status = "events-missing" BY <1>1, <2>2 DEF VerifierInv, VerdictSound, Mismatch
  <2>4. pc = "done"
    BY <1>1, <2>3 DEF VerifierInv, VerdictSound, ReplayRight, NoVerdict
  <2>5. checkpoints # {} /\ \A r \in rows : r < LastEnd
    BY <1>1, <2>3, <2>4 DEF VerifierInv, VerdictSound, VerdictRight
  <2>6. LastEnd \in rows
    <3>1. PICK c \in checkpoints : c.end = LastEnd BY <2>1, <2>5, LastEndIs
    <3>2. c.end \in 1 .. last BY <2>1, Ranges
    <3> QED BY <2>1, <3>1, <3>2
  <2>7. LastEnd \in Nat BY <2>1, <2>5, LastEndIs
  <2> QED BY <2>5, <2>6, <2>7
<1> QED BY <1>1, VerifierInductive, PTL

-----------------------------------------------------------------------------
(* The log the hooks write, whatever runs there are and in whatever order    *)
(* they and the crashes come.                                                *)
Fields == {"type", "category", "session", "at", "by", "run", "job", "ok", "tool",
           "error", "model", "cost", "peer", "scan", "body"}

IsRow(row) ==
  /\ row = [field \in Fields |-> row[field]]
  /\ row.at \in Int /\ row.by \in Runs \cup {None}
  /\ row.body = <<row.body[1], row.body[2], row.body[3]>>

HooksTypeOK ==
  /\ log \in Seq({log[i] : i \in DOMAIN log}) /\ \A i \in DOMAIN log : IsRow(log[i])
  /\ now \in Instants
  /\ runs \in [Runs -> [phase : {"new", "going", "ok", "failed", "lost"},
                        tools : Nat, llm : Nat, sent : Nat]]

(* Rows in order are in the order of time, and of the past. *)
InTime ==
  /\ \A i, j \in DOMAIN log : i <= j => log[i].at <= log[j].at
  /\ \A i \in DOMAIN log : log[i].at <= now

IsStart(i) == log[i].type = "cron.executed"

(* A cron run that began has one cron.executed row, which bears its names. *)
StartsKnown ==
  /\ \A i \in DOMAIN log : IsStart(i) =>
       /\ log[i].by \in Runs /\ log[i].job = Job[log[i].by] /\ log[i].job # None
       /\ log[i].run = RunId[log[i].by] /\ log[i].session = Context[log[i].by].id
  /\ \A i, j \in DOMAIN log : IsStart(i) /\ IsStart(j) /\ log[i].by = log[j].by => i = j
  /\ \A r \in Runs : runs[r].phase # "new" /\ Job[r] # None =>
       \E i \in DOMAIN log : IsStart(i) /\ log[i].by = r

(* The row i is an end of the run r, and all that r did is before it. *)
EndOf(r, i) ==
  /\ runs[r].phase \in {"ok", "failed"}
  /\ log[i].type = "agent.end" /\ log[i].run = RunId[r] /\ log[i].session = Context[r].id
  /\ log[i].ok = (runs[r].phase = "ok")
  /\ \A j \in DOMAIN log : log[j].by = r => j < i

EndsKnown ==
  /\ \A i \in DOMAIN log : log[i].type = "agent.end" => \E r \in Runs : EndOf(r, i)
  /\ \A r \in Runs : runs[r].phase \in {"ok", "failed"} => \E i \in DOMAIN log : EndOf(r, i)

(* What a run did comes after its start, in its session or conversation. *)
WorkKnown ==
  \A i \in DOMAIN log, r \in Runs : log[i].by = r =>
    /\ runs[r].phase # "new"
    /\ \A c \in DOMAIN log : IsStart(c) /\ log[c].by = r => c <= i
    /\ log[i].type \in {"tool.invoked", "prompt.response"} => log[i].session = Context[r].id
    /\ log[i].type = "message.sent" => log[i].session = Context[r].conversation

Did(r, type) == {i \in DOMAIN log : log[i].type = type /\ log[i].by = r}

Counted ==
  \A r \in Runs :
    /\ runs[r].tools = Cardinality(Did(r, "tool.invoked"))
    /\ runs[r].llm = Cardinality(Did(r, "prompt.response"))
    /\ runs[r].sent = Cardinality(Did(r, "message.sent"))

(* A row has a job only in a session that an execution of a job began. *)
JobsKnown ==
  \A i \in DOMAIN log : log[i].job # None =>
    \E c \in DOMAIN log : IsStart(c) /\ log[c].session = log[i].session

HooksInv ==
  /\ HooksTypeOK /\ InTime /\ StartsKnown /\ EndsKnown
  /\ WorkKnown /\ Counted /\ JobsKnown

(* Redaction and caps change the body of a row and nothing else. *)
Stored(row) == ApplyFieldCaps(Redacted(row))

(* What safeAppend stores differs from what it got in the body alone. *)
LEMMA StoredIs ==
  ASSUME NEW row, IsRow(row), row.body \in Bodies \cup {NoBody}
  PROVE  /\ IsRow(Stored(row))
         /\ Stored(row) = [row EXCEPT !.body = Stored(row).body]
<1> DEFINE red == Redacted(row)
<1>1. IsRow(red) /\ red = [row EXCEPT !.body = red.body]
  <2>1. CASE red = row BY <2>1 DEF IsRow, Fields
  <2>2. CASE red = [row EXCEPT !.body = <<Digest[row.body], "", "">>]
    <3>1. PICK d : d = <<Digest[row.body], "", "">> OBVIOUS
    <3>2. d = <<d[1], d[2], d[3]>> BY <3>1
    <3> QED BY <2>2, <3>1, <3>2 DEF IsRow, Fields
  <2> QED BY <2>1, <2>2 DEF Redacted
<1>2. Stored(row) = red \/ Stored(row) = [red EXCEPT !.body[3] = "[truncated]"]
  BY DEF Stored, ApplyFieldCaps
<1> HIDE DEF red
<1>3. CASE Stored(row) = red BY <1>1, <1>3
<1>4. CASE Stored(row) = [red EXCEPT !.body[3] = "[truncated]"]
  <2>1. red.body = <<red.body[1], red.body[2], red.body[3]>> BY <1>1 DEF IsRow, Fields
  <2>2. PICK d : d = [red.body EXCEPT ![3] = "[truncated]"] OBVIOUS
  <2>3. d = <<red.body[1], red.body[2], "[truncated]">> BY <2>1, <2>2
  <2>4. d = <<d[1], d[2], d[3]>> BY <2>3
  <2>5. Stored(row) = [red EXCEPT !.body = d] BY <1>4, <1>1, <2>2 DEF IsRow, Fields
  <2> QED BY <1>1, <2>4, <2>5 DEF IsRow, Fields
<1> QED BY <1>2, <1>3, <1>4

(* The log has grown, and what it had it has. *)
Grown == Len(log) <= Len(log') /\ \A i \in DOMAIN log : log'[i] = log[i]

(* The rows a step adds, and the rows a hook may insert. *)
NewRows == Len(log) + 1 .. Len(log')

Insertable(row) == IsRow(row) /\ row.at = now /\ row.body \in Bodies \cup {NoBody}

SameNames(x, row) ==
  /\ x.type = row.type /\ x.session = row.session /\ x.by = row.by
  /\ x.run = row.run /\ x.job = row.job /\ x.ok = row.ok

LEMMA LogIsRows ==
  ASSUME HooksTypeOK
  PROVE  Len(log) \in Nat /\ DOMAIN log = 1 .. Len(log)
BY DEF HooksTypeOK

(* safeAppend of n rows: they come after the others, and bear this moment. *)
LEMMA Appends ==
  ASSUME HooksTypeOK, InTime, UNCHANGED now,
         NEW inserts, NEW n \in Nat, inserts \in Seq({inserts[k] : k \in 1 .. n}), Len(inserts) = n,
         \A k \in 1 .. n : Insertable(inserts[k]),
         SafeAppend(inserts)
  PROVE  /\ Len(log') = Len(log) + n /\ DOMAIN log' = 1 .. Len(log')
         /\ log' \in Seq({log'[i] : i \in DOMAIN log'}) /\ \A i \in DOMAIN log' : IsRow(log'[i])
         /\ Grown /\ InTime' /\ \A i \in NewRows : log'[i].at = now
         /\ \A k \in 1 .. n : SameNames(log'[Len(log) + k], inserts[k])
<1> DEFINE stored == [k \in 1 .. n |-> Stored(inserts[k])]
           L == Len(log)
<1>1. L \in Nat /\ DOMAIN log = 1 .. L BY LogIsRows
<1>2. log' = log \o stored BY DEF SafeAppend, Stored
<1>3. \A k \in 1 .. n : /\ IsRow(stored[k]) /\ stored[k].at = now
                        /\ stored[k] = [inserts[k] EXCEPT !.body = stored[k].body]
  <2> TAKE k \in 1 .. n
  <2>1. IsRow(inserts[k]) /\ inserts[k].at = now /\ inserts[k].body \in Bodies \cup {NoBody}
    BY DEF Insertable
  <2>2. /\ IsRow(Stored(inserts[k]))
        /\ Stored(inserts[k]) = [inserts[k] EXCEPT !.body = Stored(inserts[k]).body]
    BY <2>1, StoredIs
  <2>3. Stored(inserts[k]).at = inserts[k].at BY <2>1, <2>2 DEF IsRow, Fields
  <2> QED BY <2>1, <2>2, <2>3
<1>4. PICK V : log \in Seq(V) /\ stored \in Seq(V)
  <2>1. log \in Seq({log[i] : i \in DOMAIN log} \cup {stored[k] : k \in 1 .. n})
    BY DEF HooksTypeOK
  <2>2. stored \in Seq({log[i] : i \in DOMAIN log} \cup {stored[k] : k \in 1 .. n})
    OBVIOUS
  <2> QED BY <2>1, <2>2
<1>5. Len(stored) = n OBVIOUS
<1> HIDE DEF stored
<1>6. /\ log' \in Seq(V) /\ Len(log') = L + n /\ DOMAIN log' = 1 .. L + n
      /\ \A i \in 1 .. L : log'[i] = log[i]
      /\ \A k \in 1 .. n : log'[L + k] = stored[k]
  <2>0. log \o stored \in Seq(V) /\ Len(log \o stored) = Len(log) + Len(stored) BY <1>4
  <2>1. log' \in Seq(V) /\ Len(log') = L + n BY <2>0, <1>2, <1>5
  <2>2. DOMAIN log' = 1 .. L + n BY <2>1
  <2>3. \A i \in 1 .. L : log'[i] = log[i] BY <1>1, <1>2, <1>4, <1>5
  <2>4. \A k \in 1 .. n : log'[L + k] = stored[k] 
    <3> TAKE k \in 1 .. n
    <3>1. L + k \in 1 .. L + n /\ ~(L + k <= L) /\ L + k - L = k BY <1>1
    <3> QED BY <3>1, <1>1, <1>2, <1>4, <1>5
  <2> QED BY <2>1, <2>2, <2>3, <2>4
<1>7. \A i \in 1 .. L + n : i \in 1 .. L \/ \E k \in 1 .. n : i = L + k
  <2> TAKE i \in 1 .. L + n
  <2>1. i \in 1 .. L \/ i - L \in 1 .. n BY <1>1
  <2> QED BY <2>1, <1>1
<1>8. \A i \in DOMAIN log' : IsRow(log'[i]) /\ log'[i].at <= now' /\ (i > L => log'[i].at = now)
  <2> TAKE i \in DOMAIN log'
  <2>1. CASE i \in 1 .. L BY <2>1, <1>1, <1>6 DEF HooksTypeOK, InTime
  <2>2. CASE \E k \in 1 .. n : i = L + k
    <3>1. PICK k \in 1 .. n : i = L + k BY <2>2
    <3>2. log'[i] = stored[k] BY <3>1, <1>6
    <3>3. IsRow(log'[i]) /\ log'[i].at = now BY <3>2, <1>3
    <3>4. log'[i].at \in Int BY <3>3 DEF IsRow, Fields
    <3> QED BY <3>3, <3>4
  <2> QED BY <1>6, <1>7, <2>1, <2>2
<1>9. InTime'
  <2>1. \A i, j \in DOMAIN log' : i <= j => log'[i].at <= log'[j].at
    <3> TAKE i, j \in DOMAIN log'
    <3>1. CASE j \in 1 .. L
      <4>1. i <= j => i \in 1 .. L BY <1>1, <1>6, <3>1
      <4> QED BY <4>1, <1>1, <1>6, <3>1 DEF InTime
    <3>2. CASE j > L BY <3>2, <1>8
    <3> QED BY <3>1, <3>2, <1>1, <1>6
  <2> QED BY <2>1, <1>8 DEF InTime
<1>10. \A k \in 1 .. n : SameNames(log'[L + k], inserts[k])
  <2> TAKE k \in 1 .. n
  <2>1. IsRow(inserts[k]) BY DEF Insertable
  <2>2. log'[L + k] = [inserts[k] EXCEPT !.body = stored[k].body] BY <1>3, <1>6
  <2>3. PICK d : d = log'[L + k] OBVIOUS
  <2>4. /\ d.type = inserts[k].type /\ d.session = inserts[k].session /\ d.by = inserts[k].by
        /\ d.run = inserts[k].run /\ d.job = inserts[k].job /\ d.ok = inserts[k].ok
    BY <2>1, <2>2, <2>3 DEF IsRow, Fields
  <2> QED BY <2>3, <2>4 DEF SameNames
<1>11. log' \in Seq({log'[i] : i \in DOMAIN log'})
  <2>1. PICK S : S = {log'[i] : i \in DOMAIN log'} OBVIOUS
  <2>2. \A i \in 1 .. L + n : log'[i] \in S BY <1>6, <2>1
  <2>3. L + n \in Nat /\ Len(log') = L + n /\ log' \in Seq(V) BY <1>1, <1>6
  <2>4. log' \in Seq(S) BY <2>2, <2>3
  <2> QED BY <2>1, <2>4
<1>12. \A i \in NewRows : log'[i].at = now
  <2> TAKE i \in NewRows
  <2>1. i \in DOMAIN log' /\ i > L BY <1>1, <1>6 DEF NewRows
  <2> QED BY <1>8, <2>1
<1> QED BY <1>1, <1>6, <1>8, <1>9, <1>10, <1>11, <1>12 DEF Grown

(* Rows no run is named by: what the conjuncts say of the others remains. *)
Bystander(row) ==
  row.by = None /\ row.job = None /\ row.type \notin {"cron.executed", "agent.end"}

(* A step that adds rows. *)
Longer ==
  /\ Grown /\ DOMAIN log' = 1 .. Len(log') /\ HooksTypeOK' /\ InTime'
  /\ \A i \in NewRows : log'[i].at = now

LEMMA OldAndNew ==
  ASSUME HooksTypeOK, Longer
  PROVE  /\ Len(log) \in Nat /\ Len(log') \in Nat /\ DOMAIN log \subseteq DOMAIN log'
         /\ DOMAIN log = 1 .. Len(log)
         /\ \A i \in DOMAIN log' : i \in DOMAIN log \/ i \in NewRows
         /\ \A i \in NewRows : i \in DOMAIN log' /\ i \notin DOMAIN log
         /\ \A i \in DOMAIN log, j \in NewRows : i < j
<1>1. Len(log) \in Nat /\ DOMAIN log = 1 .. Len(log) BY LogIsRows
<1>2. Len(log') \in Nat BY DEF Longer, HooksTypeOK
<1> QED BY <1>1, <1>2 DEF Longer, Grown, NewRows

(* Rows that name no run change nothing of what is known of the runs. *)
LEMMA OthersKeep ==
  ASSUME HooksInv, Longer, UNCHANGED runs, \A i \in NewRows : Bystander(log'[i])
  PROVE  HooksInv'
<1> USE OldAndNew, HooksAssumption DEF HooksInv
<1>0. \A i \in DOMAIN log : log'[i] = log[i] BY DEF Longer, Grown
<1>1. \A i \in DOMAIN log' : log'[i].by # None \/ log'[i].job # None
                               \/ log'[i].type \in {"cron.executed", "agent.end"}
        => i \in DOMAIN log
  BY DEF Bystander
<1>2. StartsKnown'
  <2>1. \A i \in DOMAIN log' : IsStart(i)' => i \in DOMAIN log /\ IsStart(i) BY <1>0, <1>1 DEF IsStart
  <2>2. \A i \in DOMAIN log : IsStart(i) => IsStart(i)' BY <1>0 DEF IsStart
  <2> QED BY <1>0, <2>1, <2>2 DEF StartsKnown
<1>3. EndsKnown'
  <2>1. \A r \in Runs, i \in DOMAIN log : EndOf(r, i) => EndOf(r, i)'
    BY <1>0, <1>1 DEF EndOf
  <2> QED BY <1>0, <1>1, <2>1 DEF EndsKnown
<1>4. WorkKnown'
  <2>1. \A i \in DOMAIN log' : IsStart(i)' => i \in DOMAIN log /\ IsStart(i) BY <1>0, <1>1 DEF IsStart
  <2> QED BY <1>0, <1>1, <2>1 DEF WorkKnown
<1>5. Counted'
  <2>1. \A r \in Runs, type \in {"tool.invoked", "prompt.response", "message.sent"} :
          Did(r, type)' = Did(r, type)
    BY <1>0, <1>1 DEF Did
  <2> QED BY <2>1 DEF Counted
<1>6. JobsKnown'
  <2>2. \A i \in DOMAIN log : IsStart(i) => IsStart(i)' BY <1>0 DEF IsStart
  <2> QED BY <1>0, <1>1, <2>2 DEF JobsKnown
<1> QED BY <1>2, <1>3, <1>4, <1>5, <1>6 DEF Longer

(* What a run does is counted. *)
LEMMA DidMore ==
  ASSUME HooksTypeOK, Longer, NEW r \in Runs, NEW type, NEW n \in NewRows,
         log'[n].type = type, log'[n].by = r,
         \A i \in NewRows \ {n} : log'[i].by = None
  PROVE  Cardinality(Did(r, type)') = Cardinality(Did(r, type)) + 1
<1> USE OldAndNew, HooksAssumption
<1>0. \A i \in DOMAIN log : log'[i] = log[i] BY DEF Longer, Grown
<1>1. Did(r, type)' = Did(r, type) \cup {n} /\ n \notin Did(r, type)
  <2>1. \A i \in Did(r, type)' : i \in Did(r, type) \/ i = n BY <1>0 DEF Did
  <2>2. \A i \in Did(r, type) : i \in Did(r, type)' BY <1>0 DEF Did
  <2>3. n \in Did(r, type)' BY DEF Did
  <2>4. n \notin Did(r, type) BY DEF Did
  <2> QED BY <2>1, <2>2, <2>3, <2>4
<1>2. IsFiniteSet(Did(r, type))
  <2>1. Did(r, type) \subseteq 1 .. Len(log) BY DEF Did
  <2>2. 1 \in Int /\ Len(log) \in Int OBVIOUS
  <2>3. IsFiniteSet(1 .. Len(log)) BY <2>2, FS_Interval
  <2> QED BY <2>1, <2>3, FS_Subset
<1> QED BY <1>1, <1>2, FS_AddElement

(* A row a run makes while it goes is one more that it did. *)
LEMMA WorkKeeps ==
  ASSUME HooksInv, Longer, NEW r \in Runs, Going(r),
         NEW type \in {"tool.invoked", "prompt.response", "message.sent"},
         \A s \in Runs \ {r} : runs'[s] = runs[s],
         runs'[r].phase = "going",
         runs'[r].tools = IF type = "tool.invoked" THEN runs[r].tools + 1 ELSE runs[r].tools,
         runs'[r].llm = IF type = "prompt.response" THEN runs[r].llm + 1 ELSE runs[r].llm,
         runs'[r].sent = IF type = "message.sent" THEN runs[r].sent + 1 ELSE runs[r].sent,
         NEW n \in NewRows, log'[n].by = r, log'[n].type = type, log'[n].job = None,
         log'[n].session = IF type = "message.sent" THEN Context[r].conversation ELSE Context[r].id,
         \A i \in NewRows \ {n} : Bystander(log'[i])
  PROVE  HooksInv'
<1> USE OldAndNew, HooksAssumption DEF HooksInv
<1>0. \A i \in DOMAIN log : log'[i] = log[i] BY DEF Longer, Grown
<1>a. \A s \in Runs : runs'[s].phase = runs[s].phase
  BY DEF Going
<1>1. \A i \in DOMAIN log' : log'[i].job # None \/ log'[i].type \in {"cron.executed", "agent.end"}
        => i \in DOMAIN log
  BY DEF Bystander
<1>b. \A i \in DOMAIN log' : log'[i].by # None => i \in DOMAIN log \/ (i = n /\ log'[i].by = r)
  BY DEF Bystander
<1>c. \A i \in DOMAIN log' : IsStart(i)' => i \in DOMAIN log /\ IsStart(i) BY <1>0, <1>1 DEF IsStart
<1>d. \A i \in DOMAIN log : IsStart(i) => IsStart(i)' BY <1>0 DEF IsStart
<1>2. StartsKnown'
  <2>1. \A i \in DOMAIN log' : IsStart(i)' =>
          /\ log'[i].by \in Runs /\ log'[i].job = Job[log'[i].by] /\ log'[i].job # None
          /\ log'[i].run = RunId[log'[i].by] /\ log'[i].session = Context[log'[i].by].id
    BY <1>0, <1>c DEF StartsKnown
  <2>2. \A i, j \in DOMAIN log' : IsStart(i)' /\ IsStart(j)' /\ log'[i].by = log'[j].by => i = j
    BY <1>0, <1>c DEF StartsKnown
  <2>3. \A s \in Runs : runs'[s].phase # "new" /\ Job[s] # None =>
          \E i \in DOMAIN log' : IsStart(i)' /\ log'[i].by = s
    BY <1>0, <1>a, <1>d DEF StartsKnown
  <2> QED BY <2>1, <2>2, <2>3 DEF StartsKnown
<1>3. EndsKnown'
  <2>1. \A s \in Runs, i \in DOMAIN log : EndOf(s, i) => s # r BY DEF EndOf, Going
  <2>2. \A s \in Runs, i \in DOMAIN log : EndOf(s, i) => EndOf(s, i)'
    BY <1>0, <1>a, <1>b, <2>1 DEF EndOf
  <2> QED BY <1>0, <1>1, <1>a, <2>2 DEF EndsKnown
<1>4. WorkKnown'
  <2> SUFFICES ASSUME NEW i \in DOMAIN log', NEW s \in Runs, log'[i].by = s
               PROVE  /\ runs'[s].phase # "new"
                      /\ \A c \in DOMAIN log' : IsStart(c)' /\ log'[c].by = s => c <= i
                      /\ log'[i].type \in {"tool.invoked", "prompt.response"} => log'[i].session = Context[s].id
                      /\ log'[i].type = "message.sent" => log'[i].session = Context[s].conversation
    BY DEF WorkKnown
  <2>1. CASE i \in DOMAIN log BY <2>1, <1>0, <1>a, <1>c DEF WorkKnown
  <2>2. CASE i = n /\ s = r BY <2>2, <1>a, <1>c DEF Going
  <2> QED BY <2>1, <2>2, <1>b
<1>5. Counted'
  <2>1. \A s \in Runs, t \in {"tool.invoked", "prompt.response", "message.sent"} :
          s # r \/ t # type => Did(s, t)' = Did(s, t)
    <3> SUFFICES ASSUME NEW s \in Runs, NEW t, s # r \/ t # type PROVE Did(s, t)' = Did(s, t)
      OBVIOUS
    <3>1. \A i \in Did(s, t)' : i \in Did(s, t) BY <1>0, <1>b DEF Did
    <3>2. \A i \in Did(s, t) : i \in Did(s, t)' BY <1>0 DEF Did
    <3> QED BY <3>1, <3>2
  <2>2. Cardinality(Did(r, type)') = Cardinality(Did(r, type)) + 1
    BY DidMore DEF Bystander
  <2>3. runs[r].tools \in Nat /\ runs[r].llm \in Nat /\ runs[r].sent \in Nat BY DEF HooksTypeOK
  <2>5. \A s \in Runs \ {r} : /\ runs'[s].tools = Cardinality(Did(s, "tool.invoked")')
                              /\ runs'[s].llm = Cardinality(Did(s, "prompt.response")')
                              /\ runs'[s].sent = Cardinality(Did(s, "message.sent")')
    BY <1>a, <2>1 DEF Counted
  <2>6. runs'[r].tools = Cardinality(Did(r, "tool.invoked")') BY <2>1, <2>2 DEF Counted
  <2>7. runs'[r].llm = Cardinality(Did(r, "prompt.response")') BY <2>1, <2>2 DEF Counted
  <2>8. runs'[r].sent = Cardinality(Did(r, "message.sent")') BY <2>1, <2>2 DEF Counted
  <2> QED BY <2>5, <2>6, <2>7, <2>8 DEF Counted
<1>6. JobsKnown'
  BY <1>0, <1>1, <1>d DEF JobsKnown
<1> QED BY <1>2, <1>3, <1>4, <1>5, <1>6 DEF Longer

(* A run begins. *)
LEMMA BeginKeeps ==
  ASSUME HooksInv, Longer, NEW r \in Runs, runs[r].phase = "new",
         runs' = [runs EXCEPT ![r].phase = "going"],
         \A i \in NewRows : Bystander(log'[i]) \/ (i = Len(log') /\ Job[r] # None),
         Job[r] # None =>
           /\ Len(log') \in NewRows /\ IsStart(Len(log))'
           /\ log'[Len(log')].by = r /\ log'[Len(log')].job = Job[r]
           /\ log'[Len(log')].run = RunId[r] /\ log'[Len(log')].session = Context[r].id
  PROVE  HooksInv'
<1> USE OldAndNew, HooksAssumption DEF HooksInv
<1>0. \A i \in DOMAIN log : log'[i] = log[i] BY DEF Longer, Grown
<1>1. /\ \A s \in Runs \ {r} : runs'[s] = runs[s]
      /\ runs'[r].phase = "going" /\ runs'[r].tools = runs[r].tools
      /\ runs'[r].llm = runs[r].llm /\ runs'[r].sent = runs[r].sent
  BY DEF HooksTypeOK
<1>2. \A i \in DOMAIN log : log[i].by # r BY DEF WorkKnown
<1>3. PICK m : m = Len(log') OBVIOUS
<1>4. \A i \in DOMAIN log' : i \in DOMAIN log \/ Bystander(log'[i]) \/ (i = m /\ Job[r] # None)
  BY <1>3
<1>5. Job[r] # None =>
        /\ m \in NewRows /\ log'[m].type = "cron.executed" /\ log'[m].by = r
        /\ log'[m].job = Job[r] /\ log'[m].run = RunId[r] /\ log'[m].session = Context[r].id
  BY <1>3 DEF IsStart
<1>6. \A i \in DOMAIN log' : IsStart(i)' => (i \in DOMAIN log /\ IsStart(i)) \/ (i = m /\ Job[r] # None)
  BY <1>0, <1>4 DEF IsStart, Bystander
<1>7. \A i \in DOMAIN log : IsStart(i) => IsStart(i)' BY <1>0 DEF IsStart
<1>8. Job[r] # None => IsStart(m)' BY <1>5 DEF IsStart
<1>9. StartsKnown'
  <2>1. \A i \in DOMAIN log' : IsStart(i)' =>
          /\ log'[i].by \in Runs /\ log'[i].job = Job[log'[i].by] /\ log'[i].job # None
          /\ log'[i].run = RunId[log'[i].by] /\ log'[i].session = Context[log'[i].by].id
    BY <1>0, <1>5, <1>6 DEF StartsKnown
  <2>2. \A i, j \in DOMAIN log' : IsStart(i)' /\ IsStart(j)' /\ log'[i].by = log'[j].by => i = j
    BY <1>0, <1>2, <1>5, <1>6 DEF StartsKnown
  <2>3. \A s \in Runs : runs'[s].phase # "new" /\ Job[s] # None =>
          \E i \in DOMAIN log' : IsStart(i)' /\ log'[i].by = s
    <3> TAKE s \in Runs
    <3>1. CASE s = r BY <3>1, <1>5, <1>8
    <3>2. CASE s # r BY <3>2, <1>0, <1>1, <1>7 DEF StartsKnown
    <3> QED BY <3>1, <3>2
  <2> QED BY <2>1, <2>2, <2>3 DEF StartsKnown
<1>10. EndsKnown'
  <2>1. \A i \in DOMAIN log' : log'[i].by # None => i \in DOMAIN log \/ (i = m /\ log'[i].by = r)
    BY <1>4, <1>5 DEF Bystander
  <2>2. \A i \in DOMAIN log' : log'[i].type = "agent.end" => i \in DOMAIN log
    BY <1>4, <1>5 DEF Bystander
  <2>3. \A s \in Runs, i \in DOMAIN log : EndOf(s, i) => s # r BY DEF EndOf
  <2>4. \A s \in Runs, i \in DOMAIN log : EndOf(s, i) => EndOf(s, i)'
    BY <1>0, <1>1, <2>1, <2>3 DEF EndOf
  <2> QED BY <1>0, <1>1, <2>2, <2>4 DEF EndsKnown
<1>11. WorkKnown'
  <2> SUFFICES ASSUME NEW i \in DOMAIN log', NEW s \in Runs, log'[i].by = s
               PROVE  /\ runs'[s].phase # "new"
                      /\ \A c \in DOMAIN log' : IsStart(c)' /\ log'[c].by = s => c <= i
                      /\ log'[i].type \in {"tool.invoked", "prompt.response"} => log'[i].session = Context[s].id
                      /\ log'[i].type = "message.sent" => log'[i].session = Context[s].conversation
    BY DEF WorkKnown
  <2>1. CASE i \in DOMAIN log
    <3>1. s # r BY <2>1, <1>0, <1>2
    <3>2. \A c \in DOMAIN log' : IsStart(c)' /\ log'[c].by = s => c \in DOMAIN log /\ IsStart(c)
      BY <3>1, <1>5, <1>6
    <3> QED BY <2>1, <3>1, <3>2, <1>0, <1>1 DEF WorkKnown
  <2>2. CASE i = m /\ s = r /\ Job[r] # None
    <3>1. \A c \in DOMAIN log' : c <= m BY <1>3
    <3> QED BY <2>2, <3>1, <1>1, <1>5
  <2> QED BY <2>1, <2>2, <1>4, <1>5 DEF Bystander
<1>12. Counted'
  <2>1. \A s \in Runs, t \in {"tool.invoked", "prompt.response", "message.sent"} :
          Did(s, t)' = Did(s, t)
    <3> TAKE s \in Runs, t \in {"tool.invoked", "prompt.response", "message.sent"}
    <3>1. \A i \in Did(s, t)' : i \in Did(s, t) BY <1>0, <1>4, <1>5 DEF Did, Bystander
    <3>2. \A i \in Did(s, t) : i \in Did(s, t)' BY <1>0 DEF Did
    <3> QED BY <3>1, <3>2
  <2>2. \A s \in Runs : /\ runs'[s].tools = runs[s].tools /\ runs'[s].llm = runs[s].llm
                        /\ runs'[s].sent = runs[s].sent
    BY <1>1
  <2> QED BY <2>1, <2>2 DEF Counted
<1>13. JobsKnown'
  <2>1. \A i \in DOMAIN log' : log'[i].job # None => i \in DOMAIN log \/ (i = m /\ Job[r] # None)
    BY <1>4 DEF Bystander
  <2> QED BY <2>1, <1>0, <1>5, <1>7, <1>8 DEF JobsKnown
<1> QED BY <1>9, <1>10, <1>11, <1>12, <1>13 DEF Longer

(* It ends: its last row has the job, and so has cron.failed. *)
LEMMA EndKeeps ==
  ASSUME HooksInv, Longer, NEW r \in Runs, Going(r), NEW success \in BOOLEAN,
         runs' = [runs EXCEPT ![r].phase = IF success THEN "ok" ELSE "failed"],
         NEW n \in NewRows,
         log'[n].type = "agent.end" /\ log'[n].run = RunId[r] /\ log'[n].ok = success,
         \A i \in NewRows : /\ log'[i].by = None /\ log'[i].job \in {None, Job[r]}
                            /\ log'[i].session = Context[r].id
                            /\ i # n => log'[i].type \notin {"cron.executed", "agent.end"}
  PROVE  HooksInv'
<1> USE OldAndNew, HooksAssumption DEF HooksInv
<1>0. \A i \in DOMAIN log : log'[i] = log[i] BY DEF Longer, Grown
<1>1. /\ \A s \in Runs \ {r} : runs'[s] = runs[s]
      /\ runs'[r].phase = (IF success THEN "ok" ELSE "failed") /\ runs'[r].tools = runs[r].tools
      /\ runs'[r].llm = runs[r].llm /\ runs'[r].sent = runs[r].sent
  BY DEF HooksTypeOK
<1>2. \A i \in DOMAIN log' : log'[i].by # None => i \in DOMAIN log OBVIOUS
<1>3. \A i \in DOMAIN log' : IsStart(i)' => i \in DOMAIN log /\ IsStart(i) BY <1>0 DEF IsStart
<1>4. \A i \in DOMAIN log : IsStart(i) => IsStart(i)' BY <1>0 DEF IsStart
<1>5. \A s \in Runs : runs'[s].phase # "new" => runs[s].phase # "new" BY <1>1 DEF Going
<1>a. \A s \in Runs : runs[s].phase # "new" => runs'[s].phase # "new" BY <1>1
<1>6. StartsKnown'
  BY <1>0, <1>3, <1>4, <1>5 DEF StartsKnown
<1>7. EndsKnown'
  <2>1. \A s \in Runs, i \in DOMAIN log : EndOf(s, i) => s # r BY DEF EndOf, Going
  <2>2. \A s \in Runs, i \in DOMAIN log : EndOf(s, i) => EndOf(s, i)'
    BY <1>0, <1>1, <1>2, <2>1 DEF EndOf
  <2>3. EndOf(r, n)' BY <1>1, <1>2 DEF EndOf
  <2>4. \A i \in DOMAIN log' : log'[i].type = "agent.end" => i \in DOMAIN log \/ i = n OBVIOUS
  <2>5. \A i \in DOMAIN log' : log'[i].type = "agent.end" => \E s \in Runs : EndOf(s, i)'
    BY <1>0, <2>2, <2>3, <2>4 DEF EndsKnown
  <2>6. \A s \in Runs : runs'[s].phase \in {"ok", "failed"} => \E i \in DOMAIN log' : EndOf(s, i)'
    BY <1>1, <2>2, <2>3 DEF EndsKnown
  <2> QED BY <2>5, <2>6 DEF EndsKnown
<1>8. WorkKnown'
  BY <1>0, <1>2, <1>3, <1>a DEF WorkKnown
<1>9. Counted'
  <2>1. \A s \in Runs, t \in {"tool.invoked", "prompt.response", "message.sent"} :
          Did(s, t)' = Did(s, t)
    BY <1>0, <1>2 DEF Did
  <2>2. \A s \in Runs : /\ runs'[s].tools = runs[s].tools /\ runs'[s].llm = runs[s].llm
                        /\ runs'[s].sent = runs[s].sent
    BY <1>1
  <2> QED BY <2>1, <2>2 DEF Counted
<1>10. JobsKnown'
  <2> SUFFICES ASSUME NEW i \in DOMAIN log', log'[i].job # None
               PROVE  \E c \in DOMAIN log' : IsStart(c)' /\ log'[c].session = log'[i].session
    BY DEF JobsKnown
  <2>1. CASE i \in DOMAIN log BY <2>1, <1>0, <1>4 DEF JobsKnown
  <2>2. CASE i \in NewRows
    <3>1. Job[r] # None /\ log'[i].session = Context[r].id BY <2>2
    <3>2. PICK c \in DOMAIN log : IsStart(c) /\ log[c].by = r BY <3>1 DEF StartsKnown, Going
    <3>3. log[c].session = Context[r].id BY <3>2 DEF StartsKnown
    <3> QED BY <3>1, <3>2, <3>3, <1>0, <1>4
  <2> QED BY <2>1, <2>2
<1> QED BY <1>6, <1>7, <1>8, <1>9, <1>10 DEF Longer

(* A hook has one row, or two.                                               *)
RunsTypeOK ==
  runs \in [Runs -> [phase : {"new", "going", "ok", "failed", "lost"},
                     tools : Nat, llm : Nat, sent : Nat]]

(* A hook appends one row, or two. *)
LEMMA OneRow ==
  ASSUME HooksTypeOK, InTime, UNCHANGED now, RunsTypeOK',
         NEW x, Insertable(x), NEW inserts, inserts = <<x>>, SafeAppend(inserts)
  PROVE  /\ Longer /\ NewRows = {Len(log) + 1} /\ Len(log') = Len(log) + 1
         /\ SameNames(log'[Len(log) + 1], x)
<1>1. /\ inserts \in Seq({inserts[k] : k \in 1 .. 1}) /\ Len(inserts) = 1
      /\ \A k \in 1 .. 1 : Insertable(inserts[k])
  OBVIOUS
<1>2. /\ Len(log') = Len(log) + 1 /\ DOMAIN log' = 1 .. Len(log')
      /\ log' \in Seq({log'[i] : i \in DOMAIN log'}) /\ \A i \in DOMAIN log' : IsRow(log'[i])
      /\ Grown /\ InTime' /\ \A i \in NewRows : log'[i].at = now
      /\ \A k \in 1 .. 1 : SameNames(log'[Len(log) + k], inserts[k])
  BY <1>1, Appends
<1>3. Len(log) \in Nat BY LogIsRows
<1>4. NewRows = {Len(log) + 1} BY <1>2, <1>3 DEF NewRows
<1>5. HooksTypeOK' BY <1>2 DEF HooksTypeOK, RunsTypeOK
<1> QED BY <1>2, <1>4, <1>5 DEF Longer

LEMMA TwoRows ==
  ASSUME HooksTypeOK, InTime, UNCHANGED now, RunsTypeOK',
         NEW x, Insertable(x), NEW y, Insertable(y),
         NEW inserts, inserts = <<x, y>>, SafeAppend(inserts)
  PROVE  /\ Longer /\ NewRows = {Len(log) + 1, Len(log) + 2} /\ Len(log') = Len(log) + 2
         /\ SameNames(log'[Len(log) + 1], x) /\ SameNames(log'[Len(log) + 2], y)
<1>1. /\ inserts \in Seq({inserts[k] : k \in 1 .. 2}) /\ Len(inserts) = 2
      /\ inserts[1] = x /\ inserts[2] = y /\ \A k \in 1 .. 2 : k = 1 \/ k = 2
      /\ \A k \in 1 .. 2 : Insertable(inserts[k])
  OBVIOUS
<1>2. /\ Len(log') = Len(log) + 2 /\ DOMAIN log' = 1 .. Len(log')
      /\ log' \in Seq({log'[i] : i \in DOMAIN log'}) /\ \A i \in DOMAIN log' : IsRow(log'[i])
      /\ Grown /\ InTime' /\ \A i \in NewRows : log'[i].at = now
      /\ \A k \in 1 .. 2 : SameNames(log'[Len(log) + k], inserts[k])
  BY <1>1, Appends
<1>3. Len(log) \in Nat BY LogIsRows
<1>4. NewRows = {Len(log) + 1, Len(log) + 2} BY <1>2, <1>3 DEF NewRows
<1>5. HooksTypeOK' BY <1>2 DEF HooksTypeOK, RunsTypeOK
<1> QED BY <1>1, <1>2, <1>4, <1>5 DEF Longer

LEMMA OnceAndIf ==
  ASSUME NEW x, NEW y, NEW c \in BOOLEAN
  PROVE  Once(x) \o If(c, y) = IF c THEN <<x, y>> ELSE <<x>>
<1>1. <<x>> \in Seq({x, y}) /\ <<y>> \in Seq({x, y}) /\ << >> \in Seq({x, y})
      /\ Len(<<x>>) = 1 /\ Len(<<y>>) = 1 /\ Len(<< >>) = 0
  OBVIOUS
<1>2. <<x>> \o <<y>> = <<x, y>>
  <2> DEFINE z == <<x>> \o <<y>>
  <2>1. z \in Seq({x, y}) /\ Len(z) = 2 BY <1>1
  <2>2. z[1] = x /\ z[2] = y BY <1>1
  <2> HIDE DEF z
  <2>3. z = <<x, y>> BY <2>1, <2>2
  <2> QED BY <2>3 DEF z
<1>3. <<x>> \o << >> = <<x>> BY <1>1
<1> QED BY <1>2, <1>3 DEF Once, If

LEMMA InsertIs ==
  ASSUME HooksTypeOK, NEW type, NEW category, NEW session
  PROVE  LET x == Insert(type, category, session)
         IN  /\ Insertable(x) /\ x.type = type /\ x.session = session
             /\ x.by = None /\ x.job = None /\ x.run = None
<1> DEFINE x == Insert(type, category, session)
<1>1. now \in Int BY HooksAssumption DEF HooksTypeOK
<1>2. x.body = NoBody BY DEF Insert
<1>3. NoBody = <<NoBody[1], NoBody[2], NoBody[3]>> BY DEF NoBody
<1>4. IsRow(x) BY <1>1, <1>2, <1>3 DEF IsRow, Fields, Insert
<1> QED BY <1>2, <1>4 DEF Insertable, Insert

(* The hooks whose rows name no run. *)
LEMMA BystanderKeeps ==
  ASSUME HooksInv, UNCHANGED <<now, runs>>, NEW x, Insertable(x), Bystander(x), SafeAppend(Once(x))
  PROVE  HooksInv' /\ Longer
<1>1. RunsTypeOK' BY DEF HooksInv, HooksTypeOK, RunsTypeOK
<1>2. Once(x) = <<x>> BY DEF Once
<1>3. /\ Longer /\ NewRows = {Len(log) + 1} /\ SameNames(log'[Len(log) + 1], x)
  BY <1>1, <1>2, OneRow DEF HooksInv
<1>4. \A i \in NewRows : Bystander(log'[i]) BY <1>3 DEF SameNames, Bystander
<1> QED BY <1>3, <1>4, OthersKeep

LEMMA AfterToolCallKeeps ==
  ASSUME HooksInv, NEW r \in Runs, NEW tool, NEW outcome, AfterToolCall(r, tool, outcome)
  PROVE  HooksInv' /\ Longer
<1> DEFINE i == Insert(IF outcome = "denied" THEN "tool.denied" ELSE "tool.result", "tool", Context[r].id)
           x == [i EXCEPT !.tool = tool, !.error = outcome = "error"]
<1>1. Insertable(i) /\ i.type \in {"tool.denied", "tool.result"} /\ i.by = None /\ i.job = None
  BY InsertIs DEF HooksInv
<1>2. SafeAppend(Once(x)) /\ UNCHANGED <<now, runs>> BY DEF AfterToolCall
<1> HIDE DEF i
<1>3. Insertable(x) /\ Bystander(x) BY <1>1 DEF Insertable, IsRow, Fields, Bystander
<1> QED BY <1>2, <1>3, BystanderKeeps

LEMMA ModelUsageKeeps ==
  ASSUME HooksInv, NEW r \in Runs, NEW model, ModelUsage(r, model)
  PROVE  HooksInv' /\ Longer
<1> DEFINE i == Insert("prompt.response", "prompt", None)
           x == [i EXCEPT !.model = model, !.cost = 1]
<1>1. Insertable(i) /\ i.type = "prompt.response" /\ i.by = None /\ i.job = None
  BY InsertIs DEF HooksInv
<1>2. SafeAppend(Once(x)) /\ UNCHANGED <<now, runs>> BY DEF ModelUsage
<1> HIDE DEF i
<1>3. Insertable(x) /\ Bystander(x) BY <1>1 DEF Insertable, IsRow, Fields, Bystander
<1> QED BY <1>2, <1>3, BystanderKeeps

(* A body that a hook is given. *)
LEMMA BodyIs ==
  ASSUME NEW body \in Bodies \cup {NoBody}
  PROVE  body = <<body[1], body[2], body[3]>>
<1>1. CASE body = NoBody BY <1>1 DEF NoBody
<1>2. CASE body \in Bodies BY <1>2, HooksAssumption
<1> QED BY <1>1, <1>2

LEMMA MessageSendingKeeps ==
  ASSUME HooksInv, NEW r \in Runs, NEW peer, NEW body \in Bodies, MessageSending(r, peer, body)
  PROVE  HooksInv' /\ Longer
<1> DEFINE i == Insert("message.sending", "message", Context[r].conversation)
           x == [i EXCEPT !.peer = peer, !.body = body]
<1>1. Insertable(i) /\ i.type = "message.sending" /\ i.by = None /\ i.job = None
  BY InsertIs DEF HooksInv
<1>2. SafeAppend(Once(x)) /\ UNCHANGED <<now, runs>> BY DEF MessageSending
<1>3. body = <<body[1], body[2], body[3]>> BY BodyIs
<1> HIDE DEF i
<1>4. Insertable(x) /\ Bystander(x) BY <1>1, <1>3 DEF Insertable, IsRow, Fields, Bystander
<1> QED BY <1>2, <1>4, BystanderKeeps

LEMMA BeforeInstallKeeps ==
  ASSUME HooksInv, NEW scan, BeforeInstall(scan)
  PROVE  HooksInv' /\ Longer
<1> DEFINE i == Insert("system.install", "system", None)
           x == [i EXCEPT !.scan = scan]
<1>1. Insertable(i) /\ i.type = "system.install" /\ i.by = None /\ i.job = None
  BY InsertIs DEF HooksInv
<1>2. SafeAppend(Once(x)) /\ UNCHANGED <<now, runs>> BY DEF BeforeInstall
<1> HIDE DEF i
<1>3. Insertable(x) /\ Bystander(x) BY <1>1 DEF Insertable, IsRow, Fields, Bystander
<1> QED BY <1>2, <1>3, BystanderKeeps

LEMMA PlainHookKeeps ==
  ASSUME HooksInv, NEW r \in Runs, NEW plain, plain.type \notin {"cron.executed", "agent.end"},
         PlainHook(r, plain)
  PROVE  HooksInv' /\ Longer
<1> DEFINE x == Insert(plain.type, plain.category,
                       IF plain.session = None THEN None ELSE Context[r][plain.session])
<1>1. Insertable(x) /\ x.type = plain.type /\ x.by = None /\ x.job = None
  BY InsertIs DEF HooksInv
<1>2. SafeAppend(Once(x)) /\ UNCHANGED <<now, runs>> BY DEF PlainHook
<1> HIDE DEF x
<1>3. Bystander(x) BY <1>1 DEF Bystander
<1> QED BY <1>1, <1>2, <1>3, BystanderKeeps

(* No plain hook writes the start of a run, or its end. *)
LEMMA PlainTypes ==
  /\ \A hook \in DOMAIN PromptHooks : PromptHooks[hook].type \notin {"cron.executed", "agent.end"}
  /\ \A hook \in DOMAIN MessageHooks : MessageHooks[hook].type \notin {"cron.executed", "agent.end"}
  /\ \A hook \in DOMAIN SessionHooks : SessionHooks[hook].type \notin {"cron.executed", "agent.end"}
  /\ \A hook \in DOMAIN SubagentHooks : SubagentHooks[hook].type \notin {"cron.executed", "agent.end"}
  /\ \A hook \in DOMAIN GatewayHooks : GatewayHooks[hook].type \notin {"cron.executed", "agent.end"}
BY DEF PromptHooks, MessageHooks, SessionHooks, SubagentHooks, GatewayHooks, Plain

(* What a run does. *)
LEMMA BeforeToolCallKeeps ==
  ASSUME HooksInv, NEW r \in Runs, NEW tool, NEW risky \in BOOLEAN, BeforeToolCall(r, tool, risky)
  PROVE  HooksInv' /\ Longer
<1> DEFINE i == Insert("tool.invoked", "tool", Context[r].id)
           x == [i EXCEPT !.tool = tool, !.by = r]
           j == Insert("security.scan_result", "security", Context[r].id)
           y == [j EXCEPT !.tool = tool]
           c == "scan" \in uses /\ risky
           n == Len(log) + 1
<1>1. /\ Insertable(i) /\ i.type = "tool.invoked" /\ i.session = Context[r].id /\ i.job = None
      /\ Insertable(j) /\ j.type = "security.scan_result" /\ j.by = None /\ j.job = None
  BY InsertIs DEF HooksInv
<1>2. SafeAppend(Once(x) \o If(c, y)) /\ UNCHANGED now /\ Going(r)
  BY DEF BeforeToolCall
<1>3. runs' = [runs EXCEPT ![r].tools = @ + 1] BY DEF BeforeToolCall
<1>4. Once(x) \o If(c, y) = IF c THEN <<x, y>> ELSE <<x>> BY OnceAndIf
<1> HIDE DEF i, j, c
<1>5. /\ Insertable(x) /\ x.type = "tool.invoked" /\ x.session = Context[r].id /\ x.job = None /\ x.by = r
      /\ Insertable(y) /\ Bystander(y)
  BY <1>1 DEF Insertable, IsRow, Fields, Bystander
<1> HIDE DEF x, y
<1>6. /\ RunsTypeOK' /\ \A s \in Runs \ {r} : runs'[s] = runs[s]
      /\ runs'[r].phase = "going" /\ runs'[r].tools = runs[r].tools + 1
      /\ runs'[r].llm = runs[r].llm /\ runs'[r].sent = runs[r].sent
  BY <1>2, <1>3 DEF HooksInv, HooksTypeOK, RunsTypeOK, Going
<1>7. /\ Longer /\ n \in NewRows /\ SameNames(log'[n], x)
      /\ \A k \in NewRows \ {n} : Bystander(log'[k])
  <2>1. CASE c
    <3>1. PICK ins : ins = <<x, y>> OBVIOUS
    <3>2. /\ Longer /\ NewRows = {Len(log) + 1, Len(log) + 2}
          /\ SameNames(log'[Len(log) + 1], x) /\ SameNames(log'[Len(log) + 2], y)
      BY <2>1, <1>2, <1>4, <1>5, <1>6, <3>1, TwoRows DEF HooksInv
    <3> QED BY <3>2, <1>5 DEF SameNames, Bystander
  <2>2. CASE ~c
    <3>1. PICK ins : ins = <<x>> OBVIOUS
    <3>2. /\ Longer /\ NewRows = {Len(log) + 1} /\ SameNames(log'[Len(log) + 1], x)
      BY <2>2, <1>2, <1>4, <1>5, <1>6, <3>1, OneRow DEF HooksInv
    <3> QED BY <3>2
  <2> QED BY <2>1, <2>2
<1>8. log'[n].by = r /\ log'[n].type = "tool.invoked" /\ log'[n].job = None /\ log'[n].session = Context[r].id
  BY <1>5, <1>7 DEF SameNames
<1> HIDE DEF n
<1> QED BY <1>2, <1>6, <1>7, <1>8, WorkKeeps

LEMMA LlmOutputKeeps ==
  ASSUME HooksInv, NEW r \in Runs, NEW model, NEW body \in Bodies \cup {NoBody}, LlmOutput(r, model, body)
  PROVE  HooksInv' /\ Longer
<1> DEFINE i == Insert("prompt.response", "prompt", Context[r].id)
           x == [i EXCEPT !.model = model, !.body = body, !.by = r]
           n == Len(log) + 1
<1>1. Insertable(i) /\ i.type = "prompt.response" /\ i.session = Context[r].id /\ i.job = None
  BY InsertIs DEF HooksInv
<1>2. SafeAppend(Once(x)) /\ UNCHANGED now /\ Going(r) BY DEF LlmOutput
<1>3. runs' = [runs EXCEPT ![r].llm = @ + 1] BY DEF LlmOutput
<1>4. Once(x) = <<x>> /\ body = <<body[1], body[2], body[3]>> BY BodyIs DEF Once
<1> HIDE DEF i
<1>5. Insertable(x) /\ x.type = "prompt.response" /\ x.session = Context[r].id /\ x.job = None /\ x.by = r
  BY <1>1, <1>4 DEF Insertable, IsRow, Fields
<1> HIDE DEF x
<1>6. /\ RunsTypeOK' /\ \A s \in Runs \ {r} : runs'[s] = runs[s]
      /\ runs'[r].phase = "going" /\ runs'[r].tools = runs[r].tools
      /\ runs'[r].llm = runs[r].llm + 1 /\ runs'[r].sent = runs[r].sent
  <2>1. RunsTypeOK BY DEF HooksInv, HooksTypeOK, RunsTypeOK
  <2>2. RunsTypeOK' BY <2>1, <1>3 DEF RunsTypeOK
  <2>3. /\ \A s \in Runs \ {r} : runs'[s] = runs[s]
        /\ runs'[r].phase = "going" /\ runs'[r].tools = runs[r].tools
        /\ runs'[r].llm = runs[r].llm + 1 /\ runs'[r].sent = runs[r].sent
    BY <2>1, <1>2, <1>3 DEF RunsTypeOK, Going
  <2> QED BY <2>2, <2>3
<1>7. Longer /\ NewRows = {n} /\ SameNames(log'[n], x)
  <2>1. PICK ins : ins = <<x>> OBVIOUS
  <2> QED BY <1>2, <1>4, <1>5, <1>6, <2>1, OneRow DEF HooksInv
<1>8. log'[n].by = r /\ log'[n].type = "prompt.response" /\ log'[n].job = None /\ log'[n].session = Context[r].id
  BY <1>5, <1>7 DEF SameNames
<1> HIDE DEF n
<1> QED BY <1>2, <1>6, <1>7, <1>8, WorkKeeps

LEMMA MessageSentKeeps ==
  ASSUME HooksInv, NEW r \in Runs, NEW peer, NEW body \in Bodies, MessageSent(r, peer, body)
  PROVE  HooksInv' /\ Longer
<1> DEFINE i == Insert("message.sent", "message", Context[r].conversation)
           x == [i EXCEPT !.peer = peer, !.body = body, !.by = IF Going(r) THEN r ELSE None]
           n == Len(log) + 1
<1>1. /\ Insertable(i) /\ i.type = "message.sent" /\ i.session = Context[r].conversation
      /\ i.by = None /\ i.job = None
  BY InsertIs DEF HooksInv
<1>2. SafeAppend(Once(x)) /\ UNCHANGED now BY DEF MessageSent
<1>3. Once(x) = <<x>> /\ body = <<body[1], body[2], body[3]>> BY BodyIs DEF Once
<1> HIDE DEF i
<1>4. /\ Insertable(x) /\ x.type = "message.sent" /\ x.session = Context[r].conversation
      /\ x.job = None /\ x.by = IF Going(r) THEN r ELSE None
  BY <1>1, <1>3 DEF Insertable, IsRow, Fields
<1> HIDE DEF x
<1>5. CASE Going(r)
  <2>1. runs' = [runs EXCEPT ![r].sent = @ + 1] BY <1>5 DEF MessageSent
  <2>2. /\ RunsTypeOK' /\ \A s \in Runs \ {r} : runs'[s] = runs[s]
        /\ runs'[r].phase = "going" /\ runs'[r].tools = runs[r].tools
        /\ runs'[r].llm = runs[r].llm /\ runs'[r].sent = runs[r].sent + 1
    BY <1>5, <2>1 DEF HooksInv, HooksTypeOK, RunsTypeOK, Going
  <2>3. Longer /\ NewRows = {n} /\ SameNames(log'[n], x)
    <3>1. PICK ins : ins = <<x>> OBVIOUS
    <3> QED BY <1>2, <1>3, <1>4, <2>2, <3>1, OneRow DEF HooksInv
  <2>4. log'[n].by = r /\ log'[n].type = "message.sent" /\ log'[n].job = None
        /\ log'[n].session = Context[r].conversation
    BY <1>4, <1>5, <2>3 DEF SameNames
  <2> HIDE DEF n
  <2> QED BY <1>5, <2>2, <2>3, <2>4, WorkKeeps
<1>6. CASE ~Going(r)
  <2>1. UNCHANGED runs BY <1>6 DEF MessageSent
  <2>2. Bystander(x) BY <1>4, <1>6 DEF Bystander
  <2> QED BY <1>2, <1>4, <2>1, <2>2, BystanderKeeps
<1> QED BY <1>5, <1>6

(* The beginning of a run, and its end. *)
LEMMA BeforeModelResolveKeeps ==
  ASSUME HooksInv, NEW r \in Runs, BeforeModelResolve(r)
  PROVE  HooksInv' /\ Longer
<1> DEFINE x == Insert("prompt.model_resolve", "prompt", Context[r].id)
           j == Insert("cron.executed", "cron", Context[r].id)
           y == [j EXCEPT !.run = RunId[r], !.job = Job[r], !.by = r]
           c == Job[r] # None
<1>1. /\ Insertable(x) /\ x.type = "prompt.model_resolve" /\ x.by = None /\ x.job = None
      /\ Insertable(j) /\ j.type = "cron.executed" /\ j.session = Context[r].id
  BY InsertIs DEF HooksInv
<1>2. SafeAppend(Once(x) \o If(c, y)) /\ UNCHANGED now /\ runs[r].phase = "new"
  BY DEF BeforeModelResolve
<1>3. runs' = [runs EXCEPT ![r].phase = "going"] BY DEF BeforeModelResolve
<1>4. Once(x) \o If(c, y) = IF c THEN <<x, y>> ELSE <<x>> BY OnceAndIf
<1> HIDE DEF x, j
<1>5. /\ Insertable(y) /\ y.type = "cron.executed" /\ y.session = Context[r].id /\ y.by = r
      /\ y.run = RunId[r] /\ y.job = Job[r] /\ Bystander(x)
  BY <1>1 DEF Insertable, IsRow, Fields, Bystander
<1> HIDE DEF y
<1>6. RunsTypeOK' BY <1>3 DEF HooksInv, HooksTypeOK, RunsTypeOK
<1>7. CASE c
  <2>1. PICK ins : ins = <<x, y>> OBVIOUS
  <2>2. /\ Longer /\ NewRows = {Len(log) + 1, Len(log) + 2} /\ Len(log') = Len(log) + 2
        /\ SameNames(log'[Len(log) + 1], x) /\ SameNames(log'[Len(log) + 2], y)
    BY <1>1, <1>2, <1>4, <1>5, <1>6, <1>7, <2>1, TwoRows DEF HooksInv
  <2>3. \A k \in NewRows : Bystander(log'[k]) \/ (k = Len(log') /\ Job[r] # None)
    BY <1>5, <1>7, <2>2 DEF SameNames, Bystander
  <2>4. /\ Len(log') \in NewRows /\ IsStart(Len(log))'
        /\ log'[Len(log')].by = r /\ log'[Len(log')].job = Job[r]
        /\ log'[Len(log')].run = RunId[r] /\ log'[Len(log')].session = Context[r].id
    BY <1>5, <2>2 DEF SameNames, IsStart
  <2> QED BY <1>2, <1>3, <2>2, <2>3, <2>4, BeginKeeps
<1>8. CASE ~c
  <2>1. PICK ins : ins = <<x>> OBVIOUS
  <2>2. Longer /\ NewRows = {Len(log) + 1} /\ SameNames(log'[Len(log) + 1], x)
    BY <1>1, <1>2, <1>4, <1>6, <1>8, <2>1, OneRow DEF HooksInv
  <2>3. \A k \in NewRows : Bystander(log'[k]) BY <1>5, <2>2 DEF SameNames, Bystander
  <2> QED BY <1>2, <1>3, <1>8, <2>2, <2>3, BeginKeeps
<1> QED BY <1>7, <1>8

LEMMA AgentEndKeeps ==
  ASSUME HooksInv, NEW r \in Runs, NEW success \in BOOLEAN, AgentEnd(r, success)
  PROVE  HooksInv' /\ Longer
<1> DEFINE i == Insert("agent.end", "agent", Context[r].id)
           j == Insert("cron.failed", "cron", Context[r].id)
           x == [[i EXCEPT !.run = RunId[r], !.job = Job[r]] EXCEPT !.ok = success]
           y == [j EXCEPT !.run = RunId[r], !.job = Job[r]]
           c == Job[r] # None /\ ~success
           n == Len(log) + 1
<1>1. /\ Insertable(i) /\ i.type = "agent.end" /\ i.session = Context[r].id /\ i.by = None
      /\ Insertable(j) /\ j.type = "cron.failed" /\ j.session = Context[r].id /\ j.by = None
  BY InsertIs DEF HooksInv
<1>2. SafeAppend(Once(x) \o If(c, y)) /\ UNCHANGED now /\ Going(r)
  BY DEF AgentEnd
<1>3. runs' = [runs EXCEPT ![r].phase = IF success THEN "ok" ELSE "failed"] BY DEF AgentEnd
<1>4. Once(x) \o If(c, y) = IF c THEN <<x, y>> ELSE <<x>> BY OnceAndIf
<1> HIDE DEF i, j, c
<1>5. /\ Insertable(x) /\ x.type = "agent.end" /\ x.session = Context[r].id /\ x.by = None
      /\ x.run = RunId[r] /\ x.job = Job[r] /\ x.ok = success
      /\ Insertable(y) /\ y.type = "cron.failed" /\ y.session = Context[r].id /\ y.by = None
      /\ y.job = Job[r]
  BY <1>1 DEF Insertable, IsRow, Fields
<1> HIDE DEF x, y
<1>6. RunsTypeOK' BY <1>3 DEF HooksInv, HooksTypeOK, RunsTypeOK
<1>7. /\ Longer /\ n \in NewRows /\ SameNames(log'[n], x)
      /\ \A k \in NewRows : k = n \/ SameNames(log'[k], y)
  <2>1. CASE c
    <3>1. PICK ins : ins = <<x, y>> OBVIOUS
    <3>2. /\ Longer /\ NewRows = {Len(log) + 1, Len(log) + 2}
          /\ SameNames(log'[Len(log) + 1], x) /\ SameNames(log'[Len(log) + 2], y)
      BY <2>1, <1>2, <1>4, <1>5, <1>6, <3>1, TwoRows DEF HooksInv
    <3> QED BY <3>2
  <2>2. CASE ~c
    <3>1. PICK ins : ins = <<x>> OBVIOUS
    <3>2. Longer /\ NewRows = {Len(log) + 1} /\ SameNames(log'[Len(log) + 1], x)
      BY <2>2, <1>2, <1>4, <1>5, <1>6, <3>1, OneRow DEF HooksInv
    <3> QED BY <3>2
  <2> QED BY <2>1, <2>2
<1>8. log'[n].type = "agent.end" /\ log'[n].run = RunId[r] /\ log'[n].ok = success
  BY <1>5, <1>7 DEF SameNames
<1>9. \A k \in NewRows : /\ log'[k].by = None /\ log'[k].job \in {None, Job[r]}
                         /\ log'[k].session = Context[r].id
                         /\ k # n => log'[k].type \notin {"cron.executed", "agent.end"}
  BY <1>5, <1>7 DEF SameNames
<1> HIDE DEF n
<1> QED BY <1>2, <1>3, <1>7, <1>8, <1>9, EndKeeps

(* Runs go down with the host, and time passes. *)
LEMMA DidStays ==
  ASSUME UNCHANGED log
  PROVE  \A r \in Runs : \A type : Did(r, type)' = Did(r, type)
BY DEF Did

LEMMA GatewayCrashKeeps ==
  ASSUME HooksInv, GatewayCrash
  PROVE  HooksInv'
<1> USE DEF HooksInv
<1>1. UNCHANGED <<log, now>>
      /\ runs' = [r \in Runs |-> IF Going(r) THEN [runs[r] EXCEPT !.phase = "lost"] ELSE runs[r]]
  BY DEF GatewayCrash
<1>2. \A r \in Runs :
        /\ runs'[r].tools = runs[r].tools /\ runs'[r].llm = runs[r].llm /\ runs'[r].sent = runs[r].sent
        /\ runs'[r].phase = "new" <=> runs[r].phase = "new"
        /\ runs'[r].phase \in {"ok", "failed"} \/ runs[r].phase \in {"ok", "failed"}
             => runs'[r].phase = runs[r].phase
  BY <1>1 DEF HooksTypeOK, Going
<1>3. HooksTypeOK' BY <1>1 DEF HooksTypeOK
<1>4. InTime' /\ JobsKnown' BY <1>1 DEF InTime, JobsKnown, IsStart
<1>5. StartsKnown' BY <1>1, <1>2 DEF StartsKnown, IsStart
<1>6. WorkKnown' BY <1>1, <1>2 DEF WorkKnown, IsStart
<1>7. Counted' BY <1>1, <1>2, DidStays DEF Counted
<1>8. EndsKnown'
  <2>1. \A r \in Runs, i \in DOMAIN log : EndOf(r, i) => EndOf(r, i)' BY <1>1, <1>2 DEF EndOf
  <2> QED BY <1>1, <1>2, <2>1 DEF EndsKnown
<1> QED BY <1>3, <1>4, <1>5, <1>6, <1>7, <1>8

LEMMA TickKeeps ==
  ASSUME HooksInv, Tick
  PROVE  HooksInv'
<1> USE DEF HooksInv
<1>1. UNCHANGED <<log, runs>> /\ now' > now /\ now' \in Instants BY DEF Tick
<1>2. HooksTypeOK' BY <1>1 DEF HooksTypeOK
<1>3. InTime'
  <2>1. now \in Int /\ now' \in Int /\ \A i \in DOMAIN log : log[i].at \in Int
    BY <1>1, HooksAssumption DEF HooksTypeOK, IsRow
  <2> QED BY <1>1, <2>1 DEF InTime
<1>4. JobsKnown' /\ StartsKnown' /\ WorkKnown'
  BY <1>1 DEF JobsKnown, StartsKnown, WorkKnown, IsStart
<1>6. Counted' BY <1>1, DidStays DEF Counted
<1>5. EndsKnown' BY <1>1 DEF EndsKnown, EndOf
<1> QED BY <1>2, <1>3, <1>4, <1>5, <1>6

(* The invariant holds of an empty log, and every step keeps it. *)
LEMMA HooksInvInit == HooksInit => HooksInv
<1> SUFFICES ASSUME HooksInit PROVE HooksInv
  OBVIOUS
<1>1. log = <<>> /\ now \in Instants /\ runs = [r \in Runs |-> Fresh] BY DEF HooksInit
<1>2. DOMAIN log = {} /\ log \in Seq({log[i] : i \in DOMAIN log}) BY <1>1
<1>3. \A r \in Runs : /\ runs[r].phase = "new" /\ runs[r].tools = 0
                      /\ runs[r].llm = 0 /\ runs[r].sent = 0
  BY <1>1 DEF Fresh
<1>4. HooksTypeOK BY <1>1, <1>2 DEF HooksTypeOK, Fresh
<1>5. InTime /\ JobsKnown /\ StartsKnown /\ WorkKnown /\ EndsKnown
  BY <1>2, <1>3 DEF InTime, JobsKnown, StartsKnown, WorkKnown, EndsKnown
<1>6. Counted
  <2>1. \A r \in Runs, type \in {"tool.invoked", "prompt.response", "message.sent"} : Did(r, type) = {}
    BY <1>2 DEF Did
  <2> QED BY <1>3, <2>1, FS_EmptySet DEF Counted
<1> QED BY <1>4, <1>5, <1>6 DEF HooksInv

LEMMA HooksInvStep == HooksInv /\ [HooksNext]_hookVars => HooksInv'
<1> SUFFICES ASSUME HooksInv, [HooksNext]_hookVars PROVE HooksInv'
  OBVIOUS
<1>1. CASE \E r \in Runs : BeforeModelResolve(r)
  BY <1>1, BeforeModelResolveKeeps
<1>2. CASE \E r \in Runs, success \in BOOLEAN : AgentEnd(r, success)
  BY <1>2, AgentEndKeeps
<1>3. CASE \E r \in Runs, tool \in Tools, risky \in BOOLEAN : BeforeToolCall(r, tool, risky)
  BY <1>3, BeforeToolCallKeeps
<1>4. CASE \E r \in Runs, tool \in Tools, outcome \in {"denied", "done", "error"} : AfterToolCall(r, tool, outcome)
  BY <1>4, AfterToolCallKeeps
<1>5. CASE \E r \in Runs, model \in Models, body \in Bodies \cup {NoBody} : LlmOutput(r, model, body)
  BY <1>5, LlmOutputKeeps
<1>6. CASE \E r \in Runs, model \in Models : ModelUsage(r, model)
  BY <1>6, ModelUsageKeeps
<1>7. CASE \E r \in Runs, peer \in Peers, body \in Bodies : MessageSending(r, peer, body)
  BY <1>7, MessageSendingKeeps
<1>8. CASE \E r \in Runs, peer \in Peers, body \in Bodies : MessageSent(r, peer, body)
  BY <1>8, MessageSentKeeps
<1>9. CASE \E scan \in {"ok", "failed", None} : BeforeInstall(scan)
  BY <1>9, BeforeInstallKeeps
<1>10. CASE \E r \in Runs, hook \in DOMAIN PromptHooks : PlainHook(r, PromptHooks[hook])
  BY <1>10, PlainTypes, PlainHookKeeps
<1>11. CASE \E r \in Runs, hook \in DOMAIN MessageHooks : PlainHook(r, MessageHooks[hook])
  BY <1>11, PlainTypes, PlainHookKeeps
<1>12. CASE \E r \in Runs, hook \in DOMAIN SessionHooks : PlainHook(r, SessionHooks[hook])
  BY <1>12, PlainTypes, PlainHookKeeps
<1>13. CASE \E r \in Runs, hook \in DOMAIN SubagentHooks : PlainHook(r, SubagentHooks[hook])
  BY <1>13, PlainTypes, PlainHookKeeps
<1>14. CASE \E r \in Runs, hook \in DOMAIN GatewayHooks : PlainHook(r, GatewayHooks[hook])
  BY <1>14, PlainTypes, PlainHookKeeps
<1>15. CASE GatewayCrash BY <1>15, GatewayCrashKeeps
<1>16. CASE Tick BY <1>16, TickKeeps
<1>17. CASE UNCHANGED hookVars
  <2> USE <1>17 DEF hookVars, HooksInv
  <2>1. HooksTypeOK' BY DEF HooksTypeOK
  <2>2. InTime' BY DEF InTime
  <2>3. StartsKnown' BY DEF StartsKnown, IsStart
  <2>4. EndsKnown' BY DEF EndsKnown, EndOf
  <2>5. WorkKnown' /\ JobsKnown' BY DEF WorkKnown, JobsKnown, IsStart
  <2>6. Counted' BY DidStays DEF Counted
  <2> QED BY <2>1, <2>2, <2>3, <2>4, <2>5, <2>6
<1> QED
  BY <1>1, <1>2, <1>3, <1>4, <1>5, <1>6, <1>7, <1>8, <1>9, <1>10, <1>11, <1>12, <1>13, <1>14,
     <1>15, <1>16, <1>17
  DEF HooksNext

(* The inductive invariant of the log: rows in the order of time; one start  *)
(* of a cron run, under its names; an end of a run exactly if it has ended,  *)
(* saying how; what it did after its start and before its end, and counted.  *)
THEOREM HooksInductive == HooksSpec => []HooksInv
BY HooksInvInit, HooksInvStep, PTL DEF HooksSpec

-----------------------------------------------------------------------------
(* The walk of detectors and timeline.                                       *)
Indices(R, n) == \A k \in R : k \in Nat /\ 1 <= k /\ k <= n

LEMMA LargestIndex ==
  ASSUME NEW n \in Nat, NEW R, Indices(R, n), R # {}
  PROVE  Max(R) \in R /\ \A x \in R : x <= Max(R)
<1>1. R \in SUBSET (0 .. n) BY DEF Indices
<1> QED BY <1>1, LargestIs

OpenerOf(R, J, f, i) ==
  LET earlier == {j \in R : j < i}
  IN  IF earlier # {} /\ <<f[Max(earlier)], Max(earlier), i>> \in J THEN f[Max(earlier)] ELSE i

LEMMA OpenerExists ==
  ASSUME NEW n \in Nat, NEW R, Indices(R, n), NEW J
  PROVE  \E f : f = [i \in R |-> OpenerOf(R, J, f, i)]
<1>r. \A k \in R : k \in Nat /\ 1 <= k /\ k <= n BY DEF Indices
<1> USE <1>r
<1> DEFINE upto(k) == {i \in R : i <= k}
           has(k) == \E f : f = [i \in upto(k) |-> OpenerOf(R, J, f, i)]
           bad == {k \in Nat : ~has(k)}
<1>1. ASSUME bad # {} PROVE FALSE
  <2>1. bad \in SUBSET Nat OBVIOUS
  <2>2. PICK k \in bad : \A x \in bad : k <= x
    <3> HIDE DEF bad
    <3> QED BY <1>1, <2>1, SmallestIs
  <2>3. k \in Nat /\ ~has(k) /\ (k # 0 => has(k - 1))
    <3>1. k \in Nat /\ ~has(k) OBVIOUS
    <3>2. k # 0 => k - 1 \in Nat /\ ~(k <= k - 1) BY <3>1
    <3>3. k # 0 => k - 1 \notin bad BY <3>2, <2>2
    <3> QED BY <3>1, <3>2, <3>3
  <2>4. has(0)
    <3>1. upto(0) = {} OBVIOUS
    <3>2. PICK f : f = [i \in {} |-> 0] OBVIOUS
    <3>3. f = [i \in {} |-> OpenerOf(R, J, f, i)] BY <3>2
    <3> QED BY <3>1, <3>3
  <2>5. k # 0 BY <2>3, <2>4
  <2>6. PICK g : g = [i \in upto(k - 1) |-> OpenerOf(R, J, g, i)] BY <2>3, <2>5
  <2>7. PICK f : f = [i \in upto(k) |-> IF i = k THEN OpenerOf(R, J, g, k) ELSE g[i]] OBVIOUS
  <2>8. \A i \in upto(k) : OpenerOf(R, J, f, i) = OpenerOf(R, J, g, i)
    <3> TAKE i \in upto(k)
    <3> DEFINE earlier == {j \in R : j < i}
    <3>1. CASE earlier = {} BY <3>1 DEF OpenerOf
    <3>2. CASE earlier # {}
      <4>1. Indices(earlier, n) BY DEF Indices
      <4>2. PICK p : p = Max(earlier) OBVIOUS
      <4>3. p \in earlier
        <5> HIDE DEF earlier
        <5> QED BY <3>2, <4>1, <4>2, LargestIndex
      <4>4. p \in upto(k) /\ p # k BY <4>3, <2>3
      <4>5. f[p] = g[p] BY <4>4, <2>7
      <4> QED BY <4>2, <4>5 DEF OpenerOf
    <3> QED BY <3>1, <3>2
  <2>9. \A i \in upto(k) : f[i] = OpenerOf(R, J, f, i)
    <3> TAKE i \in upto(k)
    <3>1. CASE i = k BY <3>1, <2>7, <2>8
    <3>2. CASE i # k
      <4>1. i \in upto(k - 1) BY <3>2, <2>3
      <4>2. g[i] = OpenerOf(R, J, g, i)
        <5> HIDE DEF upto
        <5> QED BY <2>6, <4>1
      <4> QED BY <3>2, <4>2, <2>7, <2>8
    <3> QED BY <3>1, <3>2
  <2>10. f = [i \in upto(k) |-> OpenerOf(R, J, f, i)]
    <3> HIDE DEF upto
    <3> QED BY <2>7, <2>9
  <2> QED BY <2>3, <2>10
<1>2. has(n) BY <1>1
<1>3. upto(n) = R OBVIOUS
<1> QED BY <1>2, <1>3

(* What the walk gives each row: itself, or the opener of the row before. *)
LEMMA OpenerIs ==
  ASSUME NEW n \in Nat, NEW R, Indices(R, n), NEW J, NEW f, f = Opener(R, J)
  PROVE  /\ DOMAIN f = R
         /\ \A i \in R : {j \in R : j < i} = {} => f[i] = i
         /\ \A i, p \in R : p < i /\ (\A j \in R : j < i => j <= p) =>
              f[i] = IF <<f[p], p, i>> \in J THEN f[p] ELSE i
<1>r. \A k \in R : k \in Nat /\ 1 <= k /\ k <= n BY DEF Indices
<1> USE <1>r
<1>1. f = [i \in R |-> OpenerOf(R, J, f, i)]
  <2>1. Opener(R, J) = CHOOSE g : g = [i \in R |-> OpenerOf(R, J, g, i)]
    BY DEF Opener, OpenerOf
  <2> QED BY <2>1, OpenerExists
<1>2. \A i \in R : {j \in R : j < i} = {} => f[i] = i
  BY <1>1 DEF OpenerOf
<1>3. \A i, p \in R : p < i /\ (\A j \in R : j < i => j <= p) =>
              f[i] = IF <<f[p], p, i>> \in J THEN f[p] ELSE i
  <2> SUFFICES ASSUME NEW i \in R, NEW p \in R, p < i, \A j \in R : j < i => j <= p
               PROVE  f[i] = IF <<f[p], p, i>> \in J THEN f[p] ELSE i
    OBVIOUS
  <2> DEFINE earlier == {j \in R : j < i}
  <2>1. Indices(earlier, n) /\ earlier # {} BY DEF Indices
  <2>2. Max(earlier) \in earlier /\ \A x \in earlier : x <= Max(earlier)
    <3> HIDE DEF earlier
    <3> QED BY <2>1, LargestIndex
  <2>3. Max(earlier) = p BY <2>2
  <2>4. f[i] = OpenerOf(R, J, f, i) BY <1>1
  <2> QED BY <2>1, <2>3, <2>4 DEF OpenerOf
<1> QED BY <1>1, <1>2, <1>3

(* A row that is not the first has one before it. *)
LEMMA BeforeIs ==
  ASSUME NEW n \in Nat, NEW R, Indices(R, n), NEW i \in R, NEW k \in R, k < i
  PROVE  \E p \in R : p < i /\ k <= p /\ \A j \in R : j < i => j <= p
<1>r. \A x \in R : x \in Nat /\ 1 <= x /\ x <= n BY DEF Indices
<1> USE <1>r
<1> DEFINE earlier == {j \in R : j < i}
<1>1. Indices(earlier, n) /\ earlier # {} BY DEF Indices
<1>2. Max(earlier) \in earlier /\ \A x \in earlier : x <= Max(earlier)
  <2> HIDE DEF earlier
  <2> QED BY <1>1, LargestIndex
<1> QED BY <1>2

(* What holds of the first row, and of a row if of those before, holds of all *)
(* of them: the openers are in order, and each opens its own group.           *)
LEMMA OpenersInOrder ==
  ASSUME NEW n \in Nat, NEW R, Indices(R, n), NEW J, NEW f, f = Opener(R, J)
  PROVE  /\ \A i \in R : f[i] \in R /\ f[i] <= i /\ f[f[i]] = f[i]
         /\ \A i, j \in R : i <= j => f[i] <= f[j]
<1>r. \A k \in R : k \in Nat /\ 1 <= k /\ k <= n BY DEF Indices
<1> USE <1>r
<1> DEFINE good(j) == /\ f[j] \in R /\ f[j] <= j /\ f[f[j]] = f[j]
                      /\ \A i \in R : i <= j => f[i] <= f[j]
           bad == {j \in R : ~good(j)}
<1>1. ASSUME bad # {} PROVE FALSE
  <2>1. bad \in SUBSET Nat OBVIOUS
  <2>2. PICK j \in bad : \A x \in bad : j <= x
    <3> HIDE DEF bad
    <3> QED BY <1>1, <2>1, SmallestIs
  <2>3. j \in R /\ ~good(j) OBVIOUS
  <2>4. \A i \in R : i < j => good(i)
    <3> TAKE i \in R
    <3>1. i < j => ~(j <= i) BY <2>3
    <3> QED BY <3>1, <2>2
  <2>5. CASE f[j] = j
    <3>1. \A i \in R : i <= j => f[i] <= f[j]
      <4> TAKE i \in R
      <4>1. CASE i < j
        <5>1. f[i] \in R /\ f[i] <= i BY <4>1, <2>4
        <5> QED BY <4>1, <2>5, <5>1
      <4>2. CASE i = j BY <4>2, <2>5
      <4> QED BY <4>1, <4>2
    <3> QED BY <2>3, <2>5, <3>1
  <2>6. CASE f[j] # j
    <3>1. {i \in R : i < j} # {} BY <2>3, <2>6, OpenerIs
    <3>2. PICK p \in R : p < j /\ \A i \in R : i < j => i <= p BY <2>3, <3>1, BeforeIs
    <3>3. f[j] = f[p]
      <4>1. f[j] = IF <<f[p], p, j>> \in J THEN f[p] ELSE j BY <2>3, <3>2, OpenerIs
      <4> QED BY <2>6, <4>1
    <3>4. f[p] \in R /\ f[p] <= p /\ f[f[p]] = f[p] /\ \A i \in R : i <= p => f[i] <= f[p]
      BY <2>4, <3>2
    <3>5. \A i \in R : i <= j => f[i] <= f[j]
      <4> TAKE i \in R
      <4>1. CASE i < j BY <4>1, <3>2, <3>3, <3>4
      <4>2. CASE i = j BY <4>2, <3>3, <3>4
      <4> QED BY <2>3, <4>1, <4>2
    <3> QED BY <2>3, <3>2, <3>3, <3>4, <3>5
  <2> QED BY <2>5, <2>6
<1> QED BY <1>1

(* The groups: the rows in blocks, each row once; and each row but the first *)
(* of a group has joined it.                                                 *)
LEMMA GroupsAre ==
  ASSUME NEW n \in Nat, NEW R, Indices(R, n), NEW J, NEW G, G = Groups(R, J)
  PROVE  /\ UNION G = R
         /\ \A c, d \in G : c # d => (\A i \in c, j \in d : i < j) \/ (\A i \in c, j \in d : j < i)
         /\ \A c \in G : \E first \in c : \A i \in c : i = first \/
              \E p \in c : first <= p /\ p < i /\ <<first, p, i>> \in J
<1>r. \A k \in R : k \in Nat /\ 1 <= k /\ k <= n BY DEF Indices
<1> USE <1>r
<1>0. PICK f : f = Opener(R, J) OBVIOUS
<1>1. /\ \A i \in R : f[i] \in R /\ f[i] <= i /\ f[f[i]] = f[i]
      /\ \A i, j \in R : i <= j => f[i] <= f[j]
  BY <1>0, OpenersInOrder
<1>2. G = {{i \in R : f[i] = h} : h \in {f[i] : i \in R}} BY <1>0 DEF Groups
<1>3. UNION G = R
  <2>1. \A i \in R : i \in UNION G
    <3> TAKE i \in R
    <3>1. {j \in R : f[j] = f[i]} \in G BY <1>2
    <3> QED BY <3>1
  <2>2. \A c \in G : c \subseteq R BY <1>2
  <2> QED BY <2>1, <2>2
<1>4. \A c, d \in G : c # d => (\A i \in c, j \in d : i < j) \/ (\A i \in c, j \in d : j < i)
  <2> TAKE c, d \in G
  <2> HAVE c # d
  <2>1. PICK g \in R : c = {i \in R : f[i] = f[g]} BY <1>2
  <2>2. PICK h \in R : d = {i \in R : f[i] = f[h]} BY <1>2
  <2>3. f[g] # f[h] BY <2>1, <2>2
  <2>4. CASE f[g] < f[h]
    <3>1. \A i \in c, j \in d : i < j
      <4> TAKE i \in c, j \in d
      <4>1. i \in R /\ j \in R /\ f[i] = f[g] /\ f[j] = f[h] BY <2>1, <2>2
      <4>2. ~(j <= i) BY <4>1, <2>4, <1>1
      <4> QED BY <4>1, <4>2
    <3> QED BY <3>1
  <2>5. CASE f[h] < f[g]
    <3>1. \A i \in c, j \in d : j < i
      <4> TAKE i \in c, j \in d
      <4>1. i \in R /\ j \in R /\ f[i] = f[g] /\ f[j] = f[h] BY <2>1, <2>2
      <4>2. ~(i <= j) BY <4>1, <2>5, <1>1
      <4> QED BY <4>1, <4>2
    <3> QED BY <3>1
  <2>6. f[g] \in Nat /\ f[h] \in Nat BY <1>1
  <2> QED BY <2>3, <2>4, <2>5, <2>6
<1>5. \A c \in G : \E first \in c : \A i \in c : i = first \/
              \E p \in c : first <= p /\ p < i /\ <<first, p, i>> \in J
  <2> TAKE c \in G
  <2>1. PICK g \in R : c = {i \in R : f[i] = f[g]} BY <1>2
  <2>2. PICK h : h = f[g] OBVIOUS
  <2>3. h \in c BY <1>1, <2>1, <2>2
  <2>4. \A i \in c : i = h \/ \E p \in c : h <= p /\ p < i /\ <<h, p, i>> \in J
    <3> TAKE i \in c
    <3>1. i \in R /\ f[i] = h BY <2>1, <2>2
    <3>2. CASE i # h
      <4>1. {j \in R : j < i} # {} BY <1>0, <3>1, <3>2, OpenerIs
      <4>2. PICK p \in R : p < i /\ \A j \in R : j < i => j <= p BY <3>1, <4>1, BeforeIs
      <4>3. f[p] = h /\ <<h, p, i>> \in J
        <5>1. f[i] = IF <<f[p], p, i>> \in J THEN f[p] ELSE i BY <1>0, <3>1, <4>2, OpenerIs
        <5> QED BY <3>1, <3>2, <5>1
      <4>4. p \in c /\ h <= p BY <4>2, <4>3, <1>1, <2>1, <2>2
      <4> QED BY <4>2, <4>3, <4>4
    <3> QED BY <3>2
  <2> QED BY <2>3, <2>4
<1> QED BY <1>3, <1>4, <1>5

(* A row that may join the group that is open does. *)
LEMMA JoinsNext ==
  ASSUME NEW n \in Nat, NEW R, Indices(R, n), NEW J, NEW G, G = Groups(R, J),
         NEW c \in G, NEW p \in c, NEW i \in R, p < i, \A j \in R : j < i => j <= p,
         \A first \in c : (\A j \in c : first <= j) => <<first, p, i>> \in J
  PROVE  i \in c
<1>r. \A k \in R : k \in Nat /\ 1 <= k /\ k <= n BY DEF Indices
<1> USE <1>r
<1>0. PICK f : f = Opener(R, J) OBVIOUS
<1>1. /\ \A j \in R : f[j] \in R /\ f[j] <= j /\ f[f[j]] = f[j]
      /\ \A j, k \in R : j <= k => f[j] <= f[k]
  BY <1>0, OpenersInOrder
<1>2. G = {{j \in R : f[j] = h} : h \in {f[j] : j \in R}} BY <1>0 DEF Groups
<1>3. PICK g \in R : c = {j \in R : f[j] = f[g]} BY <1>2
<1>4. PICK h : h = f[g] OBVIOUS
<1>5. h \in c /\ (\A j \in c : h <= j) /\ p \in R /\ f[p] = h BY <1>1, <1>3, <1>4
<1>6. <<h, p, i>> \in J BY <1>5
<1>7. f[i] = IF <<f[p], p, i>> \in J THEN f[p] ELSE i BY <1>0, <1>5, OpenerIs
<1> QED BY <1>3, <1>4, <1>5, <1>6, <1>7

(* How many there are of rows. *)
LEMMA FiniteRows ==
  ASSUME NEW n \in Nat, NEW R, Indices(R, n)
  PROVE  IsFiniteSet(R) /\ Cardinality(R) \in Nat
<1>1. R \subseteq 1 .. n BY DEF Indices
<1>2. IsFiniteSet(1 .. n)
  <2>1. 1 \in Int /\ n \in Int OBVIOUS
  <2> QED BY <2>1, FS_Interval
<1> QED BY <1>1, <1>2, FS_Subset, FS_CardinalityType

(* A fetch below its cap has everything. *)
LEMMA FetchedIs ==
  ASSUME NEW n \in Nat, NEW R, Indices(R, n), Cardinality(Fetched(R)) < FetchCap
  PROVE  Fetched(R) = R
<1> DEFINE left == R \ Fetched(R)
<1>1. ASSUME left # {} PROVE FALSE
  <2>1. left \in SUBSET Nat BY DEF Indices
  <2>2. PICK i : i = Min(left) OBVIOUS
  <2>3. i \in left /\ \A x \in left : i <= x
    <3> HIDE DEF left
    <3> QED BY <1>1, <2>1, <2>2, SmallestIs
  <2>4. i \in R /\ ~(Cardinality({j \in R : j < i}) < FetchCap) BY <2>3 DEF Fetched
  <2> DEFINE before == {j \in R : j < i}
  <2>5. before \subseteq Fetched(R)
    <3>1. \A j \in before : j \notin left BY <2>3 DEF Indices
    <3> QED BY <3>1
  <2>6. Indices(Fetched(R), n) /\ Indices(before, n) BY DEF Indices, Fetched
  <2>7. IsFiniteSet(Fetched(R)) /\ Cardinality(Fetched(R)) \in Nat /\ Cardinality(before) \in Nat
    <3> HIDE DEF before
    <3> QED BY <2>6, FiniteRows
  <2>8. Cardinality(before) <= Cardinality(Fetched(R))
    <3> HIDE DEF before
    <3> QED BY <2>5, <2>7, FS_Subset
  <2> QED BY <2>4, <2>7, <2>8, ReportsAssumption
<1>2. Fetched(R) \subseteq R BY DEF Fetched
<1> QED BY <1>1, <1>2

(* Clusters: blocks within the span, and what could extend one is in it.     *)
Rows(R) == R \subseteq DOMAIN log

LEMMA RowsAre ==
  ASSUME HooksInv, NEW R, Rows(R)
  PROVE  /\ Len(log) \in Nat /\ Indices(R, Len(log))
         /\ \A i \in R : i \in Nat /\ log[i].at \in Int
         /\ \A i, j \in R : i <= j => log[i].at <= log[j].at
<1>1. Len(log) \in Nat /\ DOMAIN log = 1 .. Len(log) BY LogIsRows DEF HooksInv
<1>2. Indices(R, Len(log)) /\ \A i \in R : i \in Nat BY <1>1 DEF Indices, Rows
<1>3. \A i \in R : log[i].at \in Int BY DEF Rows, HooksInv, HooksTypeOK, IsRow
<1>4. \A i, j \in R : i <= j => log[i].at <= log[j].at BY DEF Rows, HooksInv, InTime
<1> QED BY <1>1, <1>2, <1>3, <1>4

(* Clusters are blocks of the rows, and none is longer than the span. *)
LEMMA ClustersAre ==
  ASSUME HooksInv, NEW R, Rows(R), NEW span \in Nat, NEW C, C = Clusters(R, span)
  PROVE  /\ UNION C = R
         /\ \A c, d \in C : c # d => (\A i \in c, j \in d : i < j) \/ (\A i \in c, j \in d : j < i)
         /\ \A c \in C : Within(c, span)
<1>1. PICK J : J = {x \in R \X R \X R : Extends(x[1], x[2], x[3], span)} OBVIOUS
<1>2. C = Groups(R, J) BY <1>1 DEF Clusters
<1>3. Len(log) \in Nat /\ Indices(R, Len(log)) BY RowsAre
<1>4. /\ UNION C = R
      /\ \A c, d \in C : c # d => (\A i \in c, j \in d : i < j) \/ (\A i \in c, j \in d : j < i)
      /\ \A c \in C : \E first \in c : \A i \in c : i = first \/
           \E p \in c : first <= p /\ p < i /\ <<first, p, i>> \in J
  <2> HIDE <1>1
  <2> QED BY <1>2, <1>3, GroupsAre
<1>5. \A c \in C : Within(c, span)
  <2> TAKE c \in C
  <2>1. PICK first \in c : \A i \in c : i = first \/
           \E p \in c : first <= p /\ p < i /\ <<first, p, i>> \in J
    BY <1>4
  <2>2. c \subseteq R BY <1>4
  <2>3. \A i \in c : first <= i /\ log[i].at - log[first].at <= span
    <3> TAKE i \in c
    <3>1. CASE i = first BY <3>1, <2>2, RowsAre
    <3>2. CASE \E p \in c : first <= p /\ p < i /\ <<first, p, i>> \in J
      <4>1. PICK p \in c : first <= p /\ p < i /\ <<first, p, i>> \in J BY <3>2
      <4>2. Extends(first, p, i, span)
        <5>1. PICK x \in R \X R \X R : x = <<first, p, i>> /\ Extends(x[1], x[2], x[3], span)
          BY <1>1, <4>1
        <5> QED BY <5>1
      <4>3. first \in Nat /\ p \in Nat /\ i \in Nat BY <2>2, <4>1, RowsAre
      <4> QED BY <4>1, <4>2, <4>3 DEF Extends
    <3> QED BY <2>1, <3>1, <3>2
  <2>4. \A i, j \in c : log[j].at - log[i].at <= span
    <3> TAKE i, j \in c
    <3>1. first \in R /\ i \in R /\ j \in R BY <2>2
    <3>2. log[first].at <= log[i].at /\ log[j].at - log[first].at <= span BY <2>3, <3>1, RowsAre
    <3>3. log[first].at \in Int /\ log[i].at \in Int /\ log[j].at \in Int BY <3>1, RowsAre
    <3> QED BY <3>2, <3>3, ReportsAssumption
  <2> QED BY <2>4 DEF Within
<1> QED BY <1>4, <1>5

(* A cluster takes the next row if that is within the span of its first. *)
LEMMA ClusterTakesNext ==
  ASSUME HooksInv, NEW R, Rows(R), NEW span \in Nat, NEW C, C = Clusters(R, span),
         NEW c \in C, NEW p \in c, NEW i \in R, p < i, \A j \in R : j < i => j <= p,
         \A first \in c : (\A j \in c : first <= j) => log[i].at - log[first].at <= span
  PROVE  i \in c
<1>1. PICK J : J = {x \in R \X R \X R : Extends(x[1], x[2], x[3], span)} OBVIOUS
<1>2. C = Groups(R, J) BY <1>1 DEF Clusters
<1>3. Len(log) \in Nat /\ Indices(R, Len(log)) BY RowsAre
<1>4. c \subseteq R BY ClustersAre
<1>5. \A first \in c : (\A j \in c : first <= j) => <<first, p, i>> \in J
  <2> TAKE first \in c
  <2> HAVE \A j \in c : first <= j
  <2>1. log[i].at - log[first].at <= span OBVIOUS
  <2>2. first \in R /\ p \in R /\ first <= p BY <1>4
  <2>3. /\ log[first].at <= log[p].at
        /\ log[first].at \in Int /\ log[p].at \in Int /\ log[i].at \in Int
    BY <2>2, RowsAre
  <2>4. Extends(first, p, i, span) BY <2>1, <2>3 DEF Extends
  <2>5. PICK x : x = <<first, p, i>> OBVIOUS
  <2>6. x \in R \X R \X R BY <2>2, <2>5
  <2>7. x[1] = first /\ x[2] = p /\ x[3] = i BY <2>5
  <2>8. x \in J BY <1>1, <2>4, <2>6, <2>7
  <2> QED BY <2>5, <2>8
<1> HIDE <1>1
<1> QED BY <1>2, <1>3, <1>5, JoinsNext

(* What comes within the span of a row of a cluster, and next, is with it.   *)
LEMMA PairMeets ==
  ASSUME HooksInv, NEW R, Rows(R), NEW span \in Nat, NEW C, C = Clusters(R, span),
         NEW i \in R, NEW j \in R, i < j, log[j].at - log[i].at <= span
  PROVE  \E c \in C : i \in c /\ Cardinality(c) >= 2
<1>1. /\ UNION C = R
      /\ \A c, d \in C : c # d => (\A x \in c, y \in d : x < y) \/ (\A x \in c, y \in d : y < x)
  BY ClustersAre
<1>2. PICK c \in C : i \in c BY <1>1
<1>3. Len(log) \in Nat /\ Indices(R, Len(log)) BY RowsAre
<1>4. IsFiniteSet(c) /\ Cardinality(c) \in Nat
  <2>1. Indices(c, Len(log)) BY <1>1, <1>3 DEF Indices
  <2> QED BY <1>3, <2>1, FiniteRows
<1>5. CASE c = {i}
  <2> DEFINE later == {x \in R : i < x}
  <2>1. later \in SUBSET Nat /\ later # {} BY <1>3 DEF Indices
  <2>2. PICK k : k = Min(later) OBVIOUS
  <2>3. k \in later /\ \A x \in later : k <= x
    <3> HIDE DEF later
    <3> QED BY <2>1, <2>2, SmallestIs
  <2>4. k \in R /\ i < k /\ k <= j /\ \A x \in R : x < k => x <= i
    <3>1. k \in R /\ i < k /\ k <= j BY <2>3
    <3>2. \A x \in R : x < k => x <= i
      <4> TAKE x \in R
      <4>1. x \in Nat /\ i \in Nat /\ k \in Nat BY <3>1, <1>3 DEF Indices
      <4>2. i < x => k <= x BY <2>3
      <4> QED BY <4>1, <4>2
    <3> QED BY <3>1, <3>2
  <2>5. log[k].at - log[i].at <= span
    <3>1. log[k].at <= log[j].at /\ log[k].at \in Int /\ log[j].at \in Int /\ log[i].at \in Int
      BY <2>4, RowsAre
    <3> QED BY <3>1
  <2>6. \A first \in c : (\A x \in c : first <= x) => log[k].at - log[first].at <= span
    BY <1>5, <2>5
  <2>7. k \in c BY <1>2, <2>4, <2>6, ClusterTakesNext
  <2>8. k # i BY <2>4, <1>3 DEF Indices
  <2> QED BY <1>5, <2>7, <2>8
<1>6. CASE c # {i}
  <2>1. Cardinality(c) # 1 BY <1>2, <1>4, <1>6, FS_Singleton
  <2>2. Cardinality(c) # 0 BY <1>2, <1>4, FS_EmptySet
  <2> QED BY <1>2, <1>4, <2>1, <2>2
<1> QED BY <1>5, <1>6

(* A burst is in two clusters at most.                                       *)
LEMMA BurstMeets ==
  ASSUME HooksInv, NEW R, Rows(R), NEW span \in Nat, NEW C, C = Clusters(R, span),
         NEW B, B \subseteq R, B # {}, Within(B, span)
  PROVE  \E c, d \in C : B \subseteq c \cup d
<1>1. /\ UNION C = R
      /\ \A c, d \in C : c # d => (\A x \in c, y \in d : x < y) \/ (\A x \in c, y \in d : y < x)
  BY ClustersAre
<1>2. Len(log) \in Nat /\ Indices(R, Len(log)) /\ R \subseteq Nat
  <2>1. Len(log) \in Nat /\ Indices(R, Len(log)) BY RowsAre
  <2> QED BY <2>1 DEF Indices
<1>3. PICK b : b = Min(B) OBVIOUS
<1>4. b \in B /\ \A x \in B : b <= x
  <2>1. B \in SUBSET Nat BY <1>2
  <2> QED BY <1>3, <2>1, SmallestIs
<1>5. PICK c \in C : b \in c BY <1>1, <1>4
<1>6. CASE B \subseteq c BY <1>6
<1>7. CASE ~(B \subseteq c)
  <2> DEFINE beyond == {x \in R : b < x /\ x \notin c}
  <2>0. \A x \in B : x \notin c => x \in beyond
    <3> TAKE x \in B
    <3> HAVE x \notin c
    <3>1. x \in R /\ b <= x /\ x # b /\ x \in Nat /\ b \in Nat BY <1>2, <1>4, <1>5
    <3> QED BY <3>1
  <2>1. beyond \in SUBSET Nat /\ beyond # {} BY <1>2, <1>7, <2>0
  <2>2. PICK e : e = Min(beyond) OBVIOUS
  <2>3. e \in beyond /\ \A x \in beyond : e <= x
    <3> HIDE DEF beyond
    <3> QED BY <2>1, <2>2, SmallestIs
  <2>4. e \in R /\ b < e /\ e \notin c /\ \A x \in B : x \notin c => e <= x
    BY <2>0, <2>3
  <2>5. PICK d \in C : e \in d BY <1>1, <2>4
  <2>6. \A x \in d : e <= x
    <3> TAKE x \in d
    <3>1. d # c BY <2>4, <2>5
    <3>2. (\A u \in c, v \in d : u < v) \/ (\A u \in c, v \in d : v < u) BY <1>1, <3>1
    <3>3. b \in Nat /\ e \in Nat /\ x \in R /\ x \in Nat BY <1>1, <1>2, <1>4, <2>4
    <3>4. b < x /\ ~(x < b) BY <1>5, <2>4, <2>5, <3>2, <3>3
    <3>5. x \notin c BY <3>2, <3>3
    <3> QED BY <2>3, <3>3, <3>4, <3>5
  <2> DEFINE missed == {x \in B : x \notin c /\ x \notin d}
  <2>7. ASSUME NEW x \in B, x \notin c, x \notin d PROVE FALSE
    <3> DEFINE gap == {y \in R : e <= y /\ y <= x /\ y \notin d}
    <3>1. gap \in SUBSET Nat /\ gap # {}
      <4>1. x \in gap BY <1>2, <2>4, <2>7
      <4> QED BY <1>2, <4>1
    <3>2. PICK y : y = Min(gap) OBVIOUS
    <3>3. y \in gap /\ \A z \in gap : y <= z
      <4> HIDE DEF gap
      <4> QED BY <3>1, <3>2, SmallestIs
    <3>4. y \in R /\ e < y /\ y <= x /\ y \notin d /\ e \in Nat /\ y \in Nat /\ x \in Nat
      <4>1. y \in R /\ e <= y /\ y <= x /\ y \notin d BY <3>3
      <4>2. e \in Nat /\ y \in Nat /\ x \in Nat BY <4>1, <1>2, <2>4
      <4>3. y # e BY <4>1, <2>5
      <4> QED BY <4>1, <4>2, <4>3
    <3>5. PICK q \in R : q < y /\ e <= q /\ \A z \in R : z < y => z <= q
      BY <1>2, <2>4, <3>4, BeforeIs
    <3>6. q \in d
      <4>1. q \in Nat BY <1>2
      <4>2. ~(y <= q) /\ q <= x BY <3>4, <3>5, <4>1
      <4>3. q \notin gap BY <3>3, <4>2
      <4> QED BY <3>5, <4>2, <4>3
    <3>7. log[y].at - log[e].at <= span
      <4>1. b <= e /\ y <= x /\ b \in R /\ x \in R BY <1>2, <1>4, <2>4, <3>4
      <4>2. log[b].at <= log[e].at /\ log[y].at <= log[x].at BY <4>1, <2>4, <3>4, RowsAre
      <4>3. log[x].at - log[b].at <= span BY <1>4, <2>7 DEF Within
      <4>4. /\ log[b].at \in Int /\ log[e].at \in Int /\ log[x].at \in Int /\ log[y].at \in Int
        BY <4>1, <2>4, <3>4, RowsAre
      <4> QED BY <4>2, <4>3, <4>4
    <3>8. \A first \in d : (\A z \in d : first <= z) => log[y].at - log[first].at <= span
      <4> TAKE first \in d
      <4> HAVE \A z \in d : first <= z
      <4>1. first <= e /\ e <= first /\ first \in Nat /\ e \in Nat BY <1>1, <1>2, <2>4, <2>5, <2>6
      <4>2. first = e BY <4>1
      <4> QED BY <3>7, <4>2
    <3>9. y \in d BY <3>4, <3>5, <3>6, <3>8, ClusterTakesNext
    <3> QED BY <3>4, <3>9
  <2>8. B \subseteq c \cup d BY <2>7
  <2> QED BY <2>8
<1> QED BY <1>6, <1>7

(* So one of the two has half of it.                                         *)
LEMMA BurstIsSeen ==
  ASSUME HooksInv, NEW R, Rows(R), NEW span \in Nat, NEW C, C = Clusters(R, span),
         NEW T \in Nat \ {0},
         NEW B, B \subseteq R, Cardinality(B) = 2 * T - 1, Within(B, span)
  PROVE  \E c \in C : Cardinality(c) >= T /\ c \cap B # {}
<1>1. Len(log) \in Nat /\ Indices(R, Len(log)) BY RowsAre
<1>2. Indices(B, Len(log)) BY <1>1 DEF Indices
<1>3. IsFiniteSet(B) BY <1>1, <1>2, FiniteRows
<1>4. B # {} BY FS_EmptySet
<1>5. PICK c \in C, d \in C : B \subseteq c \cup d BY <1>4, BurstMeets
<1>6. UNION C = R BY ClustersAre
<1>7. /\ IsFiniteSet(c) /\ IsFiniteSet(d)
      /\ Cardinality(c) \in Nat /\ Cardinality(d) \in Nat
  <2>1. Indices(c, Len(log)) /\ Indices(d, Len(log)) BY <1>1, <1>6 DEF Indices
  <2> QED BY <1>1, <2>1, FiniteRows
<1> DEFINE x == c \cap B
           y == d \cap B
<1>8. /\ IsFiniteSet(x) /\ IsFiniteSet(y) /\ x \in SUBSET c /\ y \in SUBSET d
      /\ Cardinality(x) <= Cardinality(c) /\ Cardinality(y) <= Cardinality(d)
  BY <1>7, FS_Intersection
<1>9. Cardinality(x) \in Nat /\ Cardinality(y) \in Nat /\ Cardinality(x \cap y) \in Nat
  BY <1>8, FS_CardinalityType, FS_Intersection
<1>10. B = x \cup y BY <1>5
<1> HIDE DEF x, y
<1>11. Cardinality(B) = Cardinality(x) + Cardinality(y) - Cardinality(x \cap y)
  BY <1>8, <1>10, FS_Union
<1>12. Cardinality(x) >= T \/ Cardinality(y) >= T BY <1>9, <1>11
<1>13. CASE Cardinality(x) >= T
  <2>1. x # {}
    <3>1. Cardinality({}) = 0 BY FS_EmptySet
    <3> QED BY <1>13, <3>1
  <2> QED BY <1>7, <1>8, <1>9, <1>13, <2>1 DEF x
<1>14. CASE Cardinality(y) >= T
  <2>1. y # {}
    <3>1. Cardinality({}) = 0 BY FS_EmptySet
    <3> QED BY <1>14, <3>1
  <2> QED BY <1>7, <1>8, <1>9, <1>14, <2>1 DEF y
<1> QED BY <1>12, <1>13, <1>14

LEMMA BurstsNoticedIs == HooksInv => BurstsNoticed
<1> SUFFICES ASSUME HooksInv, NEW w \in Windows \cup SinceWindows, ~AnomalyView(w).capped
             PROVE  LET found == AnomalyView(w)
                    IN  /\ Disjoint(found.duplicates) /\ Disjoint(found.denials)
                        /\ \A c \in found.duplicates :
                             /\ Within(c, DupWindow)
                             /\ \A i, j \in c : log[i].peer = log[j].peer /\ log[i].body = log[j].body
                        /\ \A c \in found.denials : Within(c, DenialWindow)
                        /\ \A i, j \in OfType(w, "message.sent") :
                             i < j /\ Within({i, j}, DupWindow) /\ log[i].peer = log[j].peer /\ log[i].body = log[j].body
                               => \E c \in found.duplicates : {i, j} \cap c # {}
                        /\ \A burst \in SUBSET OfType(w, "tool.denied") :
                             Cardinality(burst) = 2 * DenialThreshold - 1 /\ Within(burst, DenialWindow)
                               => \E c \in found.denials : c \cap burst # {}
  BY DEF BurstsNoticed
<1> DEFINE all == InWindow(w)
           sent == OfType(w, "message.sent")
           denied == OfType(w, "tool.denied")
           key(i) == <<log[i].peer, log[i].body>>
           same(k) == {i \in sent : key(i) = k}
           D == Clusters(denied, DenialWindow)
           dups == {c \in UNION {Clusters(same(k), DupWindow) : k \in {key(i) : i \in sent}} : Cardinality(c) >= 2}
           spikes == {c \in D : Cardinality(c) >= DenialThreshold}
<1>1. Rows(all) /\ Rows(sent) /\ Rows(denied) /\ \A k : Rows(same(k))
  BY DEF Rows, InWindow, OfType
<1>2. Fetched(all) = all
  <2>1. Len(log) \in Nat /\ Indices(all, Len(log)) BY <1>1, RowsAre
  <2>2. Indices(Fetched(all), Len(log)) BY <2>1 DEF Indices, Fetched
  <2>3. Cardinality(Fetched(all)) \in Nat
    <3> HIDE DEF all
    <3> QED BY <2>1, <2>2, FiniteRows
  <2>4. ~(Cardinality(Fetched(all)) >= FetchCap) BY DEF AnomalyView
  <2>5. Cardinality(Fetched(all)) < FetchCap BY <2>3, <2>4, ReportsAssumption
  <2> HIDE DEF all
  <2> QED BY <2>1, <2>5, FetchedIs
<1>3. AnomalyView(w).duplicates = dups
  <2>1. PICK S : S = {i \in Fetched(all) : log[i].type = "message.sent"} OBVIOUS
  <2>2. S = sent BY <1>2, <2>1 DEF OfType
  <2>3. AnomalyView(w).duplicates = DuplicateOutbound(S) BY <2>1 DEF AnomalyView
  <2>4. DuplicateOutbound(S) =
          {c \in UNION {Clusters({i \in S : key(i) = k}, DupWindow) : k \in {key(i) : i \in S}} : Cardinality(c) >= 2}
    BY DEF DuplicateOutbound
  <2> HIDE DEF sent
  <2> QED BY <2>2, <2>3, <2>4
<1>4. AnomalyView(w).denials = spikes
  <2>1. {i \in all : log[i].type = "tool.denied"} = denied BY DEF OfType
  <2> QED BY <1>2, <2>1 DEF AnomalyView, DenialSpikes
<1>5. DupWindow \in Nat /\ DenialWindow \in Nat /\ DenialThreshold \in Nat \ {0} BY ReportsAssumption
<1>6. ASSUME NEW k
      PROVE  /\ UNION Clusters(same(k), DupWindow) = same(k)
             /\ \A c, d \in Clusters(same(k), DupWindow) :
                  c # d => (\A i \in c, j \in d : i < j) \/ (\A i \in c, j \in d : j < i)
             /\ \A c \in Clusters(same(k), DupWindow) : Within(c, DupWindow)
  <2>1. Rows(same(k)) BY <1>1
  <2> HIDE DEF same
  <2> QED BY <1>5, <2>1, ClustersAre
<1>7. /\ UNION D = denied
      /\ \A c, d \in D : c # d => (\A i \in c, j \in d : i < j) \/ (\A i \in c, j \in d : j < i)
      /\ \A c \in D : Within(c, DenialWindow)
  <2> HIDE DEF denied
  <2> QED BY <1>1, <1>5, ClustersAre
<1>8. \A c \in dups : \E k : c \in Clusters(same(k), DupWindow) /\ c \subseteq same(k)
  <2> TAKE c \in dups
  <2>1. PICK k : c \in Clusters(same(k), DupWindow) OBVIOUS
  <2> QED BY <2>1, <1>6
<1>9. \A i \in sent : i \in Nat
  <2>1. \A i \in sent : i \in Nat
    <3> HIDE DEF sent
    <3> QED BY <1>1, RowsAre
  <2> QED BY <2>1
<1>a. \A i \in denied : i \in Nat
  <2>1. \A i \in denied : i \in Nat
    <3> HIDE DEF denied
    <3> QED BY <1>1, RowsAre
  <2> QED BY <2>1
<1>10. Disjoint(dups)
  <2> SUFFICES ASSUME NEW c \in dups, NEW d \in dups, c # d, NEW i \in c \cap d PROVE FALSE
    BY DEF Disjoint
  <2>1. PICK k : c \in Clusters(same(k), DupWindow) /\ c \subseteq same(k) BY <1>8
  <2>2. PICK m : d \in Clusters(same(m), DupWindow) /\ d \subseteq same(m) BY <1>8
  <2>3. k = m BY <2>1, <2>2
  <2>4. (\A x \in c, y \in d : x < y) \/ (\A x \in c, y \in d : y < x)
    <3>1. PICK C : C = Clusters(same(k), DupWindow) OBVIOUS
    <3>2. \A u, v \in C : u # v => (\A x \in u, y \in v : x < y) \/ (\A x \in u, y \in v : y < x)
      <4> HIDE DEF same
      <4>1. \A u, v \in Clusters(same(k), DupWindow) :
              u # v => (\A x \in u, y \in v : x < y) \/ (\A x \in u, y \in v : y < x)
        BY <1>6
      <4> QED BY <4>1, <3>1
    <3>3. c \in C /\ d \in C BY <2>1, <2>2, <2>3, <3>1
    <3> QED BY <3>2, <3>3
  <2>5. i < i BY <2>4
  <2>6. i \in Nat BY <2>1, <1>9
  <2> QED BY <2>5, <2>6
<1>11. Disjoint(spikes)
  <2> SUFFICES ASSUME NEW c \in spikes, NEW d \in spikes, c # d, NEW i \in c \cap d PROVE FALSE
    BY DEF Disjoint
  <2> HIDE DEF D
  <2>1. (\A x \in c, y \in d : x < y) \/ (\A x \in c, y \in d : y < x) BY <1>7
  <2>2. i < i BY <2>1
  <2>3. i \in Nat BY <1>7, <1>a
  <2> QED BY <2>2, <2>3
<1>12. \A c \in dups : /\ Within(c, DupWindow)
                       /\ \A i, j \in c : log[i].peer = log[j].peer /\ log[i].body = log[j].body
  <2> TAKE c \in dups
  <2>1. PICK k : c \in Clusters(same(k), DupWindow) /\ c \subseteq same(k) BY <1>8
  <2>2. Within(c, DupWindow) BY <2>1, <1>6
  <2>3. \A i, j \in c : key(i) = key(j) BY <2>1
  <2> QED BY <2>2, <2>3
<1>13. \A c \in spikes : Within(c, DenialWindow) BY <1>7
<1>14. \A i, j \in sent :
         i < j /\ Within({i, j}, DupWindow) /\ log[i].peer = log[j].peer /\ log[i].body = log[j].body
           => \E c \in dups : {i, j} \cap c # {}
  <2> TAKE i, j \in sent
  <2> HAVE i < j /\ Within({i, j}, DupWindow) /\ log[i].peer = log[j].peer /\ log[i].body = log[j].body
  <2>1. PICK k : k = key(i) OBVIOUS
  <2>2. i \in same(k) /\ j \in same(k) BY <2>1
  <2>3. log[j].at - log[i].at <= DupWindow BY DEF Within
  <2>4. Rows(same(k)) BY <1>1
  <2>5. PICK C : C = Clusters(same(k), DupWindow) OBVIOUS
  <2>6. \E c \in C : i \in c /\ Cardinality(c) >= 2
    <3> HIDE DEF same
    <3> QED BY <1>5, <2>2, <2>3, <2>4, <2>5, PairMeets
  <2>7. PICK c \in C : i \in c /\ Cardinality(c) >= 2 BY <2>6
  <2>8. C \in {Clusters(same(m), DupWindow) : m \in {key(x) : x \in sent}} BY <2>1, <2>5
  <2>9. c \in dups BY <2>7, <2>8
  <2> HIDE DEF dups
  <2> QED BY <2>7, <2>9
<1>15. \A burst \in SUBSET denied :
         Cardinality(burst) = 2 * DenialThreshold - 1 /\ Within(burst, DenialWindow)
           => \E c \in spikes : c \cap burst # {}
  <2> TAKE burst \in SUBSET denied
  <2> HAVE Cardinality(burst) = 2 * DenialThreshold - 1 /\ Within(burst, DenialWindow)
  <2>1. PICK C : C = D OBVIOUS
  <2>2. burst \subseteq denied OBVIOUS
  <2>3. \E c \in C : Cardinality(c) >= DenialThreshold /\ c \cap burst # {}
    <3> HIDE DEF denied
    <3> QED BY <1>1, <1>5, <2>1, <2>2, BurstIsSeen
  <2> HIDE DEF D
  <2> QED BY <2>1, <2>3
<1> HIDE DEF dups, spikes, sent, denied
<1>16. PICK found : found = AnomalyView(w) OBVIOUS
<1> QED BY <1>3, <1>4, <1>10, <1>11, <1>12, <1>13, <1>14, <1>15 DEF sent, denied

(* The findings of the anomaly report are true and disjoint, and no pair of  *)
(* equal sends and no burst of denials escapes, for any thresholds.          *)
THEOREM BurstsAlwaysNoticed == HooksSpec => []BurstsNoticed
BY HooksInductive, BurstsNoticedIs, PTL

-----------------------------------------------------------------------------
(* Sessions, and runs of cron jobs.                                          *)
LEMMA SessionFaithfulIs == HooksInv => SessionFaithful
<1> SUFFICES ASSUME HooksInv, NEW s
             PROVE  LET report == SessionReport(s)
                        sent   == {i \in SessionRows(s) : log[i].type = "message.sent"}
                    IN  /\ UNION report.timeline = SessionRows(s)
                        /\ \A c, d \in report.timeline :
                             c # d => (\A i \in c, j \in d : i < j) \/ (\A i \in c, j \in d : j < i)
                        /\ \A entry \in report.timeline : \A i, j \in entry : log[i].body = log[j].body
                        /\ UNION report.outbound = sent
                        /\ report.truncated = (RowsOf(s) # SessionRows(s))
                        /\ report.job = None => \A i \in RowsOf(s) : log[i].job = None
                        /\ \A i \in SessionRows(s) : log[i].body[2] = "" /\ log[i].body[3] = "" => i \in report.verified
  BY DEF SessionFaithful
<1> DEFINE all == RowsOf(s)
           shown == SessionRows(s)
           J == {x \in shown \X shown \X shown : CanCollapse(x[1], x[3])}
           T == Groups(shown, J)
           sent == {i \in shown : log[i].type = "message.sent"}
<1>1. all \subseteq DOMAIN log /\ shown \subseteq all BY DEF RowsOf, SessionRows
<1>2. Len(log) \in Nat /\ DOMAIN log = 1 .. Len(log) BY LogIsRows DEF HooksInv
<1>3. Indices(all, Len(log)) /\ Indices(shown, Len(log)) BY <1>1, <1>2 DEF Indices
<1>4. /\ UNION T = shown
      /\ \A c, d \in T : c # d => (\A i \in c, j \in d : i < j) \/ (\A i \in c, j \in d : j < i)
      /\ \A c \in T : \E first \in c : \A i \in c : i = first \/
           \E p \in c : first <= p /\ p < i /\ <<first, p, i>> \in J
  <2> HIDE DEF shown, J
  <2> QED BY <1>2, <1>3, GroupsAre
<1>5. \A c \in T : \A i, j \in c : log[i].body = log[j].body
  <2> SUFFICES ASSUME NEW c \in T PROVE \A i, j \in c : log[i].body = log[j].body
    OBVIOUS
  <2>1. PICK first \in c : \A i \in c : i = first \/
           \E p \in c : first <= p /\ p < i /\ <<first, p, i>> \in J
    <3> HIDE DEF T, J, shown
    <3> QED BY <1>4
  <2>2. \A i \in c : log[i].body = log[first].body
    <3> TAKE i \in c
    <3>1. CASE i # first
      <4>1. PICK p \in c : <<first, p, i>> \in J BY <2>1, <3>1
      <4>2. PICK x \in shown \X shown \X shown : x = <<first, p, i>> /\ CanCollapse(x[1], x[3]) BY <4>1
      <4>3. x[1] = first /\ x[3] = i BY <4>2
      <4>4. CanCollapse(first, i) BY <4>2, <4>3
      <4> QED BY <4>4 DEF CanCollapse
    <3> QED BY <3>1
  <2> QED BY <2>2
<1>6. UNION {{i \in sent : log[i].body = b} : b \in {log[i].body : i \in sent}} = sent
  <2> HIDE DEF sent
  <2> QED OBVIOUS
<1>7. (Cardinality(all) > Cardinality(shown)) = (all # shown)
  <2> HIDE DEF all, shown
  <2>1. IsFiniteSet(all) /\ Cardinality(all) \in Nat /\ IsFiniteSet(shown) /\ Cardinality(shown) \in Nat
    BY <1>2, <1>3, FiniteRows
  <2>2. shown \in SUBSET all BY <1>1
  <2>3. Cardinality(shown) <= Cardinality(all) /\ (Cardinality(all) = Cardinality(shown) => all = shown)
    BY <2>1, <2>2, FS_Subset
  <2>4. CASE all = shown BY <2>1, <2>4
  <2>5. CASE all # shown
    <3>1. Cardinality(all) > Cardinality(shown) BY <2>1, <2>3, <2>5
    <3> QED BY <2>5, <3>1
  <2> QED BY <2>4, <2>5
<1>8. SessionJob(s) = None => \A i \in all : log[i].job = None
  <2> SUFFICES ASSUME NEW i \in all, log[i].job # None PROVE SessionJob(s) # None
    OBVIOUS
  <2> DEFINE named == {k \in shown : log[k].job # None}
             starts == {k \in all : log[k].type = "cron.executed"}
  <2>1. CASE named # {}
    <3>1. named \in SUBSET Nat BY <1>1, <1>2
    <3>2. Min(named) \in named
      <4> HIDE DEF named
      <4> QED BY <2>1, <3>1, SmallestIs
    <3>3. SessionJob(s) = log[Min(named)].job BY <2>1 DEF SessionJob
    <3>4. PICK m : m = Min(named) OBVIOUS
    <3> QED BY <3>2, <3>3, <3>4
  <2>2. CASE named = {}
    <3>1. PICK c \in DOMAIN log : IsStart(c) /\ log[c].session = log[i].session
      BY <1>1 DEF HooksInv, JobsKnown
    <3>2. c \in starts BY <3>1 DEF RowsOf, IsStart
    <3>3. starts \in SUBSET Nat BY <1>1, <1>2
    <3>4. Min(starts) \in starts
      <4> HIDE DEF starts
      <4> QED BY <3>2, <3>3, SmallestIs
    <3>5. SessionJob(s) = log[Min(starts)].job BY <2>2, <3>2 DEF SessionJob
    <3>6. PICK m : m = Min(starts) OBVIOUS
    <3>7. m \in DOMAIN log /\ IsStart(m) BY <3>4, <3>6, <1>1 DEF IsStart
    <3> QED BY <3>5, <3>6, <3>7 DEF HooksInv, StartsKnown
  <2> QED BY <2>1, <2>2
<1>9. \A i \in shown : log[i].body[2] = "" /\ log[i].body[3] = "" => i \in ProofsVerified(s)
  <2> TAKE i \in shown
  <2> HAVE log[i].body[2] = "" /\ log[i].body[3] = ""
  <2>1. IsRow(log[i]) BY <1>1 DEF HooksInv, HooksTypeOK
  <2>2. log[i].body = <<log[i].body[1], "", "">> BY <2>1 DEF IsRow
  <2>3. PICK b : b = <<log[i].body[1], "", "">> OBVIOUS
  <2>4. Preview(i) = [log[i] EXCEPT !.body = b] /\ log[i].body = b BY <2>2, <2>3 DEF Preview
  <2>5. Preview(i) = log[i] BY <2>1, <2>4 DEF IsRow, Fields
  <2> QED BY <2>5 DEF ProofsVerified
<1>10. PICK report : report = SessionReport(s) OBVIOUS
<1>11. /\ report.timeline = T /\ report.outbound = {{i \in sent : log[i].body = b} : b \in {log[i].body : i \in sent}}
       /\ report.truncated = (Cardinality(all) > Cardinality(shown))
       /\ report.job = SessionJob(s) /\ report.verified = ProofsVerified(s)
  BY <1>10 DEF SessionReport, Timeline, OutboundMessages
<1>12. UNION report.timeline = shown
  <2> HIDE DEF T, shown
  <2> QED BY <1>4, <1>11
<1>13. \A c, d \in report.timeline :
         c # d => (\A i \in c, j \in d : i < j) \/ (\A i \in c, j \in d : j < i)
  <2> HIDE DEF T
  <2> QED BY <1>4, <1>11
<1>14. \A entry \in report.timeline : \A i, j \in entry : log[i].body = log[j].body
  <2> HIDE DEF T
  <2> QED BY <1>5, <1>11
<1>15. UNION report.outbound = sent
  <2> HIDE DEF sent
  <2> QED BY <1>6, <1>11
<1>16. report.truncated = (all # shown)
  <2> HIDE DEF all, shown
  <2> QED BY <1>7, <1>11
<1>17. report.job = None => \A i \in all : log[i].job = None
  <2> HIDE DEF all
  <2> QED BY <1>8, <1>11
<1>18. \A i \in shown : log[i].body[2] = "" /\ log[i].body[3] = "" => i \in report.verified
  <2> HIDE DEF shown
  <2> QED BY <1>9, <1>11
<1> HIDE DEF T
<1> QED BY <1>10, <1>12, <1>13, <1>14, <1>15, <1>16, <1>17, <1>18

(* The report on a session leaves nothing out and adds nothing, however      *)
(* many rows it has and in whatever order sessions take turns.               *)
THEOREM SessionAlwaysFaithful == HooksSpec => []SessionFaithful
BY HooksInductive, SessionFaithfulIs, PTL

(* Of a cron run only its own ends are found, and all it did lies between.   *)
LEMMA EndsAre ==
  ASSUME HooksInv, NEW c \in DOMAIN log, IsStart(c), NEW r, r = log[c].by
  PROVE  /\ r \in Runs
         /\ \A e \in AgentEnds(c) : EndOf(r, e)
         /\ RunId[r] # None /\ Context[r].id # None /\ runs[r].phase \in {"ok", "failed"}
              => AgentEnds(c) # {}
         /\ AgentEnds(c) # {} => RunId[r] # None /\ Context[r].id # None
<1>1. r \in Runs /\ log[c].run = RunId[r] /\ log[c].session = Context[r].id
  BY DEF HooksInv, StartsKnown
<1>2. \A e \in AgentEnds(c) : EndOf(r, e) /\ RunId[r] # None /\ Context[r].id # None
  <2> TAKE e \in AgentEnds(c)
  <2>1. /\ e \in DOMAIN log /\ log[e].type = "agent.end"
        /\ log[c].session # None /\ log[c].run # None /\ log[e].run = log[c].run
    BY DEF AgentEnds
  <2>2. PICK s \in Runs : EndOf(s, e) BY <2>1 DEF HooksInv, EndsKnown
  <2>3. RunId[s] = RunId[r] /\ RunId[r] # None BY <1>1, <2>1, <2>2 DEF EndOf
  <2>4. s = r BY <1>1, <2>3, HooksAssumption
  <2> QED BY <1>1, <2>1, <2>2, <2>4
<1>3. RunId[r] # None /\ Context[r].id # None /\ runs[r].phase \in {"ok", "failed"} => AgentEnds(c) # {}
  <2> HAVE RunId[r] # None /\ Context[r].id # None /\ runs[r].phase \in {"ok", "failed"}
  <2>1. PICK e \in DOMAIN log : EndOf(r, e) BY <1>1 DEF HooksInv, EndsKnown
  <2>2. c < e BY <2>1 DEF EndOf
  <2>3. c \in Nat /\ e \in Nat BY LogIsRows DEF HooksInv
  <2>4. e \in AgentEnds(c) BY <1>1, <2>1, <2>2, <2>3 DEF AgentEnds, EndOf
  <2> QED BY <2>4
<1> QED BY <1>1, <1>2, <1>3

(* Between start and end there is what the run did, if it was alone. *)
LEMMA CountIs ==
  ASSUME HooksInv, NEW c \in DOMAIN log, IsStart(c), NEW r, r = log[c].by,
         NEW e \in AgentEnds(c), Alone(c, r),
         NEW type \in {"tool.invoked", "prompt.response", "message.sent"},
         type = "message.sent" => Context[r].conversation = Context[r].id
  PROVE  CountDuring(c, e, type) = Cardinality(Did(r, type))
<1> DEFINE during == {i \in DOMAIN log : /\ log[i].type = type /\ log[i].session = log[c].session
                                         /\ log[c].at <= log[i].at /\ log[i].at <= log[e].at}
<1>1. r \in Runs /\ EndOf(r, e) BY EndsAre
<1>2. log[c].session = Context[r].id BY DEF HooksInv, StartsKnown
<1>3. \A i \in during : i \in Did(r, type)
  <2> TAKE i \in during
  <2>1. log[i].by = r BY DEF Alone
  <2> QED BY <2>1 DEF Did
<1>4. \A i \in Did(r, type) : i \in during
  <2> TAKE i \in Did(r, type)
  <2>1. i \in DOMAIN log /\ log[i].type = type /\ log[i].by = r BY DEF Did
  <2>2. /\ c <= i /\ log[i].session = log[c].session
    BY <1>1, <1>2, <2>1 DEF HooksInv, WorkKnown
  <2>3. i < e /\ e \in DOMAIN log BY <1>1, <2>1 DEF EndOf, AgentEnds
  <2>4. i <= e
    <3>1. i \in Nat /\ e \in Nat BY <2>1, <2>3, LogIsRows DEF HooksInv
    <3> QED BY <2>3, <3>1
  <2>5. log[c].at <= log[i].at /\ log[i].at <= log[e].at
    BY <2>1, <2>2, <2>3, <2>4 DEF HooksInv, InTime
  <2> QED BY <2>1, <2>2, <2>5
<1>5. during = Did(r, type) BY <1>3, <1>4 DEF Did
<1> QED BY <1>5 DEF CountDuring

LEMMA CronRowsTrueIs == HooksInv => CronRowsTrue
<1> SUFFICES ASSUME HooksInv, NEW job, NEW row \in CronRollup(job).rows
             PROVE  LET r == log[row.execution].by
                    IN  /\ row.status = Outcome(r)
                        /\ row.status # "incomplete" /\ Alone(row.execution, r) =>
                             /\ row.tools = runs[r].tools /\ row.llm = runs[r].llm
                             /\ Context[r].conversation = Context[r].id => row.sent = runs[r].sent
  BY DEF CronRowsTrue
<1>1. PICK c \in DOMAIN log : IsStart(c) /\ row = CronRow(c)
  BY DEF CronRollup, Executions, IsStart
<1>2. row.execution = c BY <1>1 DEF CronRow
<1>3. PICK r : r = log[c].by OBVIOUS
<1>4. /\ r \in Runs
      /\ \A e \in AgentEnds(c) : EndOf(r, e)
      /\ RunId[r] # None /\ Context[r].id # None /\ runs[r].phase \in {"ok", "failed"}
           => AgentEnds(c) # {}
      /\ AgentEnds(c) # {} => RunId[r] # None /\ Context[r].id # None
  BY <1>1, <1>3, EndsAre
<1>5. CASE AgentEnds(c) = {}
  <2>1. row.status = "incomplete" BY <1>1, <1>5 DEF CronRow
  <2>2. Outcome(r) = "incomplete" BY <1>4, <1>5 DEF Outcome
  <2> QED BY <1>2, <1>3, <2>1, <2>2
<1>6. CASE AgentEnds(c) # {}
  <2>1. PICK e : e = Min(AgentEnds(c)) OBVIOUS
  <2>2. e \in AgentEnds(c)
    <3>1. AgentEnds(c) \in SUBSET Nat BY LogIsRows DEF AgentEnds, HooksInv
    <3> QED BY <1>6, <2>1, <3>1, SmallestIs
  <2>3. row = [execution |-> c,
               status    |-> IF log[e].ok = TRUE THEN "ok" ELSE "failed",
               tools     |-> CountDuring(c, e, "tool.invoked"),
               llm       |-> CountDuring(c, e, "prompt.response"),
               sent      |-> CountDuring(c, e, "message.sent")]
    BY <1>1, <1>6, <2>1 DEF CronRow
  <2>4. EndOf(r, e) BY <1>4, <2>2
  <2>5. row.status = Outcome(r)
    <3>1. /\ runs[r].phase \in {"ok", "failed"} /\ log[e].ok = (runs[r].phase = "ok")
      BY <2>4 DEF EndOf
    <3>2. Outcome(r) = runs[r].phase BY <1>4, <1>6, <3>1 DEF Outcome
    <3>3. CASE runs[r].phase = "ok" BY <2>3, <3>1, <3>2, <3>3
    <3>4. CASE runs[r].phase = "failed" BY <2>3, <3>1, <3>2, <3>4
    <3> QED BY <3>1, <3>3, <3>4
  <2>6. ASSUME Alone(c, r)
        PROVE  /\ row.tools = runs[r].tools /\ row.llm = runs[r].llm
               /\ Context[r].conversation = Context[r].id => row.sent = runs[r].sent
    <3>1. /\ CountDuring(c, e, "tool.invoked") = Cardinality(Did(r, "tool.invoked"))
          /\ CountDuring(c, e, "prompt.response") = Cardinality(Did(r, "prompt.response"))
      BY <1>1, <1>3, <2>2, <2>6, CountIs
    <3>2. Context[r].conversation = Context[r].id =>
            CountDuring(c, e, "message.sent") = Cardinality(Did(r, "message.sent"))
      BY <1>1, <1>3, <2>2, <2>6, CountIs
    <3>3. /\ row.tools = CountDuring(c, e, "tool.invoked") /\ row.llm = CountDuring(c, e, "prompt.response")
          /\ row.sent = CountDuring(c, e, "message.sent")
      BY <2>3
    <3> QED BY <1>4, <3>1, <3>2, <3>3 DEF HooksInv, Counted
  <2> QED BY <1>2, <1>3, <2>5, <2>6
<1> QED BY <1>5, <1>6

(* A cron rollup's row has the status of its run, and counts what it did if  *)
(* nothing else went on in its session.                                      *)
THEOREM CronRowsAlwaysTrue == HooksSpec => []CronRowsTrue
BY HooksInductive, CronRowsTrueIs, PTL

-----------------------------------------------------------------------------
(* What a report says of a time that is over.                                *)

(* A step leaves the log as it is, or adds rows of this moment to it. *)
LEMMA StepAppends ==
  ASSUME HooksInv, [HooksNext]_hookVars, log' # log
  PROVE  Longer
<1>1. CASE \E r \in Runs : BeforeModelResolve(r)
  BY <1>1, BeforeModelResolveKeeps
<1>2. CASE \E r \in Runs, success \in BOOLEAN : AgentEnd(r, success)
  BY <1>2, AgentEndKeeps
<1>3. CASE \E r \in Runs, tool \in Tools, risky \in BOOLEAN : BeforeToolCall(r, tool, risky)
  BY <1>3, BeforeToolCallKeeps
<1>4. CASE \E r \in Runs, tool \in Tools, outcome \in {"denied", "done", "error"} : AfterToolCall(r, tool, outcome)
  BY <1>4, AfterToolCallKeeps
<1>5. CASE \E r \in Runs, model \in Models, body \in Bodies \cup {NoBody} : LlmOutput(r, model, body)
  BY <1>5, LlmOutputKeeps
<1>6. CASE \E r \in Runs, model \in Models : ModelUsage(r, model)
  BY <1>6, ModelUsageKeeps
<1>7. CASE \E r \in Runs, peer \in Peers, body \in Bodies : MessageSending(r, peer, body)
  BY <1>7, MessageSendingKeeps
<1>8. CASE \E r \in Runs, peer \in Peers, body \in Bodies : MessageSent(r, peer, body)
  BY <1>8, MessageSentKeeps
<1>9. CASE \E scan \in {"ok", "failed", None} : BeforeInstall(scan)
  BY <1>9, BeforeInstallKeeps
<1>10. CASE \E r \in Runs, hook \in DOMAIN PromptHooks : PlainHook(r, PromptHooks[hook])
  BY <1>10, PlainTypes, PlainHookKeeps
<1>11. CASE \E r \in Runs, hook \in DOMAIN MessageHooks : PlainHook(r, MessageHooks[hook])
  BY <1>11, PlainTypes, PlainHookKeeps
<1>12. CASE \E r \in Runs, hook \in DOMAIN SessionHooks : PlainHook(r, SessionHooks[hook])
  BY <1>12, PlainTypes, PlainHookKeeps
<1>13. CASE \E r \in Runs, hook \in DOMAIN SubagentHooks : PlainHook(r, SubagentHooks[hook])
  BY <1>13, PlainTypes, PlainHookKeeps
<1>14. CASE \E r \in Runs, hook \in DOMAIN GatewayHooks : PlainHook(r, GatewayHooks[hook])
  BY <1>14, PlainTypes, PlainHookKeeps
<1>15. log' = log => ~ (log' # log) OBVIOUS
<1>16. GatewayCrash => log' = log BY DEF GatewayCrash
<1>17. Tick => log' = log BY DEF Tick
<1>18. UNCHANGED hookVars => log' = log BY DEF hookVars
<1> QED
  BY <1>1, <1>2, <1>3, <1>4, <1>5, <1>6, <1>7, <1>8, <1>9, <1>10, <1>11, <1>12, <1>13, <1>14,
     <1>16, <1>17, <1>18
  DEF HooksNext

-----------------------------------------------------------------------------
(* The calendar.                                                             *)
Known(d) == d \in DOMAIN Offset

(* A midnight, whatever the zone, is near the one of UTC. *)
LEMMA MidnightIs ==
  ASSUME NEW tz \in Zones, NEW d, Known(d)
  PROVE  /\ d \in Int /\ Midnight(d, tz) \in Int
         /\ 24 * d - 14 <= Midnight(d, tz) /\ Midnight(d, tz) <= 24 * d + 12
         /\ Known(d + 1) => Midnight(d, tz) < Midnight(d + 1, tz)
<1>1. d \in Int /\ Offset[d] \in -12 .. 14 BY OffsetAssumption DEF Known
<1>2. Known(d + 1) => Offset[d + 1] \in -12 .. 14 /\ Offset[d + 1] - Offset[d] < 24
  BY OffsetAssumption DEF Known
<1>3. CASE tz = "utc" BY <1>1, <1>3 DEF Midnight
<1>4. CASE tz # "utc" BY <1>1, <1>2, <1>4 DEF Midnight
<1> QED BY <1>3, <1>4

LEMMA MidnightsInOrder ==
  ASSUME NEW tz \in Zones, NEW d, Known(d), NEW e, Known(e), d < e
  PROVE  Midnight(d, tz) < Midnight(e, tz)
<1>1. d \in Int /\ e \in Int BY MidnightIs
<1>2. CASE e = d + 1 BY <1>2, MidnightIs
<1>3. CASE e # d + 1
  <2>1. PICK m : m = Midnight(d, tz) OBVIOUS
  <2>2. PICK n : n = Midnight(e, tz) OBVIOUS
  <2>3. m \in Int /\ m <= 24 * d + 12 /\ n \in Int /\ 24 * e - 14 <= n BY <2>1, <2>2, MidnightIs
  <2>4. e >= d + 2 BY <1>1, <1>3
  <2>5. m < n BY <1>1, <2>3, <2>4
  <2> QED BY <2>1, <2>2, <2>5
<1> QED BY <1>2, <1>3

(* The days around a moment. *)
Around(t) == \A d \in t \div 24 - 1 .. t \div 24 + 2 : Known(d)

InDay(t, d, tz) == Midnight(d, tz) <= t /\ t < Midnight(d + 1, tz)

(* Each moment is in a day. *)
LEMMA DayIs ==
  ASSUME NEW tz \in Zones, NEW t \in Int, Around(t)
  PROVE  /\ DayOf(t, tz) \in t \div 24 - 1 .. t \div 24 + 1
         /\ InDay(t, DayOf(t, tz), tz)
<1>1. PICK q \in Int : q = t \div 24 OBVIOUS
<1>2. 24 * q <= t /\ t < 24 * q + 24 BY <1>1
<1>3. Known(q - 1) /\ Known(q) /\ Known(q + 1) /\ Known(q + 2) BY <1>1 DEF Around
<1>4. Midnight(q - 1, tz) <= t /\ t < Midnight(q + 2, tz)
  <2>1. PICK m : m = Midnight(q - 1, tz) OBVIOUS
  <2>2. PICK n : n = Midnight(q + 2, tz) OBVIOUS
  <2>3. m \in Int /\ m <= 24 * (q - 1) + 12 BY <2>1, <1>3, MidnightIs
  <2>4. n \in Int /\ 24 * (q + 2) - 14 <= n BY <2>2, <1>3, MidnightIs
  <2>5. m <= t /\ t < n BY <1>1, <1>2, <2>3, <2>4
  <2> QED BY <2>1, <2>2, <2>5
<1>5. \E x \in q - 1 .. q + 1 : Midnight(x, tz) <= t /\ t < Midnight(x + 1, tz)
  <2>1. Midnight(q, tz) \in Int /\ Midnight(q + 1, tz) \in Int BY <1>3, MidnightIs
  <2>2. q - 1 \in q - 1 .. q + 1 /\ q \in q - 1 .. q + 1 /\ q + 1 \in q - 1 .. q + 1 /\ q - 1 + 1 = q
        /\ q + 1 + 1 = q + 2
    OBVIOUS
  <2>3. CASE t < Midnight(q, tz) BY <1>4, <2>2, <2>3
  <2>4. CASE ~(t < Midnight(q, tz)) /\ t < Midnight(q + 1, tz)
    <3>1. Midnight(q, tz) <= t BY <2>1, <2>4
    <3> QED BY <3>1, <2>2, <2>4
  <2>5. CASE ~(t < Midnight(q + 1, tz))
    <3>1. Midnight(q + 1, tz) <= t BY <2>1, <2>5
    <3> QED BY <3>1, <2>2, <1>4
  <2> QED BY <2>3, <2>4, <2>5
<1>6. DayOf(t, tz) \in q - 1 .. q + 1 /\ InDay(t, DayOf(t, tz), tz)
  <2>1. DayOf(t, tz) = CHOOSE x \in q - 1 .. q + 1 : Midnight(x, tz) <= t /\ t < Midnight(x + 1, tz)
    BY <1>1 DEF DayOf
  <2> QED BY <2>1, <1>5 DEF InDay
<1> QED BY <1>1, <1>6

(* A moment is in one day. *)
LEMMA OneDay ==
  ASSUME NEW tz \in Zones, NEW t \in Int,
         NEW d, Known(d), Known(d + 1), NEW e, Known(e), Known(e + 1),
         InDay(t, d, tz), InDay(t, e, tz)
  PROVE  d = e
<1>1. \A x, y : Known(x) /\ Known(x + 1) /\ Known(y) /\ InDay(t, x, tz) /\ InDay(t, y, tz) => ~(x < y)
  <2> SUFFICES ASSUME NEW x, NEW y, Known(x), Known(x + 1), Known(y),
                      InDay(t, x, tz), InDay(t, y, tz), x < y
               PROVE  FALSE
    OBVIOUS
  <2>1. x \in Int /\ y \in Int /\ Midnight(x + 1, tz) \in Int /\ Midnight(y, tz) \in Int BY MidnightIs
  <2>2. Midnight(x + 1, tz) <= Midnight(y, tz)
    <3>1. CASE y = x + 1 BY <2>1, <3>1
    <3>2. CASE x + 1 < y BY <2>1, <3>2, MidnightsInOrder
    <3> QED BY <2>1, <3>1, <3>2
  <2> QED BY <2>1, <2>2 DEF InDay
<1>2. d \in Int /\ e \in Int BY MidnightIs
<1>3. ~(d < e) BY <1>1
<1>4. ~(e < d) BY <1>1
<1> QED BY <1>2, <1>3, <1>4

(* Midnight begins its own day. *)
LEMMA DayOfMidnight ==
  ASSUME NEW tz \in Zones, NEW d \in Int, \A e \in d - 2 .. d + 2 : Known(e)
  PROVE  DayOf(Midnight(d, tz), tz) = d
<1>1. Known(d) /\ Known(d + 1) BY d \in Int
<1>2. PICK t : t = Midnight(d, tz) OBVIOUS
<1>3. t \in Int /\ 24 * d - 14 <= t /\ t <= 24 * d + 12 /\ t < Midnight(d + 1, tz) BY <1>1, <1>2, MidnightIs
<1>4. t \div 24 \in d - 1 .. d BY <1>3
<1>5. Around(t) BY <1>4 DEF Around
<1>6. DayOf(t, tz) \in d - 2 .. d + 1 /\ InDay(t, DayOf(t, tz), tz)
  <2>1. DayOf(t, tz) \in t \div 24 - 1 .. t \div 24 + 1 /\ InDay(t, DayOf(t, tz), tz) BY <1>3, <1>5, DayIs
  <2> QED BY <1>4, <2>1
<1>7. InDay(t, d, tz) BY <1>2, <1>3 DEF InDay
<1>8. Known(DayOf(t, tz)) /\ Known(DayOf(t, tz) + 1) BY <1>6
<1>9. DayOf(t, tz) = d BY <1>1, <1>3, <1>6, <1>7, <1>8, OneDay
<1> QED BY <1>2, <1>9

LEMMA YearStartIs ==
  ASSUME NEW n \in Nat
  PROVE  YearStart(1970 + n) = 365 * n + (n + 1) \div 4
<1>1. 1970 + n - 1970 = n /\ 1970 + n - 1969 = n + 1 OBVIOUS
<1> QED BY <1>1 DEF YearStart

(* Each day is in a year. *)
LEMMA YearIs ==
  ASSUME NEW d \in Nat
  PROVE  \E s \in Int : YearStart(YearOf(d)) = s /\ d - s \in 0 .. 365
<1>1. PICK a \in Nat : a = d \div 366 OBVIOUS
<1>2. PICK b \in Nat : b = d \div 365 OBVIOUS
<1>3. 366 * a <= d /\ d < 365 * (b + 1) /\ a <= b
  <2>1. 366 * a <= d /\ d < 365 * (b + 1) BY <1>1, <1>2
  <2> QED BY <2>1
<1> DEFINE Y == {n \in a .. b : YearStart(1970 + n) <= d}
<1>4. a \in Y
  <2>1. (a + 1) \div 4 <= a OBVIOUS
  <2>2. YearStart(1970 + a) = 365 * a + (a + 1) \div 4 BY YearStartIs
  <2>3. YearStart(1970 + a) <= d BY <1>3, <2>1, <2>2
  <2> QED BY <1>3, <2>3
<1>5. PICK n : n = Max(Y) OBVIOUS
<1>6. n \in Y /\ \A x \in Y : x <= n
  <2>1. \A x \in Y : x \in 0 .. b OBVIOUS
  <2>2. Y \in SUBSET (0 .. b) /\ Y # {} BY <1>4, <2>1
  <2> HIDE DEF Y
  <2> QED BY <1>5, <2>2, LargestIs
<1>7. n \in Nat /\ n <= b /\ a <= n BY <1>6
<1>8. d < YearStart(1970 + n + 1)
  <2>1. 1970 + n + 1 = 1970 + (n + 1) /\ n + 1 \in Nat BY <1>7
  <2>2. YearStart(1970 + (n + 1)) = 365 * (n + 1) + (n + 2) \div 4
    <3>1. n + 1 + 1 = n + 2 BY <1>7
    <3> QED BY <2>1, <3>1, YearStartIs
  <2>3. CASE n = b
    <3>1. (b + 2) \div 4 >= 0 OBVIOUS
    <3> QED BY <1>3, <2>1, <2>2, <2>3, <3>1
  <2>4. CASE n # b
    <3>1. n + 1 \in a .. b /\ ~(n + 1 <= n) BY <1>7, <2>4
    <3>2. ~(YearStart(1970 + (n + 1)) <= d) BY <1>6, <3>1
    <3>3. YearStart(1970 + (n + 1)) \in Int BY <2>2, <1>7
    <3> QED BY <2>1, <3>2, <3>3
  <2> QED BY <2>3, <2>4
<1>9. \E y \in 1970 + a .. 1970 + b : YearStart(y) <= d /\ d < YearStart(y + 1)
  <2>1. 1970 + n \in 1970 + a .. 1970 + b BY <1>7
  <2> QED BY <1>6, <1>8, <2>1
<1>10. /\ YearOf(d) \in 1970 + a .. 1970 + b
       /\ YearStart(YearOf(d)) <= d /\ d < YearStart(YearOf(d) + 1)
  <2>1. YearOf(d) = CHOOSE y \in 1970 + a .. 1970 + b : YearStart(y) <= d /\ d < YearStart(y + 1)
    BY <1>1, <1>2 DEF YearOf
  <2> HIDE DEF Y
  <2> QED BY <1>9, <2>1
<1>11. PICK m \in Nat : YearOf(d) = 1970 + m
  <2>1. YearOf(d) - 1970 \in Nat /\ YearOf(d) = 1970 + (YearOf(d) - 1970) BY <1>10, <1>1, <1>2
  <2> QED BY <2>1
<1>12. YearStart(1970 + m) = 365 * m + (m + 1) \div 4
       /\ YearStart(1970 + m + 1) = 365 * (m + 1) + (m + 2) \div 4
  <2>1. 1970 + m + 1 = 1970 + (m + 1) /\ m + 1 \in Nat /\ m + 1 + 1 = m + 2 OBVIOUS
  <2> QED BY <2>1, YearStartIs
<1>13. (m + 2) \div 4 <= (m + 1) \div 4 + 1 OBVIOUS
<1> HIDE DEF Y
<1>14. PICK s : s = YearStart(1970 + m) OBVIOUS
<1>15. s \in Int /\ s <= d /\ d < s + 366 BY <1>10, <1>11, <1>12, <1>13, <1>14
<1>16. d - s \in 0 .. 365 BY <1>15
<1> QED BY <1>11, <1>14, <1>15, <1>16

(* The Thursday of a week, and the days from there to January 1st.           *)
LEMMA InstantIs ==
  ASSUME NEW t \in Instants
  PROVE  /\ t \in Int /\ t \div 24 \in Int /\ t \div 24 >= 7 /\ Around(t)
         /\ \A d \in t \div 24 - 400 - Lookback .. t \div 24 + 30 : Known(d)
         /\ \A d \in t \div 24 - 400 .. t \div 24 + 30 : Known(d)
<1>1. t \in Int /\ t >= 168 /\ t \div 24 - 400 - Lookback .. t \div 24 + 30 \subseteq DOMAIN Offset
  BY HooksAssumption, ReportsAssumption
<1>2. t \div 24 \in Int /\ t \div 24 >= 7 BY <1>1
<1>3. PICK q : q = t \div 24 OBVIOUS
<1>4. Lookback \in Nat BY ReportsAssumption
<1>5. \A d \in q - 400 - Lookback .. q + 30 : Known(d) BY <1>1, <1>3 DEF Known
<1>6. \A d \in q - 400 .. q + 30 : d \in q - 400 - Lookback .. q + 30 BY <1>2, <1>3, <1>4
<1>7. \A d \in q - 1 .. q + 2 : d \in q - 400 .. q + 30 BY <1>2, <1>3
<1> QED BY <1>1, <1>2, <1>3, <1>5, <1>6, <1>7 DEF Around

(* The Thursday of a week is in it. *)
LEMMA ThursdayOf ==
  ASSUME NEW tz, NEW t, DayOf(t, tz) \in Int
  PROVE  /\ Thursday(t, tz) \in Int /\ Thursday(t, tz) % 7 = 0
         /\ DayOf(t, tz) - 3 <= Thursday(t, tz) /\ Thursday(t, tz) <= DayOf(t, tz) + 3
<1>1. PICK d \in Int : d = DayOf(t, tz) OBVIOUS
<1>2. Thursday(t, tz) = d + 4 - (((d + 3) % 7) + 1) BY <1>1 DEF Thursday, Weekday
<1>3. PICK r : r = (d + 3) % 7 OBVIOUS
<1>4. PICK k : k = (d + 3) \div 7 OBVIOUS
<1>5. k \in Int /\ r \in 0 .. 6 /\ d + 3 = 7 * k + r BY <1>3, <1>4
<1>6. Thursday(t, tz) = 7 * k BY <1>2, <1>3, <1>5
<1>7. (7 * k) % 7 = 0 BY <1>5
<1> QED BY <1>1, <1>5, <1>6, <1>7

(* Weeks of a year counted from the one of January 4th. *)
LEMMA WeekFromIs ==
  ASSUME NEW thursday \in Int, thursday % 7 = 0, NEW n \in Nat, NEW week \in Int,
         NEW y, YearStart(y) = thursday - n
  PROVE  WeekFrom(y, week) = thursday - 3 + 7 * (week - 1 - n \div 7)
<1>1. PICK s \in Int : s = thursday - n OBVIOUS
<1>2. PICK k : k = n \div 7 OBVIOUS
<1>3. PICK m : m = n % 7 OBVIOUS
<1>4. k \in Int /\ m \in 0 .. 6 /\ n = 7 * k + m BY <1>2, <1>3
<1>5. PICK p : p = thursday \div 7 OBVIOUS
<1>6. p \in Int /\ thursday = 7 * p BY <1>5
<1>7. s + 6 = 7 * (p - k) + (6 - m) BY <1>1, <1>4, <1>6
<1>8. (s + 6) % 7 = 6 - m
  <2>1. PICK u : u = p - k OBVIOUS
  <2>2. PICK v : v = 6 - m OBVIOUS
  <2>3. u \in Int /\ v \in 0 .. 6 /\ s + 6 = 7 * u + v BY <1>4, <1>6, <1>7, <2>1, <2>2
  <2>4. (7 * u + v) % 7 = v BY <2>3
  <2> QED BY <2>2, <2>3, <2>4
<1>9. Week1Monday(y) = s + m - 3
  <2>1. s + 3 + 3 = s + 6 OBVIOUS
  <2>2. Week1Monday(y) = s + 3 - (((s + 3 + 3) % 7) + 1 - 1) BY <1>1 DEF Week1Monday, Weekday
  <2>3. Week1Monday(y) = s + 3 - (6 - m + 1 - 1) BY <1>8, <2>1, <2>2
  <2>4. s + 3 - (6 - m + 1 - 1) = s + m - 3 BY <1>4
  <2> QED BY <2>3, <2>4
<1>10. PICK u \in Int : u = s + m - 3 BY <1>4
<1>11. u = thursday - 7 * k - 3 BY <1>1, <1>4, <1>10
<1>12. WeekFrom(y, week) = u + (week - 1) * 7 BY <1>9, <1>10 DEF WeekFrom
<1>13. u + (week - 1) * 7 = thursday - 3 + 7 * (week - 1 - k) BY <1>4, <1>11
<1> QED BY <1>2, <1>12, <1>13

(* The week of a moment: its Thursday, and the year that has it. *)
LEMMA WeekIs ==
  ASSUME NEW tz \in Zones, NEW t \in Instants
  PROVE  LET d == DayOf(t, tz)
             thursday == Thursday(t, tz)
             start == YearStart(YearOf(thursday))
         IN  /\ d \in t \div 24 - 1 .. t \div 24 + 1 /\ InDay(t, d, tz)
             /\ thursday \in Nat /\ thursday % 7 = 0
             /\ d - 3 <= thursday /\ thursday <= d + 3
             /\ start \in Int /\ Known(start) /\ Known(thursday)
             /\ thursday - start \in 0 .. 365
<1>1. t \in Int /\ t \div 24 \in Int /\ t \div 24 >= 7 /\ Around(t) BY InstantIs
<1>2. \A d \in t \div 24 - 400 .. t \div 24 + 30 : Known(d) BY InstantIs
<1>3. DayOf(t, tz) \in t \div 24 - 1 .. t \div 24 + 1 /\ InDay(t, DayOf(t, tz), tz) BY <1>1, DayIs
<1>4. PICK q : q = t \div 24 OBVIOUS
<1>5. PICK d : d = DayOf(t, tz) OBVIOUS
<1>6. PICK thursday : thursday = Thursday(t, tz) OBVIOUS
<1>7. q \in Int /\ q >= 7 /\ d \in q - 1 .. q + 1 BY <1>1, <1>3, <1>4, <1>5
<1>8. thursday \in Int /\ thursday % 7 = 0 /\ d - 3 <= thursday /\ thursday <= d + 3
  BY <1>5, <1>6, <1>7, ThursdayOf
<1>9. thursday \in Nat BY <1>7, <1>8
<1>10. PICK start \in Int : YearStart(YearOf(thursday)) = start /\ thursday - start \in 0 .. 365
  BY <1>9, YearIs
<1>13. Known(start) /\ Known(thursday)
  <2>1. \A e \in q - 400 .. q + 30 : Known(e) BY <1>2, <1>4
  <2>2. start \in q - 400 .. q + 30 /\ thursday \in q - 400 .. q + 30 BY <1>7, <1>8, <1>10
  <2> QED BY <2>1, <2>2
<1> QED BY <1>3, <1>5, <1>6, <1>8, <1>9, <1>10, <1>13

(* Its number: one clock more or less in the year is not a day.              *)
LEMMA IsoWeekBounds ==
  ASSUME NEW tz \in Zones, NEW t \in Int, NEW thursday \in Int, thursday = Thursday(t, tz),
         NEW start \in Int, start = YearStart(YearOf(thursday)), Known(start), Known(thursday),
         NEW n \in Nat, n = thursday - start
  PROVE  /\ IsoWeek(t, tz) \in n \div 7 .. n \div 7 + 2
         /\ (tz = "utc" \/ Numbered(thursday, start)) => IsoWeek(t, tz) = n \div 7 + 1
<1> DEFINE a == IF tz = "utc" THEN 0 ELSE Offset[thursday]
           b == IF tz = "utc" THEN 0 ELSE Offset[start]
<1>2. a \in -12 .. 14 /\ b \in -12 .. 14 BY OffsetAssumption DEF Known
<1>3. Midnight(thursday, tz) = 24 * thursday - a /\ Midnight(start, tz) = 24 * start - b BY DEF Midnight
<1>4. IsoWeek(t, tz) = (Midnight(thursday, tz) - Midnight(start, tz) + 24 + 167) \div 168 BY DEF IsoWeek
<1>31. tz = "utc" => a = 0 /\ b = 0 OBVIOUS
<1>32. tz # "utc" => a = Offset[thursday] /\ b = Offset[start] OBVIOUS
<1> HIDE DEF a, b
<1>5. (tz = "utc" \/ Numbered(thursday, start)) =>
        a - b \in 0 .. 23 \/ (a - b \in -23 .. -1 /\ n % 7 # 6)
  <2> HAVE tz = "utc" \/ Numbered(thursday, start)
  <2>1. CASE tz = "utc" BY <1>31, <2>1
  <2>2. CASE tz # "utc"
    <3>1. \/ Offset[thursday] - Offset[start] \in 0 .. 23
          \/ Offset[thursday] - Offset[start] \in -23 .. -1 /\ (thursday - start) % 7 # 6
      BY <2>2 DEF Numbered
    <3> QED BY <1>32, <2>2, <3>1
  <2> QED BY <2>1, <2>2
<1>6. PICK e : e = a - b OBVIOUS
<1>7. e \in -26 .. 26 BY <1>2, <1>6
<1>8. Midnight(thursday, tz) - Midnight(start, tz) + 24 + 167 = 24 * n - e + 191
  BY <1>2, <1>3, <1>6
<1>9. PICK k : k = n \div 7 OBVIOUS
<1>10. PICK m : m = n % 7 OBVIOUS
<1>11. k \in Int /\ m \in 0 .. 6 /\ n = 7 * k + m BY <1>9, <1>10
<1>12. 24 * n - e + 191 = 168 * k + (24 * m - e + 191) BY <1>7, <1>11
<1>13. (24 * n - e + 191) \div 168 \in k .. k + 2
  <2>1. PICK v \in Int : v = 24 * m - e + 191 BY <1>7, <1>11
  <2>2. v >= 165 /\ v <= 361 BY <1>7, <1>11, <2>1
  <2>3. (168 * k + v) \div 168 \in k .. k + 2 BY <1>11, <2>2
  <2> QED BY <1>12, <2>1, <2>3
<1>14. e \in 0 .. 23 => (24 * n - e + 191) \div 168 = k + 1
  <2> HAVE e \in 0 .. 23
  <2>1. PICK v \in Int : v = 24 * m - e + 191 BY <1>7, <1>11
  <2>2. v >= 168 /\ v < 336 BY <1>11, <2>1
  <2>3. (168 * k + v) \div 168 = k + 1 BY <1>11, <2>2
  <2> QED BY <1>12, <2>1, <2>3
<1>15. e \in -23 .. -1 /\ m # 6 => (24 * n - e + 191) \div 168 = k + 1
  <2> HAVE e \in -23 .. -1 /\ m # 6
  <2>1. PICK v \in Int : v = 24 * m - e + 191 BY <1>7, <1>11
  <2>2. v >= 168 /\ v < 336 BY <1>11, <2>1
  <2>3. (168 * k + v) \div 168 = k + 1 BY <1>11, <2>2
  <2> QED BY <1>12, <2>1, <2>3
<1> QED BY <1>4, <1>5, <1>6, <1>8, <1>9, <1>10, <1>13, <1>14, <1>15

(* The window from the midnight of a to the one of b.                        *)
Spans(w, a, b) ==
  /\ a \in Int /\ b \in Int /\ a < b
  /\ w.tz \in Zones /\ w.from = Midnight(a, w.tz) /\ w.to = Midnight(b, w.tz)
  /\ \A e \in a - 2 .. b + 2 : Known(e)

(* The default windows; the week's is seven days in any zone. *)
LEMMA TodayIs ==
  ASSUME NEW tz \in Zones, NEW t \in Instants, NEW w, w = Today(t, tz)
  PROVE  /\ Spans(w, DayOf(t, tz), DayOf(t, tz) + 1) /\ w.tz = tz
         /\ w.from <= t /\ t < w.to
<1>1. PICK d : d = DayOf(t, tz) OBVIOUS
<1>2. d \in t \div 24 - 1 .. t \div 24 + 1 /\ InDay(t, d, tz) BY <1>1, WeekIs
<1>3. PICK q : q = t \div 24 OBVIOUS
<1>4. q \in Int BY <1>3, InstantIs
<1>5. d \in Int /\ q - 1 <= d /\ d <= q + 1 BY <1>2, <1>3, <1>4
<1>6. \A e \in q - 400 .. q + 30 : Known(e) BY <1>3, InstantIs
<1>7. \A e \in d - 2 .. d + 1 + 2 : e \in q - 400 .. q + 30 BY <1>4, <1>5
<1>8. \A e \in d - 2 .. d + 1 + 2 : Known(e) BY <1>6, <1>7
<1>9. w.from = Midnight(d, tz) /\ w.to = Midnight(d + 1, tz) /\ w.tz = tz
  BY <1>1 DEF Today, ParseDate, Window
<1>10. d + 1 \in Int /\ d < d + 1 BY <1>5
<1>11. Spans(w, d, d + 1) BY <1>5, <1>8, <1>9, <1>10 DEF Spans
<1>12. w.from <= t /\ t < w.to BY <1>2, <1>9 DEF InDay
<1> QED BY <1>1, <1>9, <1>11, <1>12

LEMMA ThisWeekIs ==
  ASSUME NEW tz \in Zones, NEW t \in Instants, NEW w, w = ThisWeek(t, tz)
  PROVE  /\ \E a \in Int : Spans(w, a, a + 7)
         /\ w.tz = tz
         /\ WeeksNumbered => Spans(w, Thursday(t, tz) - 3, Thursday(t, tz) + 4)
<1>1. PICK q : q = t \div 24 OBVIOUS
<1>2. q \in Int /\ t \in Int /\ \A e \in q - 400 .. q + 30 : Known(e) BY <1>1, InstantIs
<1>3. PICK thursday : thursday = Thursday(t, tz) OBVIOUS
<1>4. PICK start : start = YearStart(YearOf(thursday)) OBVIOUS
<1>5. PICK d : d = DayOf(t, tz) OBVIOUS
<1>6. /\ d \in q - 1 .. q + 1
      /\ thursday \in Nat /\ thursday % 7 = 0
      /\ d - 3 <= thursday /\ thursday <= d + 3
      /\ start \in Int /\ Known(start) /\ Known(thursday)
      /\ thursday - start \in 0 .. 365
  BY <1>1, <1>3, <1>4, <1>5, WeekIs
<1>7. PICK n \in Nat : n = thursday - start BY <1>6
<1>8. PICK k \in Int : k = n \div 7 OBVIOUS
<1>9. PICK week : week = IsoWeek(t, tz) OBVIOUS
<1>10. /\ week \in k .. k + 2
       /\ (tz = "utc" \/ Numbered(thursday, start)) => week = k + 1
  BY <1>2, <1>3, <1>4, <1>6, <1>7, <1>8, <1>9, IsoWeekBounds
<1>11. PICK a : a = WeekFrom(YearOf(thursday), week) OBVIOUS
<1>12. a = thursday - 3 + 7 * (week - 1 - k)
  <2>1. YearStart(YearOf(thursday)) = thursday - n BY <1>4, <1>6, <1>7
  <2>2. week \in Int /\ thursday \in Int /\ thursday % 7 = 0 BY <1>6, <1>10
  <2>3. WeekFrom(YearOf(thursday), week) = thursday - 3 + 7 * (week - 1 - n \div 7)
    BY <2>1, <2>2, WeekFromIs
  <2> QED BY <1>8, <1>11, <2>3
<1>13. /\ w.from = Midnight(a, tz) /\ w.to = Midnight(a + 7, tz) /\ w.tz = tz
  BY <1>3, <1>9, <1>11 DEF ThisWeek, ParseWeek, Window, IsoWeekYear
<1>14. a \in Int /\ a + 7 \in Int /\ a < a + 7 /\ thursday - 10 <= a /\ a <= thursday + 4
  BY <1>6, <1>10, <1>12
<1>15. \A e \in a - 2 .. a + 7 + 2 : e \in q - 400 .. q + 30 BY <1>2, <1>6, <1>14
<1>16. Spans(w, a, a + 7) BY <1>2, <1>13, <1>14, <1>15 DEF Spans
<1>17. WeeksNumbered => a = thursday - 3
  <2> HAVE WeeksNumbered
  <2>1. tz = "utc" \/ Numbered(thursday, start)
    BY <1>3, <1>4 DEF WeeksNumbered, Zones
  <2> QED BY <1>6, <1>8, <1>10, <1>12, <2>1
<1>18. a = thursday - 3 => a + 7 = thursday + 4 BY <1>6
<1> QED BY <1>3, <1>13, <1>14, <1>16, <1>17, <1>18

(* Every window is of whole days. *)
LEMMA WindowIs ==
  ASSUME NEW w \in Windows
  PROVE  \E a, b \in Int : Spans(w, a, b)
<1>1. CASE w \in DailyWindows
  <2>1. PICK t \in Instants, tz \in Zones : w = Today(t, tz) BY <1>1 DEF DailyWindows
  <2>2. Spans(w, DayOf(t, tz), DayOf(t, tz) + 1) BY <2>1, TodayIs
  <2> QED BY <2>2 DEF Spans
<1>2. CASE w \in WeeklyWindows
  <2>1. PICK t \in Instants, tz \in Zones : w = ThisWeek(t, tz) BY <1>2 DEF WeeklyWindows
  <2>2. PICK a \in Int : Spans(w, a, a + 7) BY <2>1, ThisWeekIs
  <2> QED BY <2>2 DEF Spans
<1> QED BY <1>1, <1>2 DEF Windows

(* A window begins and ends at moments, and the days before it end with its  *)
(* beginning.                                                                *)
LEMMA WindowEnds ==
  ASSUME NEW w \in Windows
  PROVE  /\ w.from \in Int /\ w.to \in Int /\ w.from < w.to
         /\ FloorToTzDay(w.from, w.tz) = w.from
<1>1. PICK a, b \in Int : Spans(w, a, b) BY WindowIs
<1>2. a < b /\ w.tz \in Zones /\ w.from = Midnight(a, w.tz) /\ w.to = Midnight(b, w.tz)
      /\ \A e \in a - 2 .. b + 2 : Known(e)
  BY <1>1 DEF Spans
<1>3. Known(a) /\ Known(b) /\ \A e \in a - 2 .. a + 2 : Known(e)
  <2>1. a \in a - 2 .. b + 2 /\ b \in a - 2 .. b + 2 /\ \A e \in a - 2 .. a + 2 : e \in a - 2 .. b + 2
    BY <1>2
  <2> QED BY <1>2, <2>1
<1>4. w.from \in Int /\ w.to \in Int BY <1>2, <1>3, MidnightIs
<1>5. w.from < w.to BY <1>2, <1>3, MidnightsInOrder
<1>6. DayOf(w.from, w.tz) = a BY <1>2, <1>3, DayOfMidnight
<1> QED BY <1>2, <1>4, <1>5, <1>6 DEF FloorToTzDay

(* Of a time that is over the log keeps what it has, and gets nothing more.  *)
LEMMA RowsStay ==
  ASSUME HooksInv, Longer, NEW v, v.to \in Int, v.to <= now
  PROVE  /\ InWindow(v)' = InWindow(v)
         /\ \A i \in InWindow(v) : log'[i] = log[i]
         /\ \A type : OfType(v, type)' = OfType(v, type)
<1>1. \A i \in DOMAIN log : log'[i] = log[i] BY DEF Longer, Grown
<1>2. now \in Int BY HooksAssumption DEF HooksInv, HooksTypeOK
<1>3. \A i \in NewRows : ~ Holds(v, log'[i].at) BY <1>2 DEF Longer, Holds
<1>4. /\ DOMAIN log \subseteq DOMAIN log'
      /\ \A i \in DOMAIN log' : i \in DOMAIN log \/ i \in NewRows
  BY OldAndNew DEF HooksInv
<1>5. InWindow(v)' = InWindow(v) BY <1>1, <1>3, <1>4 DEF InWindow, Holds
<1>6. \A i \in InWindow(v) : log'[i] = log[i] BY <1>1 DEF InWindow
<1>7. \A type : OfType(v, type)' = OfType(v, type) BY <1>5, <1>6 DEF OfType
<1> QED BY <1>5, <1>6, <1>7

Same(R) == \A i \in R : log'[i] = log[i]

(* What is computed from rows that stay is what it was. *)
LEMMA CostStays ==
  ASSUME NEW R, Same(R)
  PROVE  Cost(R)' = Cost(R)
<1> DEFINE first(s) == CHOOSE x \in s : TRUE
           old(f) == [s \in SUBSET R |-> IF s = {} THEN 0 ELSE log[first(s)].cost + f[s \ {first(s)}]]
           new(f) == [s \in SUBSET R |-> IF s = {} THEN 0 ELSE log'[first(s)].cost + f[s \ {first(s)}]]
<1>1. Cost(R) = (CHOOSE f : f = old(f))[R]
  BY DEF Cost, MapThenSumSet, MapThenFoldSet
<1>2. Cost(R)' = (CHOOSE f : f = new(f))[R]
  BY DEF Cost, MapThenSumSet, MapThenFoldSet
<1>3. \A f : old(f) = new(f)
  <2> TAKE f
  <2>1. \A s \in SUBSET R : s # {} => log'[first(s)] = log[first(s)] BY DEF Same
  <2> QED BY <2>1
<1> HIDE DEF old, new
<1>4. (CHOOSE f : f = old(f)) = (CHOOSE f : f = new(f)) BY <1>3
<1> QED BY <1>1, <1>2, <1>4

LEMMA ClustersStay ==
  ASSUME NEW R, Same(R), NEW span
  PROVE  Clusters(R, span)' = Clusters(R, span)
<1>1. {x \in R \X R \X R : Extends(x[1], x[2], x[3], span)}'
        = {x \in R \X R \X R : Extends(x[1], x[2], x[3], span)}
  <2>1. \A x \in R \X R \X R : x[1] \in R /\ x[2] \in R /\ x[3] \in R OBVIOUS
  <2> QED BY <2>1 DEF Same, Extends
<1> QED BY <1>1 DEF Clusters

LEMMA DuplicatesStay ==
  ASSUME NEW R, Same(R)
  PROVE  DuplicateOutbound(R)' = DuplicateOutbound(R)
<1> DEFINE key(i) == <<log[i].peer, log[i].body>>
           same(k) == {i \in R : key(i) = k}
<1>1. \A i \in R : key(i)' = key(i) BY DEF Same
<1>2. {key(i) : i \in R}' = {key(i) : i \in R} BY <1>1
<1>3. \A k : same(k)' = same(k) BY <1>1
<1>4. \A k : Clusters(same(k), DupWindow)' = Clusters(same(k), DupWindow)
  <2> TAKE k
  <2>1. PICK S : S = same(k) OBVIOUS
  <2>2. Same(S) BY <2>1 DEF Same
  <2>3. Clusters(S, DupWindow)' = Clusters(S, DupWindow) BY <2>2, ClustersStay
  <2> HIDE DEF same
  <2> QED BY <2>1, <2>3, <1>3
<1> HIDE DEF same, key
<1>5. UNION {Clusters(same(k), DupWindow) : k \in {key(i) : i \in R}}'
       = UNION {Clusters(same(k), DupWindow) : k \in {key(i) : i \in R}}
  BY <1>2, <1>4
<1> QED BY <1>5 DEF DuplicateOutbound, same, key

LEMMA DenialsStay ==
  ASSUME NEW R, Same(R)
  PROVE  DenialSpikes(R)' = DenialSpikes(R)
<1>1. PICK S : S = {i \in R : log[i].type = "tool.denied"} OBVIOUS
<1>2. S = {i \in R : log'[i].type = "tool.denied"} BY <1>1 DEF Same
<1>3. Same(S) BY <1>1 DEF Same
<1>4. Clusters(S, DenialWindow)' = Clusters(S, DenialWindow) BY <1>3, ClustersStay
<1>5. DenialSpikes(R) = {c \in Clusters(S, DenialWindow) : Cardinality(c) >= DenialThreshold}
  BY <1>1 DEF DenialSpikes
<1>6. DenialSpikes(R)' = {c \in Clusters(S, DenialWindow)' : Cardinality(c) >= DenialThreshold}
  BY <1>2 DEF DenialSpikes
<1> QED BY <1>4, <1>5, <1>6

LEMMA InstallsStay ==
  ASSUME NEW R, Same(R)
  PROVE  InstallEvents(R)' = InstallEvents(R)
<1>1. {j \in R : log'[j].type = "system.install"} = {j \in R : log[j].type = "system.install"}
  BY DEF Same
<1>2. \A i \in R : log'[i].scan = log[i].scan BY DEF Same
<1> QED BY <1>1, <1>2 DEF InstallEvents

(* What is counted of them. *)
LEMMA CountsStay ==
  ASSUME HooksInv, Longer, NEW v, v.to \in Int, v.to <= now
  PROVE  /\ ActivityByCategory(v)' = ActivityByCategory(v)
         /\ CronByEventType(v)' = CronByEventType(v)
         /\ ToolInvocations(v)' = ToolInvocations(v)
         /\ LlmUsage(v)' = LlmUsage(v)
         /\ MessagesByChannel(v)' = MessagesByChannel(v)
         /\ DistinctToolNames(v)' = DistinctToolNames(v)
<1>1. /\ InWindow(v)' = InWindow(v) /\ \A i \in InWindow(v) : log'[i] = log[i]
      /\ \A type : OfType(v, type)' = OfType(v, type)
  BY RowsStay
<1>2. \A type : OfType(v, type) \subseteq InWindow(v) BY DEF OfType
<1>3. ActivityByCategory(v)' = ActivityByCategory(v)
  BY <1>1 DEF ActivityByCategory, CountBy
<1>4. CronByEventType(v)' = CronByEventType(v)
  BY <1>1 DEF CronByEventType, CountBy
<1>5. ToolInvocations(v)' = ToolInvocations(v)
  <2>1. PICK R : R = OfType(v, "tool.invoked") OBVIOUS
  <2>2. OfType(v, "tool.invoked")' = R /\ \A i \in R : log'[i] = log[i] BY <1>1, <1>2, <2>1
  <2> QED BY <2>1, <2>2 DEF ToolInvocations, CountBy
<1>6. LlmUsage(v)' = LlmUsage(v)
  <2>1. PICK R : R = OfType(v, "prompt.response") OBVIOUS
  <2>2. OfType(v, "prompt.response")' = R /\ \A i \in R : log'[i] = log[i] BY <1>1, <1>2, <2>1
  <2> QED BY <2>1, <2>2 DEF LlmUsage, CountBy
<1>7. MessagesByChannel(v)' = MessagesByChannel(v)
  <2>1. PICK R : R = OfType(v, "message.sent") OBVIOUS
  <2>2. OfType(v, "message.sent")' = R /\ \A i \in R : log'[i] = log[i] BY <1>1, <1>2, <2>1
  <2> QED BY <2>1, <2>2 DEF MessagesByChannel, CountBy
<1>8. DistinctToolNames(v)' = DistinctToolNames(v)
  BY <1>1, <1>2 DEF DistinctToolNames
<1> QED BY <1>3, <1>4, <1>5, <1>6, <1>7, <1>8

(* The days before a window are over if it is. *)
LEMMA FirstSeenStays ==
  ASSUME HooksInv, Longer, NEW w \in Windows, w.to <= now
  PROVE  FirstSeenTools(w)' = FirstSeenTools(w)
<1>1. w.from \in Int /\ w.to \in Int /\ w.from < w.to /\ FloorToTzDay(w.from, w.tz) = w.from
  BY WindowEnds
<1>2. PICK v : v = Window("since", SubtractCalendarDays(w.from, Lookback, w.tz), w.from, w.tz) OBVIOUS
<1>3. v.to = w.from BY <1>2 DEF Window
<1>4. now \in Int BY HooksAssumption DEF HooksInv, HooksTypeOK
<1>5. v.to <= now BY <1>1, <1>3, <1>4
<1>6. DistinctToolNames(v)' = DistinctToolNames(v) BY <1>1, <1>3, <1>5, CountsStay
<1>7. ToolInvocations(w)' = ToolInvocations(w) BY <1>1, CountsStay
<1>8. FirstSeenTools(w) = {t \in DOMAIN ToolInvocations(w) : t \notin DistinctToolNames(v)}
  BY <1>1, <1>2 DEF FirstSeenTools
<1>9. FirstSeenTools(w)' = {t \in DOMAIN ToolInvocations(w)' : t \notin DistinctToolNames(v)'}
  BY <1>1, <1>2 DEF FirstSeenTools
<1> QED BY <1>6, <1>7, <1>8, <1>9

(* A report on a window that is over.                                        *)
LEMMA ProjectionStays ==
  ASSUME HooksInv, Longer, NEW w \in Windows, w.to <= now
  PROVE  Projection(w)' = Projection(w)
<1>1. w.to \in Int BY WindowEnds
<1>2. /\ InWindow(w)' = InWindow(w) /\ \A i \in InWindow(w) : log'[i] = log[i]
      /\ \A type : OfType(w, type)' = OfType(w, type)
  BY <1>1, RowsStay
<1>3. PICK M : M = Fetched(OfType(w, "message.sent")) OBVIOUS
<1>4. Fetched(OfType(w, "message.sent"))' = M BY <1>2, <1>3 DEF Fetched
<1>5. Same(M) BY <1>2, <1>3 DEF Same, Fetched, OfType
<1>6. DuplicateOutbound(M)' = DuplicateOutbound(M) BY <1>5, DuplicatesStay
<1>7. PICK R : R = OfType(w, "prompt.response") OBVIOUS
<1>8. OfType(w, "prompt.response")' = R /\ Same(R) BY <1>2, <1>7 DEF Same, OfType
<1>9. Cost(R)' = Cost(R) BY <1>8, CostStays
<1>10. FirstSeenTools(w)' = FirstSeenTools(w) BY FirstSeenStays
<1>11. /\ ActivityByCategory(w)' = ActivityByCategory(w)
       /\ CronByEventType(w)' = CronByEventType(w)
       /\ ToolInvocations(w)' = ToolInvocations(w)
       /\ LlmUsage(w)' = LlmUsage(w)
       /\ MessagesByChannel(w)' = MessagesByChannel(w)
  BY <1>1, CountsStay
<1>12. Projection(w) =
  [byCategory |-> ActivityByCategory(w), cron |-> CronByEventType(w), tools |-> ToolInvocations(w),
   llm |-> LlmUsage(w), cost |-> Cost(R), outbound |-> MessagesByChannel(w),
   duplicates |-> DuplicateOutbound(M), truncated |-> Cardinality(M) >= FetchCap,
   firstSeen |-> FirstSeenTools(w)]
  BY <1>3, <1>7 DEF Projection
<1>13. Projection(w)' =
  [byCategory |-> ActivityByCategory(w)', cron |-> CronByEventType(w)', tools |-> ToolInvocations(w)',
   llm |-> LlmUsage(w)', cost |-> Cost(R)', outbound |-> MessagesByChannel(w)',
   duplicates |-> DuplicateOutbound(M)', truncated |-> Cardinality(M) >= FetchCap,
   firstSeen |-> FirstSeenTools(w)']
  BY <1>4, <1>8 DEF Projection
<1> QED BY <1>6, <1>9, <1>10, <1>11, <1>12, <1>13

LEMMA AnomaliesStay ==
  ASSUME HooksInv, Longer, NEW w \in Windows, w.to <= now
  PROVE  AnomalyView(w)' = AnomalyView(w)
<1>1. w.to \in Int BY WindowEnds
<1>2. InWindow(w)' = InWindow(w) /\ \A i \in InWindow(w) : log'[i] = log[i] BY <1>1, RowsStay
<1>3. PICK R : R = Fetched(InWindow(w)) OBVIOUS
<1>4. Fetched(InWindow(w))' = R BY <1>2, <1>3 DEF Fetched
<1>5. Same(R) BY <1>2, <1>3 DEF Same, Fetched
<1>6. PICK M : M = {i \in R : log[i].type = "message.sent"} OBVIOUS
<1>7. M = {i \in R : log'[i].type = "message.sent"} /\ Same(M) BY <1>5, <1>6 DEF Same
<1>8. DuplicateOutbound(M)' = DuplicateOutbound(M) BY <1>7, DuplicatesStay
<1>9. DenialSpikes(R)' = DenialSpikes(R) /\ InstallEvents(R)' = InstallEvents(R)
  BY <1>5, DenialsStay, InstallsStay
<1>10. FirstSeenTools(w)' = FirstSeenTools(w) BY FirstSeenStays
<1>11. AnomalyView(w) =
  [duplicates |-> DuplicateOutbound(M), firstSeen |-> FirstSeenTools(w), denials |-> DenialSpikes(R),
   installs |-> InstallEvents(R), capped |-> Cardinality(R) >= FetchCap]
  BY <1>3, <1>6 DEF AnomalyView
<1>12. AnomalyView(w)' =
  [duplicates |-> DuplicateOutbound(M)', firstSeen |-> FirstSeenTools(w)', denials |-> DenialSpikes(R)',
   installs |-> InstallEvents(R)', capped |-> Cardinality(R) >= FetchCap]
  BY <1>4, <1>7 DEF AnomalyView
<1> QED BY <1>8, <1>9, <1>10, <1>11, <1>12

(* The row of a cron run whose end is past.                                  *)
LEMMA CronRowStays ==
  ASSUME HooksInv, Longer, NEW c \in DOMAIN log, AgentEnds(c) # {},
         log[Min(AgentEnds(c))].at < now
  PROVE  CronRow(c)' = CronRow(c)
<1>1. \A i \in DOMAIN log : log'[i] = log[i] BY DEF Longer, Grown
<1>2. /\ DOMAIN log \subseteq DOMAIN log' /\ Len(log) \in Nat /\ Len(log') \in Nat
      /\ DOMAIN log = 1 .. Len(log)
      /\ \A i \in DOMAIN log' : i \in DOMAIN log \/ i \in NewRows
      /\ \A i \in NewRows : i \in DOMAIN log' /\ i \notin DOMAIN log
      /\ \A i \in DOMAIN log, j \in NewRows : i < j
  BY OldAndNew DEF HooksInv
<1>3. \A i \in NewRows : i \in Nat /\ log'[i].at = now BY <1>2 DEF Longer, NewRows
<1>4. PICK E : E = AgentEnds(c) OBVIOUS
<1>5. PICK F : F = AgentEnds(c)' OBVIOUS
<1>6. E \subseteq DOMAIN log BY <1>4 DEF AgentEnds
<1>7. \A i \in DOMAIN log : i \in F <=> i \in E BY <1>1, <1>2, <1>4, <1>5 DEF AgentEnds
<1>8. \A i \in F : i \in E \/ i \in NewRows
  <2>1. \A i \in F : i \in DOMAIN log' BY <1>5 DEF AgentEnds
  <2> QED BY <2>1, <1>2, <1>7
<1>9. PICK e : e = Min(E) OBVIOUS
<1>10. e \in E /\ \A x \in E : e <= x
  <2>1. E \in SUBSET Nat BY <1>2, <1>6
  <2> QED BY <1>4, <1>9, <2>1, SmallestIs
<1>11. Min(F) = e
  <2>1. F \in SUBSET Nat BY <1>2, <1>3, <1>6, <1>8
  <2>2. e \in F BY <1>6, <1>7, <1>10
  <2>3. PICK f : f = Min(F) OBVIOUS
  <2>4. f \in F /\ \A x \in F : f <= x BY <2>1, <2>2, <2>3, SmallestIs
  <2>5. f \in E
    <3>1. f <= e BY <2>2, <2>4
    <3>2. f \in NewRows => e < f BY <1>2, <1>6, <1>10
    <3>3. e \in Nat /\ f \in Nat BY <2>1, <2>2, <2>4
    <3> QED BY <1>8, <2>4, <3>1, <3>2, <3>3
  <2>6. f <= e /\ e <= f /\ e \in Nat /\ f \in Nat BY <1>10, <2>1, <2>2, <2>4, <2>5
  <2> QED BY <2>3, <2>6
<1>12. e \in DOMAIN log /\ log'[e] = log[e] /\ log[e].at < now /\ log'[c] = log[c]
  BY <1>1, <1>4, <1>6, <1>9, <1>10
<1>13. \A type : CountDuring(c, e, type)' = CountDuring(c, e, type)
  <2> TAKE type
  <2>1. now \in Int /\ log[e].at \in Int
    BY <1>12, HooksAssumption DEF HooksInv, HooksTypeOK, IsRow
  <2>2. \A i \in NewRows : ~(log'[i].at <= log'[e].at) BY <1>3, <1>12, <2>1
  <2>3. {i \in DOMAIN log : /\ log[i].type = type /\ log[i].session = log[c].session
                            /\ log[c].at <= log[i].at /\ log[i].at <= log[e].at}'
         = {i \in DOMAIN log : /\ log[i].type = type /\ log[i].session = log[c].session
                               /\ log[c].at <= log[i].at /\ log[i].at <= log[e].at}
    BY <1>1, <1>2, <1>12, <2>2
  <2> QED BY <2>3 DEF CountDuring
<1>14. CronRow(c) =
  [execution |-> c, status |-> IF log[e].ok = TRUE THEN "ok" ELSE "failed",
   tools |-> CountDuring(c, e, "tool.invoked"), llm |-> CountDuring(c, e, "prompt.response"),
   sent |-> CountDuring(c, e, "message.sent")]
  BY <1>4, <1>9 DEF CronRow
<1>15. CronRow(c)' =
  [execution |-> c, status |-> IF log'[e].ok = TRUE THEN "ok" ELSE "failed",
   tools |-> CountDuring(c, e, "tool.invoked")', llm |-> CountDuring(c, e, "prompt.response")',
   sent |-> CountDuring(c, e, "message.sent")']
  <2>1. F # {} BY <1>6, <1>7, <1>10
  <2> QED BY <1>5, <1>11, <2>1 DEF CronRow
<1> QED BY <1>12, <1>13, <1>14, <1>15

LEMMA ReportFinalStep ==
  HooksInv /\ [HooksNext]_hookVars =>
    [/\ \A w \in Windows :
          w.to <= now /\ log' # log => Projection(w)' = Projection(w) /\ AnomalyView(w)' = AnomalyView(w)
     /\ \A c \in {i \in DOMAIN log : log[i].type = "cron.executed"} :
          AgentEnds(c) # {} /\ log[Min(AgentEnds(c))].at < now => CronRow(c)' = CronRow(c)]_hookVars
<1> SUFFICES ASSUME HooksInv, [HooksNext]_hookVars
             PROVE  /\ \A w \in Windows : w.to <= now /\ log' # log =>
                         Projection(w)' = Projection(w) /\ AnomalyView(w)' = AnomalyView(w)
                    /\ \A c \in {i \in DOMAIN log : log[i].type = "cron.executed"} :
                         AgentEnds(c) # {} /\ log[Min(AgentEnds(c))].at < now => CronRow(c)' = CronRow(c)
  OBVIOUS
<1>1. \A w \in Windows : w.to <= now /\ log' # log =>
        Projection(w)' = Projection(w) /\ AnomalyView(w)' = AnomalyView(w)
  BY StepAppends, ProjectionStays, AnomaliesStay
<1>2. \A c \in {i \in DOMAIN log : log[i].type = "cron.executed"} :
        AgentEnds(c) # {} /\ log[Min(AgentEnds(c))].at < now => CronRow(c)' = CronRow(c)
  <2>1. CASE log' # log BY <2>1, StepAppends, CronRowStays
  <2>2. CASE log' = log BY <2>2 DEF CronRow, AgentEnds, CountDuring
  <2> QED BY <2>1, <2>2
<1> QED BY <1>1, <1>2

(* A report on a window that has ended, and the row of a cron run whose end  *)
(* is past, never change: for any zone whose clocks are known, any caps and  *)
(* thresholds, and any log.                                                  *)
THEOREM FinishedReportsStay == HooksSpec => ReportFinal
BY HooksInductive, ReportFinalStep, PTL DEF HooksSpec, ReportFinal

(* Each of a set's members is in one class: the classes add up to it.        *)
First(s) == CHOOSE x \in s : TRUE

Class(C, h, k) == {i \in C : h[i] = k}

SumStep(K, count, f) ==
  [s \in SUBSET K |-> IF s = {} THEN 0 ELSE count[First(s)] + f[s \ {First(s)}]]

(* The sum over the classes is the number of those in them. *)
LEMMA SumIs ==
  ASSUME NEW C, IsFiniteSet(C), NEW h, NEW K, IsFiniteSet(K),
         NEW count, \A k \in K : count[k] = Cardinality(Class(C, h, k)),
         NEW f, f = SumStep(K, count, f)
  PROVE  f[K] = Cardinality({i \in C : h[i] \in K})
<1> DEFINE size(s) == Cardinality({i \in C : h[i] \in s})
           bad == {s \in SUBSET K : f[s] # size(s)}
           sizes == {Cardinality(s) : s \in bad}
<1>1. \A s \in SUBSET K : IsFiniteSet(s) /\ Cardinality(s) \in Nat BY FS_Subset, FS_CardinalityType
<1>2. \A s \in SUBSET K : f[s] = IF s = {} THEN 0 ELSE count[First(s)] + f[s \ {First(s)}]
  BY DEF SumStep
<1>3. ASSUME bad # {} PROVE FALSE
  <2>1. sizes \in SUBSET Nat /\ sizes # {} BY <1>1, <1>3
  <2>2. PICK n \in sizes : \A m \in sizes : n <= m
    <3> HIDE DEF sizes
    <3> QED BY <2>1, SmallestIs
  <2>3. PICK s \in bad : n = Cardinality(s) BY <2>2
  <2>4. s \in SUBSET K /\ f[s] # size(s) OBVIOUS
  <2>5. s # {}
    <3>1. {i \in C : h[i] \in {}} = {} OBVIOUS
    <3>2. size({}) = 0 BY <3>1, FS_EmptySet
    <3>3. f[{}] = 0 BY <1>2
    <3> QED BY <2>4, <3>2, <3>3
  <2>6. PICK x : x = First(s) OBVIOUS
  <2>7. x \in s BY <2>5, <2>6 DEF First
  <2>8. PICK rest : rest = s \ {x} OBVIOUS
  <2>9. rest \in SUBSET K /\ Cardinality(rest) = n - 1 /\ n \in Nat
    <3>1. rest \in SUBSET K BY <2>4, <2>8
    <3>2. IsFiniteSet(s) /\ n \in Nat BY <1>1, <2>3, <2>4
    <3>3. Cardinality(rest) = n - 1 BY <2>3, <2>7, <2>8, <3>2, FS_RemoveElement
    <3> QED BY <3>1, <3>2, <3>3
  <2>10. f[rest] = size(rest)
    <3>1. n - 1 \notin sizes
      <4>1. ~(n <= n - 1) BY <2>9
      <4> HIDE DEF sizes
      <4> QED BY <2>2, <4>1
    <3>2. rest \notin bad BY <2>9, <3>1
    <3> QED BY <2>9, <3>2
  <2>11. size(s) = Cardinality(Class(C, h, x)) + size(rest)
    <3>1. PICK A : A = Class(C, h, x) OBVIOUS
    <3>2. PICK B : B = {i \in C : h[i] \in rest} OBVIOUS
    <3>3. A \cap B = {} /\ A \cup B = {i \in C : h[i] \in s} BY <2>7, <2>8, <3>1, <3>2 DEF Class
    <3>4. A \in SUBSET C /\ B \in SUBSET C BY <3>1, <3>2 DEF Class
    <3>5. IsFiniteSet(A) /\ IsFiniteSet(B) /\ Cardinality(A) \in Nat /\ Cardinality(B) \in Nat
      BY <3>4, FS_Subset, FS_CardinalityType
    <3>6. Cardinality(A \cup B) = Cardinality(A) + Cardinality(B) - Cardinality(A \cap B)
      BY <3>5, FS_Union
    <3>7. Cardinality(A \cap B) = 0 BY <3>3, FS_EmptySet
    <3>8. Cardinality(A \cup B) = Cardinality(A) + Cardinality(B) BY <3>5, <3>6, <3>7
    <3>9. size(s) = Cardinality(A \cup B) /\ size(rest) = Cardinality(B) BY <3>2, <3>3
    <3> HIDE DEF size
    <3> QED BY <3>1, <3>8, <3>9
  <2>12. f[s] = count[x] + f[rest] BY <1>2, <2>4, <2>5, <2>6, <2>8
  <2>13. count[x] = Cardinality(Class(C, h, x)) BY <2>4, <2>7
  <2> HIDE DEF size, bad
  <2> QED BY <2>4, <2>10, <2>11, <2>12, <2>13
<1>4. K \in SUBSET K OBVIOUS
<1> QED BY <1>3, <1>4

Sizes(C, h, K) == [s \in SUBSET K |-> Cardinality({i \in C : h[i] \in s})]

(* There is a function the sum may choose. *)
LEMMA SumExists ==
  ASSUME NEW C, IsFiniteSet(C), NEW h, NEW K, NEW f, f = Sizes(C, h, K),
         NEW count, \A k \in K : count[k] = Cardinality(Class(C, h, k))
  PROVE  f = SumStep(K, count, f)
<1> DEFINE size(s) == Cardinality({i \in C : h[i] \in s})
<1>1. f = [s \in SUBSET K |-> size(s)] BY DEF Sizes
<1>2. \A s \in SUBSET K : f[s] = IF s = {} THEN 0 ELSE count[First(s)] + f[s \ {First(s)}]
  <2> TAKE s \in SUBSET K
  <2>1. CASE s = {}
    <3>1. {i \in C : h[i] \in {}} = {} OBVIOUS
    <3>2. size({}) = 0 BY <3>1, FS_EmptySet
    <3> QED BY <1>1, <2>1, <3>2
  <2>2. CASE s # {}
    <3>1. PICK x : x = First(s) OBVIOUS
    <3>2. x \in s BY <2>2, <3>1 DEF First
    <3>3. PICK rest : rest = s \ {x} OBVIOUS
    <3>4. PICK A : A = Class(C, h, x) OBVIOUS
    <3>5. PICK B : B = {i \in C : h[i] \in rest} OBVIOUS
    <3>6. A \cap B = {} /\ A \cup B = {i \in C : h[i] \in s} BY <3>2, <3>3, <3>4, <3>5 DEF Class
    <3>7. A \in SUBSET C /\ B \in SUBSET C BY <3>4, <3>5 DEF Class
    <3>8. IsFiniteSet(A) /\ IsFiniteSet(B) /\ Cardinality(A) \in Nat /\ Cardinality(B) \in Nat
      BY <3>7, FS_Subset, FS_CardinalityType
    <3>9. Cardinality(A \cup B) = Cardinality(A) + Cardinality(B) - Cardinality(A \cap B)
      BY <3>8, FS_Union
    <3>10. Cardinality(A \cap B) = 0 BY <3>6, FS_EmptySet
    <3>11. size(s) = Cardinality(A) + Cardinality(B)
      <4>1. Cardinality(A \cup B) = Cardinality(A) + Cardinality(B) BY <3>8, <3>9, <3>10
      <4>2. size(s) = Cardinality(A \cup B) BY <3>6
      <4> HIDE DEF size
      <4> QED BY <4>1, <4>2
    <3>12. f[rest] = Cardinality(B)
      <4>1. rest \in SUBSET K BY <3>3
      <4> QED BY <1>1, <3>5, <4>1
    <3>13. count[x] = Cardinality(A) BY <3>2, <3>4
    <3>14. f[s] = size(s) BY <1>1
    <3> HIDE DEF size
    <3> QED BY <2>2, <3>1, <3>3, <3>11, <3>12, <3>13, <3>14
  <2> QED BY <2>1, <2>2
<1>3. f = [s \in SUBSET K |-> f[s]] BY <1>1
<1> QED BY <1>2, <1>3 DEF SumStep

(* The counts of a GROUP BY add up to the rows counted.                      *)
LEMMA TotalIs ==
  ASSUME NEW C, IsFiniteSet(C), NEW h, h = [i \in C |-> h[i]],
         NEW count, count = [k \in {h[i] : i \in C} |-> Cardinality(Class(C, h, k))]
  PROVE  Total(count) = Cardinality(C)
<1> DEFINE K == {h[i] : i \in C}
<1>1. IsFiniteSet(K)
  <2>1. h \in Surjection(C, K) BY DEF Surjection
  <2> HIDE DEF K
  <2> QED BY <2>1, FS_Surjection
<1>2. DOMAIN count = K /\ \A k \in K : count[k] = Cardinality(Class(C, h, k)) OBVIOUS
<1> HIDE DEF K
<1>3. Total(count) = (CHOOSE f : f = SumStep(K, count, f))[K]
  BY <1>2 DEF Total, MapThenSumSet, MapThenFoldSet, SumStep, First
<1>4. PICK f : f = (CHOOSE g : g = SumStep(K, count, g)) OBVIOUS
<1>5. f = SumStep(K, count, f)
  <2>1. PICK g : g = Sizes(C, h, K) OBVIOUS
  <2>2. g = SumStep(K, count, g) BY <1>2, <2>1, SumExists
  <2> QED BY <1>4, <2>2
<1>6. f[K] = Cardinality({i \in C : h[i] \in K}) BY <1>1, <1>2, <1>5, SumIs
<1>7. {i \in C : h[i] \in K} = C BY DEF K
<1> QED BY <1>3, <1>4, <1>6, <1>7

(* A moment of a week is in one of its days.                                 *)
LEMMA WeekByDays ==
  ASSUME NEW w, NEW a \in Int, Spans(w, a, a + 7), NEW t \in Int
  PROVE  Cardinality({k \in 0 .. 6 : Holds(ParseDate(a + k, w.tz), t)}) = IF Holds(w, t) THEN 1 ELSE 0
<1> DEFINE m(k) == Midnight(a + k, w.tz)
           days == {k \in 0 .. 6 : Holds(ParseDate(a + k, w.tz), t)}
<1>1. /\ w.tz \in Zones /\ w.from = Midnight(a, w.tz) /\ w.to = m(7)
      /\ \A e \in a - 2 .. a + 7 + 2 : Known(e)
  BY DEF Spans
<1>2. \A k \in 0 .. 7 : a + k \in a - 2 .. a + 7 + 2 OBVIOUS
<1>3. \A k \in 0 .. 7 : Known(a + k) BY <1>1, <1>2
<1>4. \A k \in 0 .. 7 : m(k) \in Int BY <1>1, <1>3, MidnightIs
<1>5. a + 0 = a OBVIOUS
<1>6. Holds(w, t) <=> m(0) <= t /\ t < m(7) BY <1>1, <1>5 DEF Holds
<1>7. \A k \in 0 .. 6 : a + k + 1 = a + (k + 1) /\ k + 1 \in 0 .. 7 OBVIOUS
<1>8. \A k \in 0 .. 6 : Holds(ParseDate(a + k, w.tz), t) = InDay(t, a + k, w.tz)
  BY DEF Holds, ParseDate, Window, InDay
<1>9. \A k, l \in 0 .. 6 : k \in days /\ l \in days => k = l
  <2> TAKE k, l \in 0 .. 6
  <2> HAVE k \in days /\ l \in days
  <2>1. InDay(t, a + k, w.tz) /\ InDay(t, a + l, w.tz) BY <1>8
  <2>2. Known(a + k) /\ Known(a + k + 1) /\ Known(a + l) /\ Known(a + l + 1) BY <1>3, <1>7
  <2>3. a + k = a + l BY <1>1, <2>1, <2>2, OneDay
  <2> QED BY <2>3
<1>10. CASE Holds(w, t)
  <2> DEFINE begun == {k \in 0 .. 6 : m(k) <= t}
  <2>0. m(0) <= t /\ t < m(7) BY <1>6, <1>10
  <2>1. 0 \in begun
    <3>1. 0 \in 0 .. 6 OBVIOUS
    <3> HIDE DEF m
    <3> QED BY <2>0, <3>1
  <2>2. begun \in SUBSET (0 .. 6) /\ begun # {} BY <2>1
  <2>3. PICK k : k = Max(begun) OBVIOUS
  <2>4. k \in begun /\ \A x \in begun : x <= k
    <3>1. 6 \in Nat OBVIOUS
    <3> HIDE DEF begun
    <3> QED BY <2>2, <2>3, <3>1, LargestIs
  <2>5. k \in 0 .. 6 /\ m(k) <= t BY <2>4
  <2>6. t < m(k + 1)
    <3>1. CASE k = 6
      <4>1. k + 1 = 7 BY <3>1
      <4> HIDE DEF m
      <4> QED BY <2>0, <4>1
    <3>2. CASE k # 6
      <4>1. k + 1 \in 0 .. 6 /\ ~(k + 1 <= k) BY <2>5, <3>2
      <4>2. ~(m(k + 1) <= t) BY <2>4, <4>1
      <4>3. m(k + 1) \in Int BY <1>4, <4>1
      <4> HIDE DEF m
      <4> QED BY <4>2, <4>3
    <3> QED BY <3>1, <3>2
  <2>7. InDay(t, a + k, w.tz) BY <1>7, <2>5, <2>6 DEF InDay
  <2>8. k \in days BY <1>8, <2>5, <2>7
  <2>9. days = {k} BY <1>9, <2>5, <2>8
  <2>10. Cardinality(days) = 1 BY <2>9, FS_Singleton
  <2> QED BY <1>10, <2>10
<1>11. CASE ~Holds(w, t)
  <2>1. ASSUME NEW k \in days PROVE FALSE
    <3>1. k \in 0 .. 6 /\ InDay(t, a + k, w.tz) BY <1>8
    <3>2. m(k) <= t /\ t < m(k + 1) BY <1>7, <3>1 DEF InDay
    <3>3. m(0) <= m(k)
      <4>1. CASE k = 0 BY <4>1, <1>4
      <4>2. CASE k # 0
        <5>1. a + 0 < a + k /\ 0 \in 0 .. 7 /\ k \in 0 .. 7 BY <3>1, <4>2
        <5>2. m(0) < m(k) BY <1>1, <1>3, <5>1, MidnightsInOrder
        <5>3. m(0) \in Int /\ m(k) \in Int BY <1>4, <5>1
        <5> HIDE DEF m
        <5> QED BY <5>2, <5>3
      <4> QED BY <4>1, <4>2
    <3>4. m(k + 1) <= m(7)
      <4>1. CASE k = 6 BY <4>1, <1>4
      <4>2. CASE k # 6
        <5>1. a + (k + 1) < a + 7 /\ k + 1 \in 0 .. 7 /\ 7 \in 0 .. 7 BY <3>1, <4>2
        <5>2. m(k + 1) < m(7) BY <1>1, <1>3, <5>1, MidnightsInOrder
        <5>3. m(k + 1) \in Int /\ m(7) \in Int BY <1>4, <5>1
        <5> HIDE DEF m
        <5> QED BY <5>2, <5>3
      <4> QED BY <4>1, <4>2
    <3>5. m(0) \in Int /\ m(k) \in Int /\ m(k + 1) \in Int /\ m(7) \in Int BY <1>4, <3>1
    <3> HIDE DEF m
    <3>6. m(0) <= t /\ t < m(7) BY <3>2, <3>3, <3>4, <3>5
    <3> QED BY <1>6, <1>11, <3>6
  <2>2. days = {}
    <3> HIDE DEF days
    <3> QED BY <2>1
  <2>3. Cardinality(days) = 0 BY <2>2, FS_EmptySet
  <2> QED BY <1>11, <2>3
<1> QED BY <1>10, <1>11

(* The same of each weekly report and each row. *)
LEMMA WeeksByDays ==
  ASSUME HooksInv, NEW w \in WeeklyWindows, NEW i \in DOMAIN log
  PROVE  Cardinality({k \in 0 .. 6 : Holds(ParseDate(DayOf(w.from, w.tz) + k, w.tz), log[i].at)})
           = IF Holds(w, log[i].at) THEN 1 ELSE 0
<1>1. PICK t \in Instants, tz \in Zones : w = ThisWeek(t, tz) BY DEF WeeklyWindows
<1>2. PICK a \in Int : Spans(w, a, a + 7) BY <1>1, ThisWeekIs
<1>3. DayOf(w.from, w.tz) = a
  <2>1. w.tz \in Zones /\ w.from = Midnight(a, w.tz) /\ \A e \in a - 2 .. a + 7 + 2 : Known(e)
    BY <1>2 DEF Spans
  <2>2. \A e \in a - 2 .. a + 2 : e \in a - 2 .. a + 7 + 2 OBVIOUS
  <2>3. \A e \in a - 2 .. a + 2 : Known(e) BY <2>1, <2>2
  <2> QED BY <2>1, <2>3, DayOfMidnight
<1>4. log[i].at \in Int BY DEF HooksInv, HooksTypeOK, IsRow
<1>5. Cardinality({k \in 0 .. 6 : Holds(ParseDate(a + k, w.tz), log[i].at)})
        = IF Holds(w, log[i].at) THEN 1 ELSE 0
  BY <1>2, <1>4, WeekByDays
<1> QED BY <1>3, <1>5

(* The week of a moment, asked for by its name, is that week.                *)
LEMMA NowHeld ==
  ASSUME WeeksNumbered, NEW tz \in Zones, NEW t \in Instants
  PROVE  /\ ValidWeek(IsoWeekYear(t, tz), IsoWeek(t, tz), tz)
         /\ \A w \in {Today(t, tz), ThisWeek(t, tz)} : w.from <= t /\ t < w.to
<1>1. PICK thursday : thursday = Thursday(t, tz) OBVIOUS
<1>2. PICK start : start = YearStart(YearOf(thursday)) OBVIOUS
<1>3. PICK d : d = DayOf(t, tz) OBVIOUS
<1>4. PICK q : q = t \div 24 OBVIOUS
<1>5. /\ d \in q - 1 .. q + 1 /\ InDay(t, d, tz)
      /\ thursday \in Nat /\ thursday % 7 = 0
      /\ d - 3 <= thursday /\ thursday <= d + 3
      /\ start \in Int /\ Known(start) /\ Known(thursday)
      /\ thursday - start \in 0 .. 365
  BY <1>1, <1>2, <1>3, <1>4, WeekIs
<1>6. q \in Int /\ t \in Int BY <1>4, InstantIs
<1>7. PICK n \in Nat : n = thursday - start BY <1>5
<1>8. PICK week : week = IsoWeek(t, tz) OBVIOUS
<1>9. week = n \div 7 + 1
  <2>1. tz = "utc" \/ Numbered(thursday, start)
    BY <1>1, <1>2 DEF WeeksNumbered, Zones
  <2> QED BY <1>1, <1>2, <1>5, <1>6, <1>7, <1>8, <2>1, IsoWeekBounds
<1>10. PICK w : w = ThisWeek(t, tz) OBVIOUS
<1>11. Spans(w, thursday - 3, thursday + 4) /\ w.tz = tz BY <1>1, <1>10, ThisWeekIs
<1>12. PICK a \in Int : a = thursday - 3 BY <1>5
<1>13. PICK b \in Int : b = thursday + 4 BY <1>5
<1>14. w.from = Midnight(a, tz) /\ w.to = Midnight(b, tz) /\ \A e \in a - 2 .. b + 2 : Known(e)
  BY <1>11, <1>12, <1>13 DEF Spans
<1>15. a <= d /\ d + 1 <= b /\ b = a + 7 /\ d \in Int BY <1>5, <1>6, <1>12, <1>13
<1>16. w.from <= t /\ t < w.to
  <2>1. Known(a) /\ Known(d) /\ Known(d + 1) /\ Known(b)
    <3>1. a \in a - 2 .. b + 2 /\ d \in a - 2 .. b + 2 /\ d + 1 \in a - 2 .. b + 2 /\ b \in a - 2 .. b + 2
      BY <1>15
    <3> QED BY <1>14, <3>1
  <2>2. PICK from : from = Midnight(a, tz) OBVIOUS
  <2>3. PICK x : x = Midnight(d, tz) OBVIOUS
  <2>4. PICK y : y = Midnight(d + 1, tz) OBVIOUS
  <2>5. PICK to : to = Midnight(b, tz) OBVIOUS
  <2>6. from \in Int /\ x \in Int /\ y \in Int /\ to \in Int BY <2>1, <2>2, <2>3, <2>4, <2>5, MidnightIs
  <2>7. a < d => from < x BY <2>1, <2>2, <2>3, MidnightsInOrder
  <2>8. d + 1 < b => y < to BY <2>1, <2>4, <2>5, MidnightsInOrder
  <2>9. a = d => from = x BY <2>2, <2>3
  <2>10. d + 1 = b => y = to BY <2>4, <2>5
  <2>11. x <= t /\ t < y BY <1>5, <2>3, <2>4 DEF InDay
  <2>12. from <= t /\ t < to BY <1>6, <1>15, <2>6, <2>7, <2>8, <2>9, <2>10, <2>11
  <2> QED BY <1>14, <2>2, <2>5, <2>12
<1>17. ValidWeek(IsoWeekYear(t, tz), IsoWeek(t, tz), tz)
  <2>1. w.from = Midnight(WeekFrom(IsoWeekYear(t, tz), week), tz)
    BY <1>8, <1>10 DEF ThisWeek, ParseWeek, Window
  <2>2. PICK from : from = w.from OBVIOUS
  <2>3. DayOf(from, tz) = a
    <3>1. \A e \in a - 2 .. a + 2 : e \in a - 2 .. b + 2 BY <1>15
    <3>2. \A e \in a - 2 .. a + 2 : Known(e) BY <1>14, <3>1
    <3> QED BY <1>14, <2>2, <3>2, DayOfMidnight
  <2>4. Thursday(from, tz) = thursday
    <3>1. a + 3 = thursday /\ a + 4 - (0 + 1) = thursday BY <1>5, <1>12
    <3>2. Weekday(a) = 0 + 1 BY <1>5, <3>1 DEF Weekday
    <3>3. Thursday(from, tz) = a + 4 - Weekday(a) BY <2>3 DEF Thursday
    <3> QED BY <3>1, <3>2, <3>3
  <2>5. IsoWeek(from, tz) = week BY <1>1, <1>8, <2>4 DEF IsoWeek
  <2>6. IsoWeekYear(from, tz) = IsoWeekYear(t, tz) BY <1>1, <2>4 DEF IsoWeekYear
  <2>7. week \in 1 .. 53
    <3>1. n \in 0 .. 365 BY <1>5, <1>7
    <3> QED BY <1>9, <3>1
  <2> QED BY <1>8, <2>1, <2>2, <2>5, <2>6, <2>7 DEF ValidWeek
<1>18. PICK v : v = Today(t, tz) OBVIOUS
<1>19. v.from <= t /\ t < v.to BY <1>18, TodayIs
<1> QED BY <1>10, <1>16, <1>17, <1>18, <1>19

(* The buckets of the calls, and the calls of each model, are all the calls. *)
LEMMA SpendIs ==
  ASSUME HooksInv, NEW w, NEW groupBy, ~SpendRollup(w, groupBy).truncated
  PROVE  /\ SpendRollup(w, groupBy).calls = Total(LlmUsage(w))
         /\ SpendRollup(w, groupBy).cost = Cost(OfType(w, "prompt.response"))
<1>1. PICK calls : calls = OfType(w, "prompt.response") OBVIOUS
<1>2. IsFiniteSet(calls)
  <2>1. Rows(calls) BY <1>1 DEF Rows, OfType, InWindow
  <2>2. Len(log) \in Nat /\ Indices(calls, Len(log)) BY <2>1, RowsAre
  <2> QED BY <2>2, FiniteRows
<1> DEFINE key == [i \in calls |-> SpendBucket(i, groupBy)]
           buckets == {SpendBucket(i, groupBy) : i \in calls}
           in(b) == {i \in calls : SpendBucket(i, groupBy) = b}
<1>3. IsFiniteSet(buckets) /\ Cardinality(buckets) \in Nat
  <2>1. key \in Surjection(calls, buckets)
    <3>1. \A b \in buckets : \E i \in calls : key[i] = b OBVIOUS
    <3>2. key \in [calls -> buckets] OBVIOUS
    <3> HIDE DEF key, buckets
    <3> QED BY <3>1, <3>2 DEF Surjection
  <2> HIDE DEF key, buckets
  <2> QED BY <1>2, <2>1, FS_Surjection, FS_CardinalityType
<1>4. Cardinality(buckets) <= SpendLimit
  <2>1. ~(Cardinality(buckets) > SpendLimit) BY <1>1 DEF SpendRollup
  <2> HIDE DEF buckets
  <2> QED BY <1>3, <2>1, ReportsAssumption
<1>5. UNION {in(b) : b \in buckets} = calls
  <2>1. \A i \in calls : i \in in(SpendBucket(i, groupBy)) /\ SpendBucket(i, groupBy) \in buckets OBVIOUS
  <2>2. \A b : in(b) \subseteq calls OBVIOUS
  <2> HIDE DEF in, buckets
  <2> QED BY <2>1, <2>2
<1>6. /\ SpendRollup(w, groupBy).calls = Cardinality(UNION {in(b) : b \in buckets})
      /\ SpendRollup(w, groupBy).cost = Cost(UNION {in(b) : b \in buckets})
  BY <1>1, <1>4 DEF SpendRollup
<1>7. Total(LlmUsage(w)) = Cardinality(calls)
  <2>1. PICK h : h = [i \in calls |-> log[i].model] OBVIOUS
  <2>2. PICK count : count = LlmUsage(w) OBVIOUS
  <2>3. count = [k \in {h[i] : i \in calls} |-> Cardinality(Class(calls, h, k))]
    <3>1. {h[i] : i \in calls} = {log[i].model : i \in calls} BY <2>1
    <3>2. \A k : Class(calls, h, k) = {i \in calls : log[i].model = k} BY <2>1 DEF Class
    <3> QED BY <1>1, <2>2, <3>1, <3>2 DEF LlmUsage, CountBy
  <2>4. h = [i \in calls |-> h[i]] BY <2>1
  <2> QED BY <1>2, <2>2, <2>3, <2>4, TotalIs
<1> HIDE DEF in, buckets
<1> QED BY <1>1, <1>5, <1>6, <1>7

LEMMA TotalsAgreeIs ==
  ASSUME WeeksNumbered
  PROVE  HooksInv => TotalsAgree
<1> SUFFICES ASSUME HooksInv PROVE TotalsAgree
  OBVIOUS
<1>1. \A w \in WeeklyWindows :
       LET monday == DayOf(w.from, w.tz)
       IN  \A i \in DOMAIN log :
             Cardinality({k \in 0..6 : Holds(ParseDate(monday + k, w.tz), log[i].at)})
               = IF Holds(w, log[i].at) THEN 1 ELSE 0
  BY WeeksByDays
<1>2. \A w \in Windows, groupBy \in {"model", "session", "day"} :
       LET spend == SpendRollup(w, groupBy)
       IN  ~spend.truncated => /\ spend.calls = Total(LlmUsage(w))
                               /\ spend.cost = Cost(OfType(w, "prompt.response"))
  BY SpendIs
<1>3. now \in Instants BY DEF HooksInv, HooksTypeOK
<1>4. \A tz \in Zones :
       /\ ValidWeek(IsoWeekYear(now, tz), IsoWeek(now, tz), tz)
       /\ \A w \in {Today(now, tz), ThisWeek(now, tz)} : w.from <= now /\ now < w.to
  BY <1>3, NowHeld
<1> QED BY <1>1, <1>2, <1>4 DEF TotalsAgree

(* Seven daily reports have the rows of the weekly one, each once; however   *)
(* spend is grouped, its total is the same; and the default day and week are *)
(* valid and hold now: wherever isoWeek gives the week its number.           *)
THEOREM TotalsAlwaysAgree ==
  ASSUME WeeksNumbered
  PROVE  HooksSpec => []TotalsAgree
BY HooksInductive, TotalsAgreeIs, PTL
=============================================================================
