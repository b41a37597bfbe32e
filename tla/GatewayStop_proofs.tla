------------------------- MODULE GatewayStop_proofs -------------------------
(* What holds of the limiter and the stop capture for any threshold, buffer *)
(* capacity and number of events.                                           *)
EXTENDS GatewayStop, TLAPS, FiniteSetTheorems, SequenceTheorems, WellFoundedInduction

(* Every action of the limiter keeps the timer as long as something waits.  *)
LEMMA LimiterStep ==
  ASSUME NeverStuck,
         \/ \E t \in Types : AppendInsert(t)
         \/ DrainBuffer \/ SecondPasses \/ FlushAndClose \/ ProcessEnds
  PROVE  NeverStuck'
<1>1. ASSUME NEW t \in Types, AppendInsert(t) PROVE NeverStuck'
  <2>1. CASE WriteThrough(Raw(t))
    BY <2>1 DEF WriteThrough, NeverStuck
  <2>2. CASE Buffer(Raw(t))
    BY <2>2 DEF Buffer, Enqueue, NeverStuck
  <2> QED  BY <1>1, <2>1, <2>2 DEF AppendInsert
<1>2. CASE DrainBuffer
  BY <1>2 DEF DrainBuffer, NeverStuck
<1>3. CASE SecondPasses
  BY <1>3 DEF SecondPasses, NeverStuck
<1>4. CASE FlushAndClose
  BY <1>4 DEF FlushAndClose, NeverStuck
<1>5. CASE ProcessEnds
  BY <1>5 DEF ProcessEnds, NeverStuck
<1> QED  BY <1>1, <1>2, <1>3, <1>4, <1>5

LEMMA NeverStuckStep == NeverStuck /\ [StopNext]_allVars => NeverStuck'
<1> SUFFICES ASSUME NeverStuck, [StopNext]_allVars PROVE NeverStuck'
  OBVIOUS
<1>1. CASE StopHook
  BY <1>1, LimiterStep, StopAssumption DEF StopHook, StopAssumption
<1>2. ASSUME NEW sig \in Signals, CaptureSignal(sig) PROVE NeverStuck'
  <2>1. UNCHANGED <<buffer, draining>>
    BY <1>2 DEF CaptureSignal, WriteDirectly, vars
  <2> QED  BY <2>1 DEF NeverStuck
<1>3. CASE StopRetention
  BY <1>3, LimiterStep DEF StopRetention
<1>4. CASE Unrelated
  BY <1>4, LimiterStep DEF Unrelated
<1>5. CASE UNCHANGED allVars
  BY <1>5 DEF allVars, vars, NeverStuck
<1> QED  BY <1>1, <1>2, <1>3, <1>4, <1>5 DEF StopNext

(* A buffered event always has a timer that will drain it. *)
THEOREM NothingIsStuck == StopSpec => []NeverStuck
<1>1. StopInit => NeverStuck
  BY DEF StopInit, Init, NeverStuck
<1> QED  BY <1>1, NeverStuckStep, PTL DEF StopSpec

-----------------------------------------------------------------------------
(* Sequences of inserts. *)

(* The rows r after the inserts of s at the positions kept have been added. *)
Stored(r, s, at) == r \o [k \in DOMAIN at |-> s[at[k]]]

LEMMA StoredEntries ==
  ASSUME NEW r \in Seq(Insert), NEW s \in Seq(Insert), NEW kept \in SUBSET DOMAIN s,
         NEW at \in Listing(kept)
  PROVE  /\ Stored(r, s, at) \in Seq(Insert)
         /\ \A i \in DOMAIN r : i \in DOMAIN Stored(r, s, at) /\ Stored(r, s, at)[i] = r[i]
         /\ \A k \in kept : \E i \in DOMAIN Stored(r, s, at) : Stored(r, s, at)[i] = s[k]
         /\ \A i \in DOMAIN Stored(r, s, at) \ DOMAIN r :
              /\ i - Len(r) \in DOMAIN at /\ at[i - Len(r)] \in kept
              /\ Stored(r, s, at)[i] = s[at[i - Len(r)]]
<1> DEFINE new == [k \in DOMAIN at |-> s[at[k]]]
           q   == Stored(r, s, at)
<1>1. Cardinality(kept) \in Nat
  <2>1. IsFiniteSet(DOMAIN s)
    BY FS_Interval
  <2> QED BY <2>1, FS_Subset, FS_CardinalityType
<1>2. PICK n \in Nat : n = Cardinality(kept)
  BY <1>1
<1>3. /\ at \in [1 .. n -> kept] /\ DOMAIN at = 1 .. n
      /\ \A k \in kept : \E i \in DOMAIN at : at[i] = k
  BY <1>2 DEF Listing
<1>4. new \in Seq(Insert) /\ Len(new) = n /\ \A i \in 1 .. n : new[i] = s[at[i]]
  <2>1. \A i \in 1 .. n : s[at[i]] \in Insert
    BY <1>3
  <2>2. new \in [1 .. n -> Insert]
    BY <1>3, <2>1
  <2> QED BY <1>3, <2>2
<1>5. /\ q \in Seq(Insert) /\ Len(q) = Len(r) + n /\ DOMAIN q = 1 .. Len(r) + n
      /\ \A i \in 1 .. Len(r) + n : q[i] = IF i <= Len(r) THEN r[i] ELSE new[i - Len(r)]
  <2> HIDE DEF new
  <2>1. q = r \o new
    BY DEF Stored, new
  <2>2. q \in Seq(Insert) /\ Len(q) = Len(r) + n
    BY <1>4, <2>1, ConcatProperties
  <2>3. \A i \in 1 .. Len(r) + n : q[i] = IF i <= Len(r) THEN r[i] ELSE new[i - Len(r)]
    BY <1>4, <2>1, ConcatProperties
  <2>4. DOMAIN q = 1 .. Len(q)
    BY <2>2
  <2> QED BY <2>2, <2>3, <2>4
<1> HIDE DEF new, q
<1>6. ASSUME NEW i \in DOMAIN r PROVE i \in DOMAIN q /\ q[i] = r[i]
  BY <1>5
<1>7. ASSUME NEW k \in kept PROVE \E i \in DOMAIN q : q[i] = s[k]
  <2>1. PICK j \in 1 .. n : at[j] = k
    BY <1>3
  <2>2. /\ Len(r) + j \in 1 .. Len(r) + n /\ ~(Len(r) + j <= Len(r))
        /\ (Len(r) + j) - Len(r) = j
    OBVIOUS
  <2>3. q[Len(r) + j] = new[j]
    BY <1>5, <2>2
  <2> QED BY <1>4, <1>5, <2>1, <2>2, <2>3
<1>8. ASSUME NEW i \in DOMAIN q \ DOMAIN r
      PROVE  i - Len(r) \in DOMAIN at /\ at[i - Len(r)] \in kept /\ q[i] = s[at[i - Len(r)]]
  <2>1. i \in 1 .. Len(r) + n /\ ~(i <= Len(r)) /\ i - Len(r) \in 1 .. n
    BY <1>5
  <2> QED BY <1>3, <1>4, <1>5, <2>1
<1> QED BY <1>5, <1>6, <1>7, <1>8 DEF q

(* What a store keeps stands for the events of s that it did not refuse.    *)
LEMMA StoredSound ==
  ASSUME NEW k, NEW r \in Seq(Insert), NEW s \in Seq(Insert), NEW kept \in SUBSET DOMAIN s,
         NEW at \in Listing(kept),
         Sound(k, r), Sound(k, s), Apart(r), Apart(s), Covered(r) \cap Covered(s) = {}
  PROVE  LET refused == UNION {s[i].covers : i \in DOMAIN s \ kept}
         IN  /\ Sound(k, Stored(r, s, at)) /\ Apart(Stored(r, s, at))
             /\ Covered(Stored(r, s, at)) = Covered(r) \cup (Covered(s) \ refused)
             /\ refused \subseteq Covered(s)
<1> DEFINE q == Stored(r, s, at)
           refused == UNION {s[i].covers : i \in DOMAIN s \ kept}
<1>1. /\ \A i \in DOMAIN r : i \in DOMAIN q /\ q[i] = r[i]
      /\ \A j \in kept : \E i \in DOMAIN q : q[i] = s[j]
      /\ \A i \in DOMAIN q \ DOMAIN r :
           /\ i - Len(r) \in DOMAIN at /\ at[i - Len(r)] \in kept
           /\ q[i] = s[at[i - Len(r)]]
      /\ DOMAIN q \subseteq Int
  BY StoredEntries
<1> HIDE DEF q
<1>2. Sound(k, q)
  <2>1. ASSUME NEW i \in DOMAIN q
        PROVE  (\E j \in DOMAIN r : q[i] = r[j]) \/ (\E j \in DOMAIN s : q[i] = s[j])
    BY <1>1
  <2> QED BY <2>1 DEF Sound
<1>3. Apart(q)
  <2> SUFFICES ASSUME NEW i \in DOMAIN q, NEW j \in DOMAIN q, i # j
               PROVE  q[i].covers \cap q[j].covers = {}
    BY DEF Apart
  <2>1. ASSUME NEW m \in DOMAIN r PROVE q[m].covers \subseteq Covered(r)
    BY <1>1 DEF Covered
  <2>2. ASSUME NEW m \in DOMAIN q \ DOMAIN r PROVE q[m].covers \subseteq Covered(s)
    BY <1>1 DEF Covered
  <2>3. CASE i \in DOMAIN r /\ j \in DOMAIN r
    BY <1>1, <2>3 DEF Apart
  <2>4. CASE i \notin DOMAIN r /\ j \notin DOMAIN r
    <3>1. i - Len(r) # j - Len(r)
      BY <1>1
    <3>2. at[i - Len(r)] # at[j - Len(r)]
      <4>1. \A a, b \in DOMAIN at : a < b => at[a] < at[b]
        BY DEF Listing
      <4>2. /\ i - Len(r) \in DOMAIN at /\ j - Len(r) \in DOMAIN at
            /\ at[i - Len(r)] \in Int /\ at[j - Len(r)] \in Int
        BY <1>1, <2>4
      <4> QED BY <1>1, <3>1, <4>1, <4>2
    <3> QED BY <1>1, <2>4, <3>2 DEF Apart
  <2>5. CASE (i \in DOMAIN r) # (j \in DOMAIN r)
    BY <2>1, <2>2, <2>5
  <2> QED BY <2>3, <2>4, <2>5
<1>4. refused \subseteq Covered(s)
  BY DEF Covered
<1>5. ASSUME NEW e \in Covered(q) PROVE e \in Covered(r) \cup (Covered(s) \ refused)
  <2>1. PICK i \in DOMAIN q : e \in q[i].covers
    BY DEF Covered
  <2>2. CASE i \in DOMAIN r
    BY <1>1, <2>1, <2>2 DEF Covered
  <2>3. CASE i \notin DOMAIN r
    <3>1. PICK j \in kept : q[i] = s[j]
      BY <1>1, <2>3
    <3>2. \A m \in DOMAIN s \ kept : e \notin s[m].covers
      BY <2>1, <3>1 DEF Apart
    <3> QED BY <2>1, <3>1, <3>2 DEF Covered
  <2> QED BY <2>2, <2>3
<1>6. ASSUME NEW e \in Covered(r) PROVE e \in Covered(q)
  BY <1>1 DEF Covered
<1>7. ASSUME NEW e \in Covered(s), e \notin refused PROVE e \in Covered(q)
  <2>1. PICK j \in DOMAIN s : e \in s[j].covers
    BY DEF Covered
  <2>2. j \in kept
    BY <1>7, <2>1
  <2> QED BY <1>1, <2>1, <2>2 DEF Covered
<1>8. Covered(q) = Covered(r) \cup (Covered(s) \ refused)
  BY <1>5, <1>6, <1>7
<1> QED BY <1>2, <1>3, <1>4, <1>8 DEF q

(* One more event of the log and one more insert behind the others. *)
LEMMA MoreKinds ==
  ASSUME NEW k \in Seq(Types), NEW t \in Types, NEW s \in Seq(Insert), Sound(k, s)
  PROVE  Sound(Append(k, t), s) /\ Covered(s) \subseteq DOMAIN k
<1>1. \A e \in DOMAIN k : e \in DOMAIN Append(k, t) /\ Append(k, t)[e] = k[e]
  OBVIOUS
<1> QED BY <1>1 DEF Sound, Covered

LEMMA OneEntry ==
  ASSUME NEW k \in Seq(Types), NEW t \in Types
  PROVE  LET x == [type |-> t, covers |-> {Len(k) + 1}]
         IN  /\ x \in Insert /\ <<x>> \in Seq(Insert) /\ Sound(Append(k, t), <<x>>)
             /\ Apart(<<x>>) /\ Covered(<<x>>) = {Len(k) + 1}
             /\ \A s \in Seq(Insert) : Sound(k, s) => Covered(s) \cap Covered(<<x>>) = {}
<1> DEFINE x == [type |-> t, covers |-> {Len(k) + 1}]
<1>1. x \in Insert /\ DOMAIN <<x>> = {1} /\ <<x>>[1] = x
  BY DEF Insert
<1>2. Len(k) + 1 \in DOMAIN Append(k, t) /\ Append(k, t)[Len(k) + 1] = t
  OBVIOUS
<1>3. x.type = t /\ x.covers = {Len(k) + 1}
  OBVIOUS
<1> DEFINE y == <<x>>
<1>4. y \in Seq(Insert) /\ DOMAIN y = {1} /\ y[1] = x
  BY <1>1
<1> HIDE DEF x, y
<1>5. Sound(Append(k, t), y)
  <2>1. \A i \in DOMAIN y : y[i].type = t /\ y[i].covers = {Len(k) + 1}
    BY <1>3, <1>4
  <2> HIDE DEF y
  <2>2. Sound(Append(k, t), y)
    BY <1>2, <2>1 DEF Sound
  <2> QED BY <2>2 DEF y
<1>6. Apart(y) /\ Covered(y) = {Len(k) + 1}
  BY <1>3, <1>4 DEF Apart, Covered
<1>7. \A s \in Seq(Insert) : Sound(k, s) => Covered(s) \cap Covered(y) = {}
  <2>1. Len(k) + 1 \notin DOMAIN k
    OBVIOUS
  <2> QED BY <1>6, <2>1 DEF Sound, Covered
<1> QED BY <1>1, <1>4, <1>5, <1>6, <1>7 DEF x, y

(* A set of numbers that is not empty has a least one. *)
LEMMA LeastNat ==
  ASSUME NEW S \in SUBSET Nat, S # {}
  PROVE  \E n \in S : \A m \in S : n <= m
<1>1. PICK x \in S : \A y \in S : ~(<<y, x>> \in OpToRel(<, Nat))
  BY NatLessThanWellFounded, WFMin
<1>2. \A y \in S : ~(y < x)
  BY <1>1 DEF OpToRel
<1> QED BY <1>2

(* Every insert of a buffer is in the run of exactly one start. *)
LEMMA RunCovers ==
  ASSUME NEW b \in Seq(Insert), NEW j \in DOMAIN b
  PROVE  \E i \in Starts(b) : j \in RunOf(b, i)
<1> DEFINE D == {d \in Nat : d < j /\ j - d \in Starts(b)}
<1>1. j \in Nat /\ 1 <= j /\ j <= Len(b) /\ Len(b) \in Nat
  OBVIOUS
<1>2. j - 1 \in D
  <2>1. 1 \in Starts(b)
    BY <1>1 DEF Starts
  <2> QED BY <1>1, <2>1
<1>3. PICK d \in D : \A x \in D : d <= x
  <2>1. D \in SUBSET Nat /\ D # {}
    BY <1>2
  <2> HIDE DEF D
  <2> QED BY <2>1, LeastNat
<1>4. d \in Nat /\ d < j /\ j - d \in Starts(b)
  OBVIOUS
<1>5. ASSUME NEW h \in (j - d) + 1 .. j PROVE h \notin Starts(b)
  <2> SUFFICES ASSUME h \in Starts(b) PROVE FALSE
    OBVIOUS
  <2>1. j - h \in Nat /\ j - h < j /\ j - (j - h) = h /\ j - h < d
    BY <1>1, <1>4
  <2>2. j - h \in D
    BY <2>1
  <2> HIDE DEF D
  <2> QED BY <1>3, <1>4, <2>1, <2>2
<1>6. j \in RunOf(b, j - d)
  BY <1>1, <1>4, <1>5 DEF RunOf
<1> QED BY <1>4, <1>6

LEMMA RunsApart ==
  ASSUME NEW b \in Seq(Insert), NEW i \in Starts(b), NEW j \in Starts(b), i < j,
         NEW p \in RunOf(b, i), NEW q \in RunOf(b, j)
  PROVE  p < q
<1>1. i \in Nat /\ j \in Nat /\ p \in Nat /\ q \in Nat /\ j <= q /\ i <= p
  BY DEF Starts, RunOf
<1>2. ~(j <= p)
  <2>1. j <= p => j \in i + 1 .. p
    BY <1>1
  <2> QED BY <2>1 DEF RunOf
<1> QED BY <1>1, <1>2

(* All inserts of a run are of one type, and not of a full-fidelity one     *)
(* when there are several: the first that differs would start a run.        *)
LEMMA RunOneType ==
  ASSUME NEW b \in Seq(Insert), NEW i \in Starts(b), NEW j \in RunOf(b, i)
  PROVE  b[j].type = b[i].type /\ (j # i => b[i].type \notin Full)
<1> DEFINE W == {m \in RunOf(b, i) : b[m].type # b[i].type}
<1>1. /\ i \in DOMAIN b /\ i \in Nat /\ Len(b) \in Nat
      /\ \A m \in RunOf(b, i) : m \in DOMAIN b /\ m \in Nat /\ i <= m
  BY DEF Starts, RunOf
<1>2. ASSUME NEW m \in RunOf(b, i), m # i
      PROVE  m - 1 \in RunOf(b, i) /\ Joins(b[m - 1], b[m])
  <2>1. m \in i + 1 .. m /\ m \notin Starts(b) /\ m \in DOMAIN b /\ m # 1
    BY <1>1, <1>2 DEF RunOf, Starts
  <2>2. m - 1 \in i .. Len(b) /\ \A h \in i + 1 .. m - 1 : h \in i + 1 .. m
    BY <1>1, <1>2
  <2> QED BY <2>1, <2>2 DEF RunOf, Starts
<1>3. W = {}
  <2> SUFFICES ASSUME W # {} PROVE FALSE
    OBVIOUS
  <2>1. W \in SUBSET Nat
    BY <1>1
  <2>2. PICK m \in W : \A x \in W : m <= x
    <3> HIDE DEF W
    <3> QED BY <2>1, LeastNat
  <2>3. m \in RunOf(b, i) /\ b[m].type # b[i].type /\ m # i /\ m \in Nat
    BY <2>1
  <2>4. m - 1 \in RunOf(b, i) /\ b[m].type = b[m - 1].type
    BY <1>2, <2>3 DEF Joins
  <2>5. m - 1 \in W
    BY <2>3, <2>4
  <2> HIDE DEF W
  <2> QED BY <2>2, <2>3, <2>5
<1>4. b[j].type = b[i].type
  BY <1>3
<1>5. j # i => b[i].type \notin Full
  BY <1>2, <1>4 DEF Joins
<1> QED BY <1>4, <1>5

(* Coalescing keeps the order and the types, and covers the same events.    *)
LEMMA CoalescedSound ==
  ASSUME NEW k \in Seq(Types), NEW b \in Seq(Insert), Sound(k, b), Rising(b),
         NEW starts \in Listing(Starts(b))
  PROVE  LET c == Coalesced(b, starts)
         IN  /\ c \in Seq(Insert) /\ Sound(k, c) /\ Rising(c) /\ Covered(c) = Covered(b)
<1> DEFINE c == Coalesced(b, starts)
<1>1. Cardinality(Starts(b)) \in Nat
  <2>1. IsFiniteSet(DOMAIN b) /\ Starts(b) \in SUBSET DOMAIN b
    BY FS_Interval DEF Starts
  <2> QED BY <2>1, FS_Subset, FS_CardinalityType
<1>2. PICK n \in Nat : n = Cardinality(Starts(b))
  BY <1>1
<1>3. /\ starts \in [1 .. n -> Starts(b)] /\ DOMAIN starts = 1 .. n
      /\ \A x, y \in 1 .. n : x < y => starts[x] < starts[y]
      /\ \A i \in Starts(b) : \E x \in 1 .. n : starts[x] = i
  BY <1>2 DEF Listing
<1>4. /\ DOMAIN c = 1 .. n
      /\ \A x \in 1 .. n : /\ c[x] = Summary(b, starts[x]) /\ starts[x] \in Starts(b)
                           /\ starts[x] \in DOMAIN b
  BY <1>3 DEF Coalesced, Starts
<1>5. ASSUME NEW i \in Starts(b)
      PROVE  /\ Summary(b, i) \in Insert /\ Summary(b, i).type = b[i].type
             /\ Summary(b, i).covers = UNION {b[j].covers : j \in RunOf(b, i)}
             /\ RunOf(b, i) \subseteq DOMAIN b /\ i \in RunOf(b, i) /\ i \in DOMAIN b
  <2>1. i \in DOMAIN b /\ i \in Nat /\ i <= Len(b)
    BY DEF Starts
  <2>2. RunOf(b, i) \subseteq DOMAIN b /\ i \in RunOf(b, i)
    BY <2>1 DEF RunOf
  <2>3. b[i].type \in Types /\ \A j \in DOMAIN b : b[j].covers \in SUBSET Nat
    <3>1. \A j \in DOMAIN b : b[j] \in Insert
      OBVIOUS
    <3> QED BY <2>1, <3>1 DEF Insert
  <2> QED BY <2>1, <2>2, <2>3 DEF Summary, Insert
<1>6. c \in Seq(Insert)
  <2>1. \A x \in 1 .. n : c[x] \in Insert
    BY <1>4, <1>5
  <2>2. c = [x \in 1 .. n |-> c[x]]
    BY <1>3 DEF Coalesced
  <2> HIDE DEF c
  <2>3. c \in [1 .. n -> Insert]
    BY <2>1, <2>2
  <2> QED BY <2>3
<1> HIDE DEF c
<1>7. Sound(k, c)
  <2> SUFFICES ASSUME NEW x \in DOMAIN c
               PROVE  /\ c[x].covers # {}
                      /\ \A e \in c[x].covers : e \in DOMAIN k /\ k[e] = c[x].type
                      /\ c[x].type \in Full => \A e, f \in c[x].covers : e = f
    BY DEF Sound
  <2>1. PICK i \in Starts(b) : c[x] = Summary(b, i)
    BY <1>4
  <2>2. \A j \in RunOf(b, i) : /\ b[j].type = b[i].type /\ (j # i => b[i].type \notin Full)
                               /\ j \in DOMAIN b
    BY <1>5, RunOneType
  <2>3. c[x].covers # {}
    <3>1. PICK e : e \in b[i].covers
      BY <1>5 DEF Sound
    <3>2. e \in UNION {b[j].covers : j \in RunOf(b, i)}
      BY <1>5, <3>1
    <3> QED BY <1>5, <2>1, <3>2
  <2>4. \A e \in c[x].covers : e \in DOMAIN k /\ k[e] = c[x].type
    BY <1>5, <2>1, <2>2 DEF Sound
  <2>5. ASSUME c[x].type \in Full PROVE \A e, f \in c[x].covers : e = f
    <3>1. \A j \in RunOf(b, i) : j = i
      BY <1>5, <2>1, <2>2, <2>5
    <3>2. c[x].covers = b[i].covers
      BY <1>5, <2>1, <3>1
    <3> QED BY <1>5, <2>1, <2>5, <3>2 DEF Sound
  <2> QED BY <2>3, <2>4, <2>5
<1>8. Rising(c)
  <2> SUFFICES ASSUME NEW x \in DOMAIN c, NEW y \in DOMAIN c, x < y,
                      NEW p \in c[x].covers, NEW q \in c[y].covers
               PROVE  p < q
    BY DEF Rising
  <2>1. starts[x] < starts[y] /\ starts[x] \in Starts(b) /\ starts[y] \in Starts(b)
    BY <1>3, <1>4
  <2>2. PICK i \in RunOf(b, starts[x]) : p \in b[i].covers
    BY <1>4, <1>5
  <2>3. PICK j \in RunOf(b, starts[y]) : q \in b[j].covers
    BY <1>4, <1>5
  <2>4. i < j /\ i \in DOMAIN b /\ j \in DOMAIN b
    BY <1>5, <2>1, RunsApart
  <2> QED BY <2>2, <2>3, <2>4 DEF Rising
<1>9. Covered(c) = Covered(b)
  <2>1. ASSUME NEW e \in Covered(c) PROVE e \in Covered(b)
    <3>1. PICK i \in Starts(b) : e \in Summary(b, i).covers
      BY <1>4 DEF Covered
    <3> QED BY <1>5, <3>1 DEF Covered
  <2>2. ASSUME NEW e \in Covered(b) PROVE e \in Covered(c)
    <3>1. PICK j \in DOMAIN b : e \in b[j].covers
      BY DEF Covered
    <3>2. PICK i \in Starts(b) : j \in RunOf(b, i)
      BY RunCovers
    <3>3. PICK x \in 1 .. n : starts[x] = i
      BY <1>3
    <3>4. e \in c[x].covers
      BY <1>4, <1>5, <3>1, <3>2, <3>3
    <3> QED BY <1>4, <3>4 DEF Covered
  <2> QED BY <2>1, <2>2
<1> QED BY <1>6, <1>7, <1>8, <1>9 DEF c

(* What is appended to a buffer of older inserts comes last. *)
LEMMA BufferGrows ==
  ASSUME NEW k \in Seq(Types), NEW t \in Types, NEW b \in Seq(Insert), Sound(k, b), Rising(b)
  PROVE  LET x == [type |-> t, covers |-> {Len(k) + 1}]
         IN  /\ Append(b, x) \in Seq(Insert) /\ Sound(Append(k, t), Append(b, x))
             /\ Rising(Append(b, x)) /\ Covered(Append(b, x)) = Covered(b) \cup {Len(k) + 1}
<1> DEFINE x == [type |-> t, covers |-> {Len(k) + 1}]
           q == Append(b, x)
           n == Len(b) + 1
<1>1. x \in Insert /\ x.type = t /\ x.covers = {Len(k) + 1}
  BY DEF Insert
<1> HIDE DEF x
<1>2. /\ q \in Seq(Insert) /\ DOMAIN q = 1 .. n /\ q[n] = x /\ Len(b) \in Nat
      /\ \A i \in DOMAIN b : i \in DOMAIN q /\ q[i] = b[i] /\ i < n
      /\ \A i \in DOMAIN q : i = n \/ i \in DOMAIN b
  BY <1>1
<1> HIDE DEF q
<1>3. Len(k) \in Nat /\ \A e \in DOMAIN k : e < Len(k) + 1 /\ e \in Nat
  OBVIOUS
<1>4. Sound(Append(k, t), q)
  <2>1. Sound(Append(k, t), b)
    BY MoreKinds
  <2>2. Len(k) + 1 \in DOMAIN Append(k, t) /\ Append(k, t)[Len(k) + 1] = t
    OBVIOUS
  <2> SUFFICES ASSUME NEW i \in DOMAIN q
               PROVE  /\ q[i].covers # {}
                      /\ \A e \in q[i].covers :
                           e \in DOMAIN Append(k, t) /\ Append(k, t)[e] = q[i].type
                      /\ q[i].type \in Full => \A e, f \in q[i].covers : e = f
    BY DEF Sound
  <2>3. CASE i \in DOMAIN b
    BY <1>2, <2>1, <2>3 DEF Sound
  <2>4. CASE i = n
    BY <1>1, <1>2, <2>2, <2>4
  <2> QED BY <1>2, <2>3, <2>4
<1>5. Rising(q)
  <2> SUFFICES ASSUME NEW i \in DOMAIN q, NEW j \in DOMAIN q, i < j,
                      NEW p \in q[i].covers, NEW r \in q[j].covers
               PROVE  p < r
    BY DEF Rising
  <2>1. i \in DOMAIN b /\ p \in b[i].covers /\ p \in DOMAIN k
    <3>1. i \in DOMAIN b
      BY <1>2
    <3> QED BY <1>2, <3>1 DEF Sound
  <2>2. CASE j \in DOMAIN b
    BY <1>2, <2>1, <2>2 DEF Rising
  <2>3. CASE j = n
    BY <1>1, <1>2, <1>3, <2>1, <2>3
  <2> QED BY <1>2, <2>2, <2>3
<1>6. Covered(q) = Covered(b) \cup {Len(k) + 1}
  BY <1>1, <1>2 DEF Covered
<1> QED BY <1>2, <1>4, <1>5, <1>6 DEF q, x

(* The first n inserts of a buffer are older than the rest. *)
LEMMA BufferSplits ==
  ASSUME NEW k, NEW b \in Seq(Insert), NEW n \in 0 .. Len(b), Sound(k, b), Rising(b)
  PROVE  LET front == SubSeq(b, 1, n)
             rest  == SubSeq(b, n + 1, Len(b))
         IN  /\ front \in Seq(Insert) /\ Sound(k, front) /\ Rising(front)
             /\ rest \in Seq(Insert) /\ Sound(k, rest) /\ Rising(rest)
             /\ Covered(b) = Covered(front) \cup Covered(rest)
             /\ \A p \in Covered(front), q \in Covered(rest) : p < q
<1> DEFINE front == SubSeq(b, 1, n)
           rest  == SubSeq(b, n + 1, Len(b))
<1>1. /\ front \in Seq(Insert) /\ DOMAIN front = 1 .. n
      /\ \A i \in 1 .. n : front[i] = b[i] /\ i \in DOMAIN b /\ i \in Int
  OBVIOUS
<1>2. /\ rest \in Seq(Insert) /\ DOMAIN rest = 1 .. Len(b) - n
      /\ \A i \in 1 .. Len(b) - n : /\ rest[i] = b[n + i] /\ n + i \in DOMAIN b /\ i \in Int
                                    /\ n + i \in n + 1 .. Len(b)
  OBVIOUS
<1> HIDE DEF front, rest
<1>3. /\ n \in Int /\ Len(b) \in Nat
      /\ \A j \in DOMAIN b : \/ j \in 1 .. n
                             \/ j - n \in 1 .. Len(b) - n /\ n + (j - n) = j
  OBVIOUS
<1>4. Sound(k, front) /\ Sound(k, rest)
  <2>1. \A i \in DOMAIN front : \E j \in DOMAIN b : front[i] = b[j]
    BY <1>1
  <2>2. \A i \in DOMAIN rest : \E j \in DOMAIN b : rest[i] = b[j]
    BY <1>2
  <2>3. Sound(k, front)
    BY <2>1 DEF Sound
  <2>4. Sound(k, rest)
    BY <2>2 DEF Sound
  <2> QED BY <2>3, <2>4
<1>5. Rising(front)
  BY <1>1 DEF Rising
<1>6. Rising(rest)
  <2> SUFFICES ASSUME NEW i \in DOMAIN rest, NEW j \in DOMAIN rest, i < j,
                      NEW p \in rest[i].covers, NEW q \in rest[j].covers
               PROVE  p < q
    BY DEF Rising
  <2>1. n + i < n + j
    BY <1>2, <1>3
  <2> QED BY <1>2, <2>1 DEF Rising
<1>7. ASSUME NEW p \in Covered(front), NEW q \in Covered(rest) PROVE p < q
  <2>1. PICK i \in 1 .. n : p \in b[i].covers
    BY <1>1 DEF Covered
  <2>2. PICK j \in 1 .. Len(b) - n : q \in b[n + j].covers
    BY <1>2 DEF Covered
  <2>3. i < n + j
    BY <1>3
  <2> QED BY <1>1, <1>2, <2>1, <2>2, <2>3 DEF Rising
<1>8. Covered(b) = Covered(front) \cup Covered(rest)
  <2>1. ASSUME NEW e \in Covered(b) PROVE e \in Covered(front) \cup Covered(rest)
    <3>1. PICK j \in DOMAIN b : e \in b[j].covers
      BY DEF Covered
    <3>2. CASE j \in 1 .. n
      BY <1>1, <3>1, <3>2 DEF Covered
    <3>3. CASE j - n \in 1 .. Len(b) - n /\ n + (j - n) = j
      BY <1>2, <3>1, <3>3 DEF Covered
    <3> QED BY <1>3, <3>2, <3>3
  <2>2. Covered(front) \cup Covered(rest) \subseteq Covered(b)
    BY <1>1, <1>2 DEF Covered
  <2> QED BY <2>1, <2>2
<1> QED BY <1>1, <1>2, <1>4, <1>5, <1>6, <1>7, <1>8 DEF front, rest

(* In a rising buffer no event is in two inserts. *)
LEMMA RisingApart ==
  ASSUME NEW s \in Seq(Insert), Rising(s)
  PROVE  Apart(s)
<1> SUFFICES ASSUME NEW i \in DOMAIN s, NEW j \in DOMAIN s, i < j,
                    NEW e \in s[i].covers, e \in s[j].covers
             PROVE  FALSE
  BY DEF Apart
<1>1. e < e
  BY DEF Rising
<1>2. e \in Nat
  <2>1. s[i] \in Insert
    OBVIOUS
  <2> QED BY <2>1 DEF Insert
<1> QED BY <1>1, <1>2

-----------------------------------------------------------------------------
(* The steps of the limiter, and what they do to the stream of events.      *)

LEMMA StoreStep ==
  ASSUME NEW k, NEW s \in Seq(Insert), rows \in Seq(Insert), refusals \in Nat,
         Sound(k, rows), Sound(k, s), Apart(rows), Apart(s),
         Covered(rows) \cap Covered(s) = {}, StoreAll(s)
  PROVE  /\ rows' \in Seq(Insert) /\ Sound(k, rows') /\ Apart(rows') /\ refusals' \in Nat
         /\ \E L \in SUBSET Covered(s) :
              Covered(rows') = Covered(rows) \cup (Covered(s) \ L) /\ lost' = lost \cup L
<1>0. PICK kept \in SUBSET DOMAIN s : \E at \in Listing(kept) :
        /\ IF process = "running" THEN refusals' = refusals + Cardinality(DOMAIN s \ kept)
                                  ELSE kept = {} /\ UNCHANGED refusals
        /\ rows' = rows \o [n \in DOMAIN at |-> s[at[n]]]
        /\ lost' = lost \cup UNION {s[i].covers : i \in DOMAIN s \ kept}
  BY DEF StoreAll
<1>1. PICK at \in Listing(kept) :
        /\ IF process = "running" THEN refusals' = refusals + Cardinality(DOMAIN s \ kept)
                                  ELSE kept = {} /\ UNCHANGED refusals
        /\ rows' = rows \o [n \in DOMAIN at |-> s[at[n]]]
        /\ lost' = lost \cup UNION {s[i].covers : i \in DOMAIN s \ kept}
  BY <1>0
<1>2. rows' = Stored(rows, s, at)
  BY <1>1 DEF Stored
<1>3. rows' \in Seq(Insert)
  BY <1>2, StoredEntries
<1>4. refusals' \in Nat
  <2>1. IsFiniteSet(DOMAIN s)
    BY FS_Interval
  <2>2. Cardinality(DOMAIN s \ kept) \in Nat
    BY <2>1, FS_Subset, FS_CardinalityType
  <2> QED BY <1>1, <2>2
<1>5. PICK L : L = UNION {s[i].covers : i \in DOMAIN s \ kept}
  OBVIOUS
<1>6. PICK r : r = rows
  OBVIOUS
<1>7. /\ Sound(k, Stored(r, s, at)) /\ Apart(Stored(r, s, at))
      /\ Covered(Stored(r, s, at)) = Covered(r) \cup (Covered(s) \ L) /\ L \subseteq Covered(s)
  BY <1>5, <1>6, StoredSound
<1> QED BY <1>1, <1>2, <1>3, <1>4, <1>5, <1>6, <1>7

(* Appending: the new event waits, is recorded when none waits, or is lost. *)
LEMMA AppendStep ==
  ASSUME LimiterInv, LimiterAssumption, NEW t \in Types, AppendInsert(t)
  PROVE  LET e == Len(kinds) + 1
         IN  /\ LimiterInv'
             /\ \/ /\ Covered(buffer') = Covered(buffer) \cup {e}
                   /\ Covered(rows') = Covered(rows) /\ lost' = lost
                \/ /\ Covered(buffer) = {} /\ Covered(buffer') = {}
                   /\ Covered(rows') = Covered(rows) \cup {e} /\ lost' = lost
                \/ /\ Covered(buffer') = Covered(buffer) /\ Covered(rows') = Covered(rows)
                   /\ lost' = lost \cup {e}
<1> DEFINE e == Len(kinds) + 1
           x == Raw(t)
<1>1. PICK k \in Seq(Types) : k = kinds
  BY DEF LimiterInv, LimiterTypeOK
<1>2. PICK b \in Seq(Insert) : b = buffer
  BY DEF LimiterInv, LimiterTypeOK
<1>3. /\ x = [type |-> t, covers |-> {Len(k) + 1}] /\ e = Len(k) + 1
      /\ kinds' = Append(k, t) /\ Append(k, t) \in Seq(Types)
      /\ rows \in Seq(Insert) /\ refusals \in Nat /\ MaxPerSec \in Nat
      /\ Sound(k, rows) /\ Sound(k, b) /\ Apart(rows) /\ Rising(b)
      /\ Covered(rows) \cap Covered(b) = {} /\ lost \subseteq DOMAIN k
      /\ windowEvents \in 0 .. MaxPerSec /\ process' = process /\ stale' = FALSE
      /\ process \in {"running", "closed", "gone"} /\ draining \in BOOLEAN
  BY <1>1, <1>2, LimiterAssumption
     DEF LimiterInv, LimiterTypeOK, Raw, AppendInsert, LimiterAssumption
<1>4. Window \in 0 .. MaxPerSec
  BY <1>3 DEF Window
<1>5. DOMAIN Append(k, t) = DOMAIN k \cup {e} /\ e \notin DOMAIN k
  BY <1>3
<1>6. /\ Sound(kinds', rows) /\ Sound(kinds', b)
      /\ Covered(rows) \subseteq DOMAIN k /\ Covered(b) \subseteq DOMAIN k
  BY <1>3, MoreKinds
<1>7. /\ x \in Insert /\ <<x>> \in Seq(Insert) /\ Sound(kinds', <<x>>) /\ Apart(<<x>>)
      /\ Covered(<<x>>) = {e}
  BY <1>3, OneEntry
<1> HIDE DEF x, e
<1>8. CASE WriteThrough(x)
  <2>1. /\ b = <<>> /\ StoreAll(<<x>>) /\ buffer' = buffer /\ draining' = draining
        /\ windowEvents' \in 0 .. MaxPerSec
    BY <1>2, <1>3, <1>4, <1>8 DEF WriteThrough
  <2>2. PICK q : q = kinds'
    OBVIOUS
  <2>3. PICK y : y = <<x>>
    OBVIOUS
  <2>4. Covered(rows) \cap Covered(y) = {}
    BY <1>5, <1>6, <1>7, <2>3
  <2>5. /\ rows' \in Seq(Insert) /\ Sound(q, rows') /\ Apart(rows') /\ refusals' \in Nat
        /\ \E L \in SUBSET Covered(y) :
             Covered(rows') = Covered(rows) \cup (Covered(y) \ L) /\ lost' = lost \cup L
    BY <1>3, <1>6, <1>7, <2>1, <2>2, <2>3, <2>4, StoreStep
  <2>6. Covered(b) = {}
    BY <2>1 DEF Covered
  <2>7. \/ Covered(rows') = Covered(rows) \cup {e} /\ lost' = lost
        \/ Covered(rows') = Covered(rows) /\ lost' = lost \cup {e}
    <3>1. PICK L \in SUBSET {e} :
            Covered(rows') = Covered(rows) \cup ({e} \ L) /\ lost' = lost \cup L
      BY <1>7, <2>3, <2>5
    <3>2. L = {} \/ L = {e}
      OBVIOUS
    <3> QED BY <3>1, <3>2
  <2>8. lost' \subseteq DOMAIN kinds'
    BY <1>3, <1>5, <2>7
  <2>9. LimiterInv'
    BY <1>2, <1>3, <1>6, <2>1, <2>2, <2>5, <2>6, <2>8 DEF LimiterInv, LimiterTypeOK
  <2> QED BY <1>2, <2>1, <2>6, <2>7, <2>9 DEF e
<1>9. CASE Buffer(x)
  <2>1. /\ rows' = rows /\ refusals' = refusals /\ windowEvents' \in 0 .. MaxPerSec
        /\ draining' = TRUE
        /\ \/ buffer' = Append(b, x) /\ lost' = lost
           \/ \E starts \in Listing(Starts(b)) :
                \/ buffer' = Append(Coalesced(b, starts), x) /\ lost' = lost
                \/ buffer' = Coalesced(b, starts) /\ lost' = lost \cup x.covers
    BY <1>2, <1>4, <1>9 DEF Buffer, Enqueue
  <2>2. x.covers = {e}
    BY <1>3
  <2>3. ASSUME NEW c \in Seq(Insert), Sound(k, c), Rising(c), Covered(c) = Covered(b),
               buffer' = Append(c, x), lost' = lost
        PROVE  LimiterInv' /\ Covered(buffer') = Covered(buffer) \cup {e}
    <3>1. /\ buffer' \in Seq(Insert) /\ Sound(kinds', buffer') /\ Rising(buffer')
          /\ Covered(buffer') = Covered(b) \cup {e}
      BY <1>3, <2>3, BufferGrows
    <3>2. lost' \subseteq DOMAIN kinds' /\ Covered(rows') \cap Covered(buffer') = {}
      BY <1>3, <1>5, <1>6, <2>1, <2>3, <3>1
    <3> QED BY <1>2, <1>3, <1>6, <2>1, <3>1, <3>2 DEF LimiterInv, LimiterTypeOK
  <2>4. ASSUME NEW c \in Seq(Insert), Sound(k, c), Rising(c), Covered(c) = Covered(b),
               buffer' = c, lost' = lost \cup {e}
        PROVE  LimiterInv' /\ Covered(buffer') = Covered(buffer)
    <3>1. Sound(kinds', c)
      BY <1>3, <2>4, MoreKinds
    <3>2. lost' \subseteq DOMAIN kinds' /\ Covered(rows') \cap Covered(buffer') = {}
      BY <1>3, <1>5, <2>1, <2>4
    <3> QED BY <1>2, <1>3, <1>6, <2>1, <2>4, <3>1, <3>2 DEF LimiterInv, LimiterTypeOK
  <2>5. ASSUME NEW starts \in Listing(Starts(b))
        PROVE  /\ Coalesced(b, starts) \in Seq(Insert) /\ Sound(k, Coalesced(b, starts))
               /\ Rising(Coalesced(b, starts)) /\ Covered(Coalesced(b, starts)) = Covered(b)
    BY <1>3, CoalescedSound
  <2>6. CASE buffer' = Append(b, x) /\ lost' = lost
    BY <1>3, <2>1, <2>3, <2>6 DEF e
  <2>7. ASSUME NEW starts \in Listing(Starts(b)),
               buffer' = Append(Coalesced(b, starts), x) /\ lost' = lost
        PROVE  LimiterInv' /\ Covered(buffer') = Covered(buffer) \cup {e}
    BY <2>3, <2>5, <2>7
  <2>8. ASSUME NEW starts \in Listing(Starts(b)),
               buffer' = Coalesced(b, starts) /\ lost' = lost \cup x.covers
        PROVE  LimiterInv' /\ Covered(buffer') = Covered(buffer)
    BY <2>2, <2>4, <2>5, <2>8
  <2> QED BY <2>1, <2>2, <2>6, <2>7, <2>8 DEF e
<1> QED BY <1>8, <1>9 DEF AppendInsert, x

(* The oldest events of the buffer leave it, and those of L are lost. *)
Leaves(P, L) ==
  /\ P \subseteq Covered(buffer) /\ L \subseteq P
  /\ \A p \in P, q \in Covered(buffer) \ P : p < q
  /\ Covered(buffer') = Covered(buffer) \ P
  /\ Covered(rows') = Covered(rows) \cup (P \ L) /\ lost' = lost \cup L

LEMMA DrainStep ==
  ASSUME LimiterInv, LimiterAssumption, DrainBuffer
  PROVE  LimiterInv' /\ \E P, L : Leaves(P, L)
<1>1. PICK k \in Seq(Types) : k = kinds
  BY DEF LimiterInv, LimiterTypeOK
<1>2. PICK b \in Seq(Insert) : b = buffer
  BY DEF LimiterInv, LimiterTypeOK
<1>3. /\ rows \in Seq(Insert) /\ refusals \in Nat /\ MaxPerSec \in Nat
      /\ Sound(k, rows) /\ Sound(k, b) /\ Apart(rows) /\ Rising(b)
      /\ Covered(rows) \cap Covered(b) = {} /\ lost \subseteq DOMAIN k
      /\ windowEvents \in 0 .. MaxPerSec /\ process' = process /\ stale' = FALSE
      /\ process \in {"running", "closed", "gone"} /\ kinds' = k
  BY <1>1, <1>2, LimiterAssumption DEF LimiterInv, LimiterTypeOK, DrainBuffer, LimiterAssumption
<1>4. Window \in 0 .. MaxPerSec
  BY <1>3 DEF Window
<1>5. PICK n \in 0 .. Len(b) : n = Quota /\ Window + n \in 0 .. MaxPerSec
  <2>1. Len(b) \in Nat
    OBVIOUS
  <2> QED BY <1>2, <1>3, <1>4, <2>1 DEF Quota
<1>6. PICK front : front = SubSeq(b, 1, n)
  OBVIOUS
<1>7. PICK rest : rest = SubSeq(b, n + 1, Len(b))
  OBVIOUS
<1>8. /\ StoreAll(front) /\ buffer' = rest /\ windowEvents' \in 0 .. MaxPerSec
      /\ draining' \in BOOLEAN
  BY <1>2, <1>5, <1>6, <1>7 DEF DrainBuffer
<1>9. /\ front \in Seq(Insert) /\ Sound(k, front) /\ Rising(front)
      /\ rest \in Seq(Insert) /\ Sound(k, rest) /\ Rising(rest)
      /\ Covered(b) = Covered(front) \cup Covered(rest)
      /\ \A p \in Covered(front), q \in Covered(rest) : p < q
  BY <1>3, <1>6, <1>7, BufferSplits
<1>10. Covered(front) \cap Covered(rest) = {}
  <2>1. \A p \in Covered(rest) : p \in DOMAIN k
    BY <1>9, MoreKinds DEF Sound, Covered
  <2>2. \A p \in DOMAIN k : ~(p < p)
    OBVIOUS
  <2> QED BY <1>9, <2>1, <2>2
<1>11. Apart(front) /\ Covered(rows) \cap Covered(front) = {}
  BY <1>3, <1>9, RisingApart
<1>12. /\ rows' \in Seq(Insert) /\ Sound(k, rows') /\ Apart(rows') /\ refusals' \in Nat
       /\ \E L \in SUBSET Covered(front) :
            Covered(rows') = Covered(rows) \cup (Covered(front) \ L) /\ lost' = lost \cup L
  BY <1>3, <1>8, <1>9, <1>11, StoreStep
<1>13. PICK L \in SUBSET Covered(front) :
         Covered(rows') = Covered(rows) \cup (Covered(front) \ L) /\ lost' = lost \cup L
  BY <1>12
<1>14. Covered(front) \subseteq DOMAIN k
  BY <1>9 DEF Sound, Covered
<1>15. lost' \subseteq DOMAIN kinds' /\ Covered(rows') \cap Covered(buffer') = {}
  BY <1>3, <1>8, <1>9, <1>10, <1>13, <1>14
<1>16. LimiterInv'
  BY <1>3, <1>8, <1>9, <1>12, <1>15 DEF LimiterInv, LimiterTypeOK
<1>17. Leaves(Covered(front), L)
  BY <1>2, <1>8, <1>9, <1>10, <1>13 DEF Leaves
<1> QED BY <1>16, <1>17

LEMMA FlushStep ==
  ASSUME LimiterInv, FlushAndClose
  PROVE  LimiterInv' /\ \E P, L : Leaves(P, L)
<1>1. PICK k \in Seq(Types) : k = kinds
  BY DEF LimiterInv, LimiterTypeOK
<1>2. PICK b \in Seq(Insert) : b = buffer
  BY DEF LimiterInv, LimiterTypeOK
<1>3. /\ rows \in Seq(Insert) /\ refusals \in Nat
      /\ Sound(k, rows) /\ Sound(k, b) /\ Apart(rows) /\ Rising(b)
      /\ Covered(rows) \cap Covered(b) = {} /\ lost \subseteq DOMAIN k
      /\ windowEvents' \in 0 .. MaxPerSec /\ process' = "closed" /\ stale' \in BOOLEAN
      /\ draining' = FALSE /\ kinds' = k /\ StoreAll(b) /\ buffer' = <<>>
  BY <1>1, <1>2 DEF LimiterInv, LimiterTypeOK, FlushAndClose
<1>4. Apart(b)
  BY <1>3, RisingApart
<1>5. /\ rows' \in Seq(Insert) /\ Sound(k, rows') /\ Apart(rows') /\ refusals' \in Nat
      /\ \E L \in SUBSET Covered(b) :
           Covered(rows') = Covered(rows) \cup (Covered(b) \ L) /\ lost' = lost \cup L
  BY <1>3, <1>4, StoreStep
<1>6. PICK L \in SUBSET Covered(b) :
        Covered(rows') = Covered(rows) \cup (Covered(b) \ L) /\ lost' = lost \cup L
  BY <1>5
<1>7. /\ <<>> \in Seq(Insert) /\ Covered(<<>>) = {} /\ Rising(<<>>) /\ Sound(k, <<>>)
      /\ Covered(b) \subseteq DOMAIN k
  BY <1>3 DEF Covered, Rising, Sound
<1>8. LimiterInv'
  BY <1>3, <1>5, <1>6, <1>7 DEF LimiterInv, LimiterTypeOK
<1>9. Leaves(Covered(b), L)
  BY <1>2, <1>3, <1>6, <1>7 DEF Leaves
<1> QED BY <1>8, <1>9

LEMMA EndStep ==
  ASSUME LimiterInv, ProcessEnds
  PROVE  LimiterInv' /\ \E P, L : Leaves(P, L)
<1>1. /\ process' = "gone" /\ buffer' = <<>> /\ draining' = FALSE
      /\ lost' = lost \cup Covered(buffer)
      /\ UNCHANGED <<kinds, windowEvents, stale, rows, refusals>>
  BY DEF ProcessEnds
<1>2. /\ <<>> \in Seq(Insert) /\ Covered(<<>>) = {} /\ Rising(<<>>) /\ Sound(kinds, <<>>)
      /\ Covered(buffer) \subseteq DOMAIN kinds
  BY DEF Covered, Rising, Sound, LimiterInv
<1>3. LimiterInv'
  BY <1>1, <1>2 DEF LimiterInv, LimiterTypeOK
<1>4. Leaves(Covered(buffer), Covered(buffer))
  BY <1>1, <1>2 DEF Leaves
<1> QED BY <1>3, <1>4

(* A signal records past the buffer, or loses, its own event.               *)
LEMMA DirectStep ==
  ASSUME LimiterInv, StopAssumption, WriteDirectly(Raw(StopType))
  PROVE  LET e == Len(kinds) + 1
         IN  /\ LimiterInv' /\ kinds' = Append(kinds, StopType) /\ buffer' = buffer
             /\ \/ Covered(rows') = Covered(rows) \cup {e} /\ lost' = lost
                   /\ direct' = direct \cup {e}
                \/ Covered(rows') = Covered(rows) /\ lost' = lost \cup {e} /\ direct' = direct
<1> DEFINE e == Len(kinds) + 1
           x == Raw(StopType)
<1>0. PICK t \in Types : t = StopType
  BY StopAssumption DEF StopAssumption
<1>1. PICK k \in Seq(Types) : k = kinds
  BY DEF LimiterInv, LimiterTypeOK
<1>2. /\ x = [type |-> t, covers |-> {Len(k) + 1}] /\ e = Len(k) + 1
      /\ kinds' = Append(k, t) /\ Append(k, t) \in Seq(Types) /\ t \in Types
      /\ rows \in Seq(Insert) /\ buffer \in Seq(Insert) /\ refusals \in Nat
      /\ Sound(k, rows) /\ Sound(k, buffer) /\ Apart(rows) /\ Rising(buffer)
      /\ Covered(rows) \cap Covered(buffer) = {} /\ lost \subseteq DOMAIN k
      /\ UNCHANGED <<buffer, windowEvents, stale, draining, process>>
      /\ StoreAll(<<x>>) /\ direct' = direct \cup (x.covers \ lost')
  BY <1>0, <1>1 DEF LimiterInv, LimiterTypeOK, Raw, WriteDirectly
<1>3. DOMAIN Append(k, t) = DOMAIN k \cup {e} /\ e \notin DOMAIN k
  BY <1>2
<1>4. /\ Sound(kinds', rows) /\ Sound(kinds', buffer)
      /\ Covered(rows) \subseteq DOMAIN k /\ Covered(buffer) \subseteq DOMAIN k
  BY <1>2, MoreKinds
<1>5. /\ x \in Insert /\ <<x>> \in Seq(Insert) /\ Sound(kinds', <<x>>) /\ Apart(<<x>>)
      /\ Covered(<<x>>) = {e} /\ x.covers = {e}
  <2>1. x.covers = {e}
    BY <1>2
  <2>2. x = [type |-> t, covers |-> {Len(k) + 1}] /\ kinds' = Append(k, t) /\ e = Len(k) + 1
    BY <1>2
  <2> HIDE DEF x, e
  <2> QED BY <2>1, <2>2, OneEntry
<1> HIDE DEF x, e
<1>6. PICK q : q = kinds'
  OBVIOUS
<1>7. PICK y : y = <<x>>
  OBVIOUS
<1>8. Covered(rows) \cap Covered(y) = {}
  BY <1>3, <1>4, <1>5, <1>7
<1>9. /\ rows' \in Seq(Insert) /\ Sound(q, rows') /\ Apart(rows') /\ refusals' \in Nat
      /\ \E L \in SUBSET Covered(y) :
           Covered(rows') = Covered(rows) \cup (Covered(y) \ L) /\ lost' = lost \cup L
  BY <1>2, <1>4, <1>5, <1>6, <1>7, <1>8, StoreStep
<1>10. \/ Covered(rows') = Covered(rows) \cup {e} /\ lost' = lost
       \/ Covered(rows') = Covered(rows) /\ lost' = lost \cup {e}
  <2>1. PICK L \in SUBSET {e} :
          Covered(rows') = Covered(rows) \cup ({e} \ L) /\ lost' = lost \cup L
    BY <1>5, <1>7, <1>9
  <2>2. L = {} \/ L = {e}
    OBVIOUS
  <2> QED BY <2>1, <2>2
<1>11. lost' \subseteq DOMAIN kinds' /\ Covered(rows') \cap Covered(buffer) = {}
  BY <1>2, <1>3, <1>4, <1>10
<1>12. LimiterInv'
  BY <1>2, <1>4, <1>6, <1>9, <1>11 DEF LimiterInv, LimiterTypeOK
<1>13. \/ Covered(rows') = Covered(rows) \cup {e} /\ lost' = lost /\ direct' = direct \cup {e}
       \/ Covered(rows') = Covered(rows) /\ lost' = lost \cup {e} /\ direct' = direct
  BY <1>2, <1>3, <1>5, <1>10
<1> QED BY <1>0, <1>1, <1>2, <1>12, <1>13 DEF e

-----------------------------------------------------------------------------
(* The steps of the gateway: each keeps the invariant, and is a step of the *)
(* stream or none.                                                          *)

(* At most one gateway.stop ever arrives. *)
LEMMA StopOnce ==
  ASSUME LimiterInv, OneStop, NEW t \in Types, kinds' = Append(kinds, t),
         \/ t # StopType /\ claimed' = claimed
         \/ ~claimed /\ claimed' = TRUE
  PROVE  OneStop'
<1>1. PICK k \in Seq(Types) : k = kinds
  BY DEF LimiterInv, LimiterTypeOK
<1>2. /\ \A i \in DOMAIN kinds' : i \in DOMAIN k \/ i = Len(k) + 1
      /\ \A i \in DOMAIN k : kinds'[i] = k[i]
      /\ kinds'[Len(k) + 1] = t
  BY <1>1
<1> QED BY <1>1, <1>2 DEF OneStop

LEMMA StopStep ==
  ASSUME StopInv, LimiterAssumption, StopAssumption, [StopNext]_allVars
  PROVE  StopInv' /\ [Stream!Next]_(Stream!vars)
<1> DEFINE e == Len(kinds) + 1
<1>0. kinds \in Seq(Types) /\ Len(kinds) \in Nat
  BY DEF StopInv, LimiterInv, LimiterTypeOK
<1>1. ASSUME NEW t \in Types, AppendInsert(t), direct' = direct, claimed' \in BOOLEAN,
             \/ t # StopType /\ claimed' = claimed
             \/ ~claimed /\ claimed' = TRUE
      PROVE  StopInv' /\ Stream!Next
  <2>1. kinds' = Append(kinds, t)
    BY <1>1 DEF AppendInsert
  <2>2. /\ LimiterInv'
        /\ \/ /\ Covered(buffer') = Covered(buffer) \cup {e}
              /\ Covered(rows') = Covered(rows) /\ lost' = lost
           \/ /\ Covered(buffer) = {} /\ Covered(buffer') = {}
              /\ Covered(rows') = Covered(rows) \cup {e} /\ lost' = lost
           \/ /\ Covered(buffer') = Covered(buffer) /\ Covered(rows') = Covered(rows)
              /\ lost' = lost \cup {e}
    BY <1>1, AppendStep DEF StopInv
  <2>3. OneStop'
    BY <1>1, <2>1, StopOnce DEF StopInv
  <2>4. Len(kinds') = e
    BY <1>0, <1>1, <2>1
  <2>5. Stream!Arrive
    BY <1>1, <2>2, <2>4 DEF Stream!Arrive
  <2> QED BY <1>1, <2>2, <2>3, <2>5 DEF StopInv, Stream!Next
<1>2. ASSUME LimiterInv', NEW P, NEW L, Leaves(P, L), UNCHANGED <<kinds, claimed, direct>>
      PROVE  StopInv' /\ Stream!Next
  <2>1. StopInv'
    BY <1>2 DEF StopInv, OneStop
  <2>2. Stream!Leave(P, L) /\ P \in SUBSET Covered(buffer) /\ L \in SUBSET P
    BY <1>2 DEF Leaves, Stream!Leave
  <2> QED BY <2>1, <2>2 DEF Stream!Next
<1>3. ASSUME UNCHANGED <<kinds, buffer, windowEvents, draining, rows, lost, refusals>>,
             UNCHANGED <<process, claimed, direct>>, stale' \in BOOLEAN
      PROVE  StopInv' /\ UNCHANGED Stream!vars
  <2>1. LimiterTypeOK'
    BY <1>3 DEF StopInv, LimiterInv, LimiterTypeOK
  <2>2. LimiterInv'
    BY <1>3, <2>1 DEF StopInv, LimiterInv
  <2> QED BY <1>3, <2>2 DEF StopInv, OneStop, Stream!vars
<1>4. CASE StopHook
  BY <1>1, <1>4, StopAssumption DEF StopHook, StopAssumption
<1>5. ASSUME NEW sig \in Signals, CaptureSignal(sig)
      PROVE  StopInv' /\ [Stream!Next]_(Stream!vars)
  <2>1. CASE claimed
    BY <1>3, <1>5, <2>1 DEF CaptureSignal, vars, StopInv, LimiterInv, LimiterTypeOK
  <2>2. CASE ~claimed
    <3>1. claimed' = TRUE /\ WriteDirectly(Raw(StopType))
      BY <1>5, <2>2 DEF CaptureSignal
    <3>2. /\ LimiterInv' /\ kinds' = Append(kinds, StopType) /\ buffer' = buffer
          /\ \/ Covered(rows') = Covered(rows) \cup {e} /\ lost' = lost
                /\ direct' = direct \cup {e}
             \/ Covered(rows') = Covered(rows) /\ lost' = lost \cup {e} /\ direct' = direct
      BY <3>1, DirectStep DEF StopInv
    <3>3. OneStop'
      BY <2>2, <3>1, <3>2, StopOnce, StopAssumption DEF StopInv, StopAssumption
    <3>4. Len(kinds') = e
      BY <1>0, <3>2, StopAssumption DEF StopAssumption
    <3>5. Stream!Arrive
      BY <3>2, <3>4 DEF Stream!Arrive
    <3> QED BY <3>1, <3>2, <3>3, <3>5 DEF StopInv, Stream!Next
  <2> QED BY <2>1, <2>2
<1>6. CASE StopRetention
  <2>1. FlushAndClose /\ UNCHANGED <<kinds, claimed, direct>>
    BY <1>6 DEF StopRetention, FlushAndClose
  <2> QED BY <1>2, <2>1, FlushStep DEF StopInv
<1>7. CASE Unrelated
  <2>1. UNCHANGED <<claimed, direct>> /\ claimed \in BOOLEAN
    BY <1>7 DEF Unrelated, stopVars, StopInv
  <2>2. ASSUME NEW t \in Types \ {StopType}, AppendInsert(t) PROVE StopInv' /\ Stream!Next
    BY <1>1, <2>1, <2>2
  <2>3. CASE DrainBuffer
    <3>1. UNCHANGED kinds
      BY <2>3 DEF DrainBuffer
    <3> QED BY <1>2, <2>1, <2>3, <3>1, DrainStep DEF StopInv
  <2>4. CASE ProcessEnds
    <3>1. UNCHANGED kinds
      BY <2>4 DEF ProcessEnds
    <3> QED BY <1>2, <2>1, <2>4, <3>1, EndStep DEF StopInv
  <2>5. CASE SecondPasses
    BY <1>3, <2>1, <2>5 DEF SecondPasses
  <2> QED BY <1>7, <2>2, <2>3, <2>4, <2>5 DEF Unrelated
<1>8. CASE UNCHANGED allVars
  BY <1>3, <1>8 DEF allVars, stopVars, vars, StopInv, LimiterInv, LimiterTypeOK
<1> QED BY <1>4, <1>5, <1>6, <1>7, <1>8 DEF StopNext

LEMMA StopStart ==
  ASSUME StopInit, LimiterAssumption
  PROVE  StopInv /\ Stream!Init
<1>1. /\ <<>> \in Seq(Insert) /\ <<>> \in Seq(Types) /\ Len(<<>>) = 0
      /\ Covered(<<>>) = {} /\ DOMAIN <<>> = {}
  BY DEF Covered
<1>2. Sound(<<>>, <<>>) /\ Apart(<<>>) /\ Rising(<<>>)
  BY DEF Sound, Apart, Rising
<1>3. LimiterTypeOK
  <2>1. 0 \in 0 .. MaxPerSec /\ 0 \in Nat
    BY LimiterAssumption DEF LimiterAssumption
  <2> QED BY <1>1, <2>1 DEF StopInit, Init, LimiterTypeOK
<1> QED
  BY <1>1, <1>2, <1>3 DEF StopInit, Init, StopInv, LimiterInv, OneStop, Stream!Init

THEOREM GatewayInductive == StopSpec => []StopInv
<1>1. StopInit => StopInv
  BY StopStart, LimiterAssumption
<1>2. StopInv /\ [StopNext]_allVars => StopInv'
  BY StopStep, LimiterAssumption, StopAssumption
<1> QED BY <1>1, <1>2, PTL DEF StopSpec

(* Every event of a full-fidelity category has a row of its own, and each   *)
(* row stands for events of its type only.                                  *)
THEOREM FidelityKept == StopSpec => []Fidelity
<1>1. ASSUME StopInv PROVE Fidelity
  <2>1. Sound(kinds, rows) /\ Sound(kinds, buffer)
    BY <1>1 DEF StopInv, LimiterInv
  <2>2. ASSUME NEW s \in {rows, buffer}, NEW i \in DOMAIN s, s[i].type \in Full
        PROVE  Cardinality(s[i].covers) = 1
    <3>1. PICK e : e \in s[i].covers
      BY <2>1 DEF Sound
    <3>2. s[i].covers = {e}
      BY <2>1, <2>2, <3>1 DEF Sound
    <3> QED BY <3>2, FS_Singleton
  <2> QED BY <2>1, <2>2 DEF Fidelity, Sound
<1> QED BY <1>1, GatewayInductive, PTL

(* gateway.stop has at most one row, whichever of hook and signals come     *)
(* first and however often.                                                 *)
THEOREM StopRecordedOnce == StopSpec => []AtMostOneStop
<1>1. ASSUME StopInv PROVE AtMostOneStop
  <2> DEFINE S == {i \in DOMAIN rows : rows[i].type = StopType}
  <2>1. ASSUME NEW i \in S, NEW j \in S PROVE i = j
    <3>1. Sound(kinds, rows) /\ Apart(rows) /\ OneStop
      BY <1>1 DEF StopInv, LimiterInv
    <3>2. PICK a : a \in rows[i].covers /\ a \in DOMAIN kinds /\ kinds[a] = StopType
      BY <3>1 DEF Sound
    <3>3. PICK b : b \in rows[j].covers /\ b \in DOMAIN kinds /\ kinds[b] = StopType
      BY <3>1 DEF Sound
    <3>4. a = b
      BY <3>1, <3>2, <3>3 DEF OneStop
    <3> QED BY <3>1, <3>2, <3>3, <3>4 DEF Apart
  <2>2. S = {} \/ \E i : S = {i}
    BY <2>1
  <2>3. Cardinality(S) = 0 \/ Cardinality(S) = 1
    BY <2>2, FS_EmptySet, FS_Singleton
  <2> QED BY <2>3 DEF AtMostOneStop
<1> QED BY <1>1, GatewayInductive, PTL

(* Limiter and stop capture together are the stream that EventStream        *)
(* promises: no event is lost silently, and only an urgent one overtakes.   *)
THEOREM GatewayIsStream == StopSpec => IsStream
<1>1. StopInit => Stream!Init
  BY StopStart, LimiterAssumption
<1>2. StopInv /\ [StopNext]_allVars => [Stream!Next]_(Stream!vars)
  BY StopStep, LimiterAssumption, StopAssumption
<1> QED BY <1>1, <1>2, GatewayInductive, PTL DEF StopSpec, IsStream, Stream!Spec
=============================================================================
