-------------------------- MODULE Anchoring_proofs --------------------------
(* Theorems about Anchoring: the inductive invariant, and what follows.     *)
EXTENDS Anchoring, FiniteSetTheorems, TLAPS

(* A range that counts an event is not empty. *)
LEMMA CountedIsBelow ==
  ASSUME NEW s \in Nat, NEW n \in Nat, oldest \in Nat, CountSince(s, n) >= 1
  PROVE  s <= n
<1>1. SUFFICES ASSUME ~(s <= n) PROVE FALSE OBVIOUS
<1>2. {r \in oldest .. n : r >= s} = {} BY <1>1
<1>3. CountSince(s, n) = 0 BY <1>2, FS_EmptySet, Zenon DEF CountSince
<1> QED BY <1>3

(* A row stays inside a log that grows. *)
LEMMA StaysInside ==
  ASSUME NEW o, NEW m \in Nat, NEW n \in Nat, m <= n, o \in 1 .. m + 1
  PROVE  o \in 1 .. n + 1
OBVIOUS

(* The anchoring part of a step, with n the highest sequence after it.      *)
LEMMA AnchorStep ==
  ASSUME IInv, NEW min \in Nat \ {0}, NEW n \in 0 .. MaxSeq, n >= last,
         AnchorIfNeeded(min, n), life # "down"
  PROVE  /\ \/ flights' = flights
            \/ /\ flights = {} /\ ~Stopped /\ failures' < BreakAfter
               /\ \E s \in 1 .. n :
                    /\ flights' = {[cp |-> [start |-> s, end |-> n, root |-> n],
                                    state |-> "sent"]}
                    /\ \A c \in checkpoints : c.end < s
         /\ \/ failures' = failures
            \/ failures = BreakAfter /\ failures' = BreakAfter - 1 /\ wait = 0 /\ flights = {}
         /\ UNCHANGED <<backoff, wait, burst>>
<1> USE AnchorAssumption
<1> UNCHANGED <<backoff, wait, burst>> BY DEF AnchorIfNeeded
<1>t. failures \in 0 .. BreakAfter /\ oldest \in Nat /\ wait \in Nat /\ last \in Nat
  BY DEF IInv, TypeOK
<1>1. CASE Stopped \/ flights # {} \/ CircuitOpen BY <1>1 DEF AnchorIfNeeded
<1>2. CASE ~(Stopped \/ flights # {} \/ CircuitOpen)
  <2>1. /\ failures' = IF failures >= BreakAfter THEN BreakAfter - 1 ELSE failures
        /\ DoAnchor(min, n) /\ flights = {} /\ ~Stopped
    BY <1>2 DEF AnchorIfNeeded
  <2>2. failures >= BreakAfter => failures = BreakAfter /\ wait = 0
    BY <1>2, <1>t DEF CircuitOpen
  <2>3. failures' < BreakAfter BY <2>1, <1>t
  <2>4. PICK s \in 1 .. n + 1 :
          /\ StartsAt(s)
          /\ flights' = IF CountSince(s, n) < min THEN flights
                        ELSE flights \cup
                          {[cp |-> [start |-> s, end |-> n, root |-> n], state |-> "sent"]}
    BY <2>1 DEF DoAnchor
  <2>5. \A c \in checkpoints : c.end < s BY <2>4 DEF StartsAt
  <2>6. CASE CountSince(s, n) < min BY <2>6, <2>4, <2>1, <2>2
  <2>7. CASE ~(CountSince(s, n) < min)
    <3>1. CountSince(s, n) \in Nat
      <4>1. IsFiniteSet(oldest .. n) BY <1>t, FS_Interval
      <4>2. IsFiniteSet({r \in oldest .. n : r >= s})
        <5>1. {r \in oldest .. n : r >= s} \subseteq oldest .. n OBVIOUS
        <5> QED BY <4>1, <5>1, FS_Subset, Zenon
      <4> QED BY <4>2, FS_CardinalityType DEF CountSince
    <3>2. CountSince(s, n) >= 1 BY <3>1, <2>7
    <3>3. s \in 1 .. n
      <4>1. s <= n BY <3>2, CountedIsBelow, <1>t
      <4> QED BY <4>1
    <3>4. flights' = {[cp |-> [start |-> s, end |-> n, root |-> n], state |-> "sent"]}
      BY <2>4, <2>7, <2>1
    <3>5. \/ failures' = failures
          \/ failures = BreakAfter /\ failures' = BreakAfter - 1 /\ wait = 0 /\ flights = {}
      BY <2>1, <2>2
    <3> QED BY <3>3, <3>4, <3>5, <2>1, <2>3, <2>5
  <2> QED BY <2>6, <2>7
<1> QED BY <1>1, <1>2
-----------------------------------------------------------------------------
(* The initial state satisfies the invariant.                               *)
LEMMA InitIInv == Init => IInv
<1> SUFFICES ASSUME Init PROVE IInv OBVIOUS
<1> USE AnchorAssumption DEF Init
<1>1. TypeOK BY DEF TypeOK
<1> QED BY <1>1 DEF IInv, RangesDisjoint, FlightContinues, RangesSound, RootsKept, BurstCounted

(* A flight that starts, or none, keeps the invariant; starting may move on *)
(* and one event may have been appended.                                    *)
LEMMA AnchorKeepsIInv ==
  ASSUME IInv, NEW min \in Nat \ {0}, AnchorIfNeeded(min, last'), life # "down",
         last' \in last .. MaxSeq, starting' \in {"verifying", "anchoring", "ticking"},
         appends' \in Nat,
         UNCHANGED <<oldest, checkpoints, archive, accepted, life, bounds>>
  PROVE  IInv'
<1> USE AnchorAssumption
<1>t. TypeOK BY DEF IInv
<1>n. last' \in 0 .. MaxSeq /\ last' >= last /\ last \in Nat BY <1>t DEF TypeOK
<1>s. /\ \/ flights' = flights
         \/ /\ flights = {} /\ ~Stopped /\ failures' < BreakAfter
            /\ \E s \in 1 .. last' :
                 /\ flights' = {[cp |-> [start |-> s, end |-> last', root |-> last'],
                                 state |-> "sent"]}
                 /\ \A c \in checkpoints : c.end < s
      /\ \/ failures' = failures
         \/ failures = BreakAfter /\ failures' = BreakAfter - 1 /\ wait = 0 /\ flights = {}
      /\ UNCHANGED <<backoff, wait, burst>>
  BY <1>n, AnchorStep
<1>c. UNCHANGED <<oldest, checkpoints, archive, accepted, life, prunes, stops, mishaps>>
  BY DEF bounds
(* All of the types but that of the flights. *)
<1>f. ASSUME flights' \in SUBSET Flight PROVE TypeOK'
  <2>1. failures' \in 0 .. BreakAfter BY <1>t, <1>s DEF TypeOK
  <2>2. oldest' \in 1 .. last' + 1
    <3>1. oldest \in 1 .. last + 1 BY <1>t DEF TypeOK
    <3>2. last \in Nat /\ last' \in Nat /\ last <= last' BY <1>n
    <3>3. oldest \in 1 .. last' + 1 BY <3>1, <3>2, StaysInside, Zenon
    <3>4. oldest' = oldest BY <1>c
    <3> QED BY <3>3, <3>4, Zenon
  <2>3. backoff' \in 1 .. MaxDelay /\ wait' \in 0 .. MaxDelay /\ burst' \in Nat
    BY <1>t, <1>s DEF TypeOK
  <2> QED BY <1>f, <2>1, <2>2, <2>3, <1>t, <1>c, <1>n DEF TypeOK
<1>1. CASE flights' = flights
  <2>1. TypeOK' BY <1>f, <1>t, <1>1 DEF TypeOK
  <2>2. RangesDisjoint' BY <1>c DEF IInv, RangesDisjoint
  <2>3. FlightContinues'
    <3>1. flights # {} => failures' = failures BY <1>s
    <3> QED BY <3>1, <1>1, <1>c DEF IInv, FlightContinues
  <2>4. RangesSound'
    <3> SUFFICES ASSUME NEW c \in checkpoints \cup {f.cp : f \in flights}
                 PROVE  c.start <= c.end /\ c.end <= last' /\ c.root = c.end
      BY <1>1, <1>c DEF RangesSound
    <3>1. c \in Checkpoint BY <1>t DEF TypeOK, Flight
    <3>2. c.start <= c.end /\ c.end <= last /\ c.root = c.end BY DEF IInv, RangesSound
    <3> QED BY <3>1, <3>2, <1>n DEF Checkpoint
  <2>5. RootsKept' BY <1>1, <1>c DEF IInv, RootsKept
  <2>6. BurstCounted' BY <1>t, <1>s DEF IInv, BurstCounted, TypeOK
  <2> QED BY <2>1, <2>2, <2>3, <2>4, <2>5, <2>6 DEF IInv
<1>2. ASSUME flights = {}, ~Stopped, failures' < BreakAfter, NEW s \in 1 .. last',
             flights' = {[cp |-> [start |-> s, end |-> last', root |-> last'],
                          state |-> "sent"]},
             \A c \in checkpoints : c.end < s
      PROVE  IInv'
  <2> DEFINE cp == [start |-> s, end |-> last', root |-> last']
  <2>0. cp \in Checkpoint /\ cp.start = s /\ cp.end = last' /\ cp.root = last'
    BY <1>2, <1>n DEF Checkpoint
  <2>f. flights' = {[cp |-> cp, state |-> "sent"]} BY <1>2
  <2> HIDE DEF cp
  <2>1. TypeOK'
    <3>1. flights' \in SUBSET Flight BY <2>0, <2>f DEF Flight
    <3> QED BY <3>1, <1>f
  <2>2. RangesDisjoint' BY <1>c DEF IInv, RangesDisjoint
  <2>3. FlightContinues'
    <3>1. \A f \in flights' : f.cp = cp BY <2>f
    <3>2. life' \notin {"down", "closed"} BY <1>2, <1>c DEF Stopped
    <3>3. \A f, g \in flights' : f = g BY <2>f
    <3>4. \A f \in flights' : \A c \in checkpoints' : c.end < f.cp.start
      BY <3>1, <1>2, <1>c, <2>0
    <3> QED BY <3>2, <3>3, <3>4, <1>2 DEF FlightContinues
  <2>4. RangesSound'
    <3>1. ASSUME NEW c \in checkpoints
          PROVE  c.start <= c.end /\ c.end <= last' /\ c.root = c.end
      <4>1. c \in Checkpoint BY <1>t DEF TypeOK
      <4>2. c.start <= c.end /\ c.end <= last /\ c.root = c.end BY DEF IInv, RangesSound
      <4> QED BY <4>1, <4>2, <1>n DEF Checkpoint
    <3>2. {f.cp : f \in flights'} = {cp} BY <2>f
    <3> QED BY <3>1, <3>2, <1>c, <2>0, <1>n DEF RangesSound
  <2>5. RootsKept' BY <1>2, <1>c DEF IInv, RootsKept
  <2>6. BurstCounted' BY <1>t, <1>s DEF IInv, BurstCounted, TypeOK
  <2> QED BY <2>1, <2>2, <2>3, <2>4, <2>5, <2>6 DEF IInv
<1> QED BY <1>1, <1>2, <1>s
-----------------------------------------------------------------------------
(* The outcomes of a submission.                                            *)

(* An insertion of the checkpoint that DE has accepted. *)
LEMMA SucceedKeepsIInv == IInv /\ AnchorSucceeds => IInv'
<1> SUFFICES ASSUME IInv, AnchorSucceeds PROVE IInv' OBVIOUS
<1> USE AnchorAssumption
<1>t. TypeOK BY DEF IInv
<1>0. PICK f \in flights :
        /\ f.state = "accepted" /\ life # "closed"
        /\ checkpoints' = checkpoints \cup {f.cp} /\ flights' = flights \ {f}
        /\ failures' = 0 /\ backoff' = BaseDelay /\ burst' = 0 /\ appends' = 0
  BY DEF AnchorSucceeds, Anchored
<1>c. UNCHANGED <<last, oldest, archive, accepted, life, starting, wait, prunes, stops, mishaps>>
  BY DEF AnchorSucceeds, bounds
<1>e. flights = {f} /\ flights' = {} BY <1>0 DEF IInv, FlightContinues
<1>f. f.cp \in Checkpoint BY <1>t DEF TypeOK, Flight
<1>1. TypeOK' BY <1>t, <1>0, <1>c, <1>e, <1>f DEF TypeOK
<1>2. RangesDisjoint'
  <2>1. \A c \in checkpoints : c.end < f.cp.start BY DEF IInv, FlightContinues
  <2> QED BY <2>1, <1>0 DEF IInv, RangesDisjoint
<1>3. FlightContinues' BY <1>e, <1>c DEF IInv, FlightContinues
<1>4. RangesSound' BY <1>0, <1>e, <1>c DEF IInv, RangesSound
<1>5. RootsKept' BY <1>0, <1>e, <1>c DEF IInv, RootsKept
<1>6. BurstCounted' BY <1>0 DEF BurstCounted
<1> QED BY <1>1, <1>2, <1>3, <1>4, <1>5, <1>6 DEF IInv

(* A failure of any cause. *)
LEMMA FailKeepsIInv == IInv /\ AnchorFails => IInv'
<1> SUFFICES ASSUME IInv, AnchorFails PROVE IInv' OBVIOUS
<1> USE AnchorAssumption
<1>t. TypeOK BY DEF IInv
<1>0. PICK f \in flights :
        /\ IF f.state = "sent" \/ life = "closed"
             THEN UNCHANGED mishaps
             ELSE mishaps < MaxMishaps /\ mishaps' = mishaps + 1
        /\ flights' = flights \ {f} /\ RecordFailure /\ appends' = 0
  BY DEF AnchorFails
<1>c. UNCHANGED <<last, oldest, checkpoints, archive, accepted, life, starting, prunes, stops>>
  BY DEF AnchorFails, store
<1>e. flights = {f} /\ flights' = {} /\ life # "closed" /\ failures < BreakAfter
  BY <1>0 DEF IInv, FlightContinues
<1>r. /\ failures' = failures + 1 /\ failures' \in 0 .. BreakAfter
      /\ burst' = burst + 1 /\ burst' \in Nat
      /\ failures' = BreakAfter => wait' = backoff
      /\ wait' \in 0 .. MaxDelay /\ backoff' \in 1 .. MaxDelay
  <2>1. failures \in Nat /\ burst \in Nat /\ backoff \in 1 .. MaxDelay /\ wait \in 0 .. MaxDelay
    BY <1>t DEF TypeOK
  <2>2. Doubled(backoff) \in 1 .. MaxDelay BY <2>1 DEF Doubled
  <2> QED BY <2>1, <2>2, <1>0, <1>e DEF RecordFailure
<1>1. TypeOK'
  <2>1. mishaps' \in 0 .. MaxMishaps BY <1>t, <1>0 DEF TypeOK
  <2> QED BY <2>1, <1>t, <1>0, <1>c, <1>e, <1>r DEF TypeOK
<1>2. RangesDisjoint' BY <1>c DEF IInv, RangesDisjoint
<1>3. FlightContinues' BY <1>e, <1>c DEF IInv, FlightContinues
<1>4. RangesSound' BY <1>e, <1>c DEF IInv, RangesSound
<1>5. RootsKept'
  <2>1. mishaps' = 0 => mishaps = 0 /\ f.state = "sent" BY <1>0, <1>t, <1>e DEF TypeOK
  <2> QED BY <2>1, <1>e, <1>c DEF IInv, RootsKept
<1>6. BurstCounted' BY <1>r, <1>e, <1>t DEF IInv, BurstCounted, TypeOK
<1> QED BY <1>1, <1>2, <1>3, <1>4, <1>5, <1>6 DEF IInv

(* DE's acceptance. *)
LEMMA AcceptKeepsIInv == IInv /\ DeAccepts => IInv'
<1> SUFFICES ASSUME IInv, DeAccepts PROVE IInv' OBVIOUS
<1>t. TypeOK BY DEF IInv
<1>0. PICK f \in flights :
        /\ flights' = (flights \ {f}) \cup {[f EXCEPT !.state = "accepted"]}
        /\ accepted' = accepted \cup {f.cp.root}
  BY DEF DeAccepts
<1>c. UNCHANGED <<last, oldest, checkpoints, archive, life, starting, appends,
                  failures, backoff, wait, burst, prunes, stops, mishaps>>
  BY DEF DeAccepts, store, breaker, bounds
<1> DEFINE g == [f EXCEPT !.state = "accepted"]
<1>g. g \in Flight /\ g.cp = f.cp /\ g.state = "accepted" /\ f.cp \in Checkpoint
  BY <1>t DEF TypeOK, Flight
<1>e. flights = {f} /\ flights' = {g} BY <1>0 DEF IInv, FlightContinues
<1> HIDE DEF g
<1>1. TypeOK'
  <2>1. f.cp.root \in 1 .. MaxSeq BY <1>g DEF Checkpoint
  <2> QED BY <2>1, <1>t, <1>0, <1>c, <1>e, <1>g DEF TypeOK
<1>2. RangesDisjoint' BY <1>c DEF IInv, RangesDisjoint
<1>3. FlightContinues' BY <1>e, <1>g, <1>c DEF IInv, FlightContinues
<1>4. RangesSound'
  <2>1. {h.cp : h \in flights'} = {h.cp : h \in flights} BY <1>e, <1>g
  <2> QED BY <2>1, <1>c DEF IInv, RangesSound
<1>5. RootsKept' BY <1>0, <1>e, <1>g, <1>c DEF IInv, RootsKept
<1>6. BurstCounted' BY <1>c DEF IInv, BurstCounted
<1> QED BY <1>1, <1>2, <1>3, <1>4, <1>5, <1>6 DEF IInv
-----------------------------------------------------------------------------
(* The clock, the life cycle and retention.                                 *)

LEMMA TickKeepsIInv == IInv /\ Tick => IInv'
<1> SUFFICES ASSUME IInv, Tick PROVE IInv' OBVIOUS
<1>t. TypeOK BY DEF IInv
<1>c. UNCHANGED <<last, oldest, checkpoints, archive, accepted, life, starting, flights,
                  appends, failures, backoff, prunes, stops, mishaps>>
  BY DEF Tick, store, bounds
<1>w. wait' \in 0 .. MaxDelay /\ burst' = 0
  <2>1. wait \in 0 .. MaxDelay /\ MaxDelay \in Nat BY <1>t, AnchorAssumption DEF TypeOK
  <2>2. CASE wait > 0
    <3>1. wait' = wait - 1 /\ burst' = 0 BY <2>2 DEF Tick
    <3> QED BY <2>1, <2>2, <3>1
  <2>3. CASE ~(wait > 0)
    <3>1. wait' = 0 /\ burst' = 0 BY <2>3 DEF Tick
    <3> QED BY <2>1, <3>1
  <2> QED BY <2>2, <2>3
<1>1. TypeOK' BY <1>t, <1>c, <1>w DEF TypeOK
<1>2. BurstCounted' BY <1>t, <1>c, <1>w DEF BurstCounted, TypeOK
<1> QED BY <1>1, <1>2, <1>c DEF IInv, RangesDisjoint, FlightContinues, RangesSound, RootsKept

(* The process begins, its stop begins or ends, or its timer is created. *)
LEMMA LifeKeepsIInv ==
  ASSUME IInv, UNCHANGED <<store, accepted, flights, appends, breaker, prunes, mishaps>>,
         stops' \in 0 .. MaxStops, life' \in {"running", "stopping", "closed"},
         starting' \in {"verifying", "anchoring", "ticking"},
         life' = "closed" => flights = {}
  PROVE  IInv'
<1>t. TypeOK BY DEF IInv
<1>c. UNCHANGED <<last, oldest, checkpoints, archive, accepted, flights,
                  appends, failures, backoff, wait, burst, prunes, mishaps>>
  BY DEF store, breaker
<1>1. TypeOK' BY <1>t, <1>c DEF TypeOK
<1>2. FlightContinues' BY <1>c DEF IInv, FlightContinues
<1> QED BY <1>1, <1>2, <1>c DEF IInv, RangesDisjoint, RangesSound, RootsKept, BurstCounted

(* The process ends. *)
LEMMA EndKeepsIInv ==
  ASSUME IInv, LoseMemory, UNCHANGED <<store, accepted, prunes, stops>>,
         mishaps' \in 0 .. MaxMishaps, mishaps' = 0 => mishaps = 0 /\ flights = {}
  PROVE  IInv'
<1> USE AnchorAssumption
<1>t. TypeOK BY DEF IInv
<1>c. UNCHANGED <<last, oldest, checkpoints, archive, accepted, prunes, stops>> BY DEF store
<1>l. /\ life' = "down" /\ starting' = "verifying" /\ flights' = {} /\ appends' = 0
      /\ failures' = 0 /\ backoff' = BaseDelay /\ wait' = 0 /\ burst' = 0
  BY DEF LoseMemory
<1>1. TypeOK' BY <1>t, <1>c, <1>l DEF TypeOK
<1>2. RangesDisjoint' BY <1>c DEF IInv, RangesDisjoint
<1>3. FlightContinues' BY <1>l DEF FlightContinues
<1>4. RangesSound' BY <1>c, <1>l DEF IInv, RangesSound
<1>5. RootsKept' BY <1>c, <1>l DEF IInv, RootsKept
<1>6. BurstCounted' BY <1>l DEF BurstCounted
<1> QED BY <1>1, <1>2, <1>3, <1>4, <1>5, <1>6 DEF IInv

(* A prune, which archives what it takes from the active checkpoints. *)
LEMMA PruneKeepsIInv == ASSUME IInv, NEW k \in oldest + 1 .. last + 1, Prune(k) PROVE IInv'
<1> USE AnchorAssumption
<1>t. TypeOK BY DEF IInv
<1>p. /\ oldest' = k /\ prunes' = prunes + 1 /\ prunes < MaxPrunes
      /\ archive' = archive \cup {c \in checkpoints : c.start < k}
      /\ checkpoints' = {c \in checkpoints : c.start >= k}
  BY DEF Prune
<1>c. UNCHANGED <<last, accepted, life, starting, flights, appends,
                  failures, backoff, wait, burst, stops, mishaps>>
  BY DEF Prune, breaker
<1>k. checkpoints' \subseteq checkpoints /\ checkpoints \cup archive = checkpoints' \cup archive'
  <2>1. \A c \in checkpoints : c.start \in Int BY <1>t DEF TypeOK, Checkpoint
  <2>2. \A c \in checkpoints : c.start < k \/ c.start >= k BY <2>1, <1>t DEF TypeOK
  <2> QED BY <2>2, <1>p
<1>1. TypeOK'
  <2>1. oldest' \in 1 .. last + 1 /\ prunes' \in 0 .. MaxPrunes BY <1>t, <1>p DEF TypeOK
  <2>2. archive' \in SUBSET Checkpoint /\ checkpoints' \in SUBSET Checkpoint
    BY <1>t, <1>k DEF TypeOK
  <2> QED BY <2>1, <2>2, <1>t, <1>c DEF TypeOK
<1>2. RangesDisjoint' BY <1>k DEF IInv, RangesDisjoint
<1>3. FlightContinues' BY <1>k, <1>c DEF IInv, FlightContinues
<1>4. RangesSound' BY <1>k, <1>c DEF IInv, RangesSound
<1>5. RootsKept' BY <1>k, <1>c DEF IInv, RootsKept
<1>6. BurstCounted' BY <1>c DEF IInv, BurstCounted
<1> QED BY <1>1, <1>2, <1>3, <1>4, <1>5, <1>6 DEF IInv

-----------------------------------------------------------------------------
(* Every step of the service, of DE and of the host keeps the invariant.    *)
LEMMA NextKeepsIInv == IInv /\ [Next]_vars => IInv'
<1> SUFFICES ASSUME IInv, [Next]_vars PROVE IInv' OBVIOUS
<1> USE AnchorAssumption
<1>t. TypeOK BY DEF IInv
<1>d. flights # {} \/ starting # "verifying" => life # "down"
  BY DEF IInv, FlightContinues
<1>1. CASE NotifyAppend
  <2>1. /\ life # "down" /\ last' \in last .. MaxSeq /\ appends' \in Nat
        /\ UNCHANGED <<oldest, checkpoints, archive, accepted, life, starting, bounds>>
    BY <1>1, <1>t DEF NotifyAppend, TypeOK
  <2>2. CASE AnchorIfNeeded(Threshold, last + 1)
    <3>1. last' = last + 1 BY <1>1 DEF NotifyAppend
    <3>2. AnchorIfNeeded(Threshold, last') BY <2>2, <3>1
    <3>3. starting' \in {"verifying", "anchoring", "ticking"} BY <2>1, <1>t DEF TypeOK
    <3> QED BY <2>1, <3>2, <3>3, AnchorKeepsIInv
  <2>3. CASE UNCHANGED <<flights, breaker>>
    <3>1. /\ UNCHANGED <<oldest, checkpoints, archive, accepted, life, starting, flights,
                         failures, backoff, wait, burst, prunes, stops, mishaps>>
          /\ last \in Nat /\ last <= last' /\ last' \in 0 .. MaxSeq /\ appends' \in Nat
      BY <2>1, <2>3, <1>t DEF breaker, bounds, TypeOK
    <3>2. TypeOK'
      <4>1. oldest \in 1 .. last + 1 BY <1>t DEF TypeOK
      <4>2. oldest \in 1 .. last' + 1
        <5>1. last \in Nat /\ last' \in Nat /\ last <= last' BY <3>1
        <5> QED BY <4>1, <5>1, StaysInside, Zenon
      <4>3. oldest' \in 1 .. last' + 1 BY <4>2, <3>1, Zenon
      <4> QED BY <4>3, <3>1, <1>t DEF TypeOK
    <3>3. RangesSound'
      <4>1. \A c \in checkpoints \cup {f.cp : f \in flights} : c \in Checkpoint
        BY <1>t DEF TypeOK, Flight
      <4> QED BY <4>1, <3>1 DEF IInv, RangesSound, Checkpoint
    <3> QED BY <3>1, <3>2, <3>3
          DEF IInv, RangesDisjoint, FlightContinues, RootsKept, BurstCounted
  <2> QED BY <2>2, <2>3, <1>1 DEF NotifyAppend
<1>2. CASE TimerTick
  <2>1. /\ AnchorIfNeeded(TimerMin, last') /\ last' \in last .. MaxSeq /\ life # "down"
        /\ starting' \in {"verifying", "anchoring", "ticking"} /\ appends' \in Nat
        /\ UNCHANGED <<oldest, checkpoints, archive, accepted, life, bounds>>
    BY <1>2, <1>t, <1>d DEF TimerTick, TypeOK, store
  <2> QED BY <2>1, AnchorKeepsIInv
<1>3. CASE StartAnchors
  <2>1. /\ AnchorIfNeeded(TimerMin, last') /\ last' \in last .. MaxSeq /\ life # "down"
        /\ starting' \in {"verifying", "anchoring", "ticking"} /\ appends' \in Nat
        /\ UNCHANGED <<oldest, checkpoints, archive, accepted, life, bounds>>
    BY <1>3, <1>t DEF StartAnchors, TypeOK, store
  <2> QED BY <2>1, AnchorKeepsIInv
<1>4. CASE DeAccepts BY <1>4, AcceptKeepsIInv
<1>5. CASE AnchorSucceeds BY <1>5, SucceedKeepsIInv
<1>6. CASE AnchorFails BY <1>6, FailKeepsIInv
<1>7. CASE Tick BY <1>7, TickKeepsIInv
<1>8. CASE Register BY <1>8, <1>t, LifeKeepsIInv DEF Register, TypeOK, bounds
<1>9. CASE StartTimer
  <2>1. life \in {"running", "stopping", "closed"} BY <1>9, <1>t, <1>d DEF StartTimer, TypeOK
  <2> QED BY <1>9, <1>t, <2>1, LifeKeepsIInv DEF StartTimer, TypeOK, bounds
<1>10. CASE Stop BY <1>10, <1>t, LifeKeepsIInv DEF Stop, TypeOK
<1>11. CASE StopReturns BY <1>11, <1>t, LifeKeepsIInv DEF StopReturns, TypeOK, bounds
<1>12. CASE Exit
  <2>1. flights = {} BY <1>12 DEF Exit, IInv, FlightContinues
  <2> QED BY <1>12, <1>t, <2>1, EndKeepsIInv DEF Exit, TypeOK, bounds
<1>13. CASE Crash BY <1>13, <1>t, EndKeepsIInv DEF Crash, TypeOK
<1>14. CASE \E k \in oldest + 1 .. last + 1 : Prune(k) BY <1>14, PruneKeepsIInv
<1>15. CASE UNCHANGED vars
  <2>1. UNCHANGED <<last, oldest, checkpoints, archive, accepted, life, starting, flights,
                    appends, failures, backoff, wait, burst, prunes, stops, mishaps>>
    BY <1>15 DEF vars, store, breaker, bounds
  <2>2. TypeOK' BY <1>t, <2>1 DEF TypeOK
  <2> QED BY <2>1, <2>2
        DEF IInv, RangesDisjoint, FlightContinues, RangesSound, RootsKept, BurstCounted
<1> QED BY <1>1, <1>2, <1>3, <1>4, <1>5, <1>6, <1>7, <1>8, <1>9, <1>10, <1>11, <1>12, <1>13,
          <1>14, <1>15 DEF Next

(* The invariant holds in every reachable state. *)
THEOREM Inductive == Spec => []IInv
<1> QED BY InitIInv, NextKeepsIInv, PTL DEF Spec

(* Single flight and the choice of the start keep active ranges apart.      *)
THEOREM RangesAreDisjoint == Spec => []RangesDisjoint
<1>1. IInv => RangesDisjoint BY DEF IInv
<1> QED BY <1>1, Inductive, PTL

(* Range and root are read in one step, so they agree at every checkpoint.  *)
THEOREM CleanUntilPruned == Spec => []CleanUnlessPruned
<1>1. IInv => CleanUnlessPruned
  <2> SUFFICES ASSUME IInv, oldest = 1 PROVE ~RootMismatch /\ ~EventsMissing
    BY DEF CleanUnlessPruned
  <2>1. ASSUME NEW c \in checkpoints
        PROVE  {r \in Rows : r <= c.end} = 1 .. c.root /\ c.end \in Rows
    <3>1. c \in Checkpoint /\ last \in Nat BY DEF IInv, TypeOK
    <3>2. c.end <= last /\ c.root = c.end BY DEF IInv, RangesSound
    <3> QED BY <3>1, <3>2 DEF Checkpoint, Rows
  <2>2. \A c \in checkpoints : c.end \in Int BY DEF IInv, TypeOK, Checkpoint
  <2> QED BY <2>1, <2>2 DEF RootMismatch, EventsMissing
<1> QED BY <1>1, Inductive, PTL

(* stop() waits for the submission under way and its checkpoint.            *)
THEOREM NoneOrphaned == Spec => []NoOrphans
<1>1. IInv => NoOrphans BY DEF IInv, NoOrphans, FlightContinues, RootsKept
<1> QED BY <1>1, Inductive, PTL

(* The breaker bounds the failures between two advances of the clock.       *)
THEOREM NoRetryStorm == Spec => []NoStorm
<1>1. IInv => NoStorm
  BY AnchorAssumption DEF IInv, TypeOK, BurstCounted, NoStorm
<1> QED BY <1>1, Inductive, PTL
=============================================================================
