------------------------------ MODULE Anchoring ------------------------------
(***************************************************************************)
(* Anchoring the SMT root to Digital Evidence: ActiveAnchorService with    *)
(* its single flight, threshold, timer and circuit breaker; the integrity  *)
(* checkpoints in the audit store; the retention prune that archives them; *)
(* and the verdict of Verifier.verifyRange on what is left.                *)
(*                                                                         *)
(* The audit rows are the sequences oldest .. last.  The SMT holds a leaf  *)
(* for every event ever appended (SmtService's NothingLost), so its root   *)
(* is the number of events in it.  A checkpoint, and a submission under    *)
(* way, has                                                                *)
(*   start, end   sequence_start and sequence_end                          *)
(*   root         the anchored root                                        *)
(***************************************************************************)
EXTENDS Integers, FiniteSets

CONSTANTS
  MaxSeq,       (* bound on the number of events                            *)
  Threshold,    (* deEventThreshold                                         *)
  TimerMin,     (* deTimerMinEvents                                         *)
  BreakAfter,   (* CIRCUIT_BREAKER_THRESHOLD                                *)
  BaseDelay,    (* CIRCUIT_BREAKER_BASE_MS, in clock ticks                  *)
  MaxDelay,     (* CIRCUIT_BREAKER_MAX_MS, in clock ticks                   *)
  MaxPrunes,    (* bound on the prunes that delete rows                     *)
  MaxStops,     (* bound on orderly stops                                   *)
  MaxMishaps    (* bound on crashes and lost replies, together              *)

ASSUME AnchorAssumption ==
  /\ MaxSeq \in Nat /\ Threshold \in Nat \ {0} /\ TimerMin \in Nat \ {0}
  /\ BreakAfter \in Nat \ {0} /\ BaseDelay \in Nat \ {0} /\ MaxDelay \in Nat
  /\ BaseDelay <= MaxDelay
  /\ MaxPrunes \in Nat /\ MaxStops \in Nat /\ MaxMishaps \in Nat

VARIABLES
  last,         (* highest sequence assigned                                *)
  oldest,       (* lowest sequence a prune has left, or last + 1            *)
  checkpoints,  (* integrity_checkpoints                                    *)
  archive,      (* checkpoint_archive                                       *)
  accepted,     (* roots that DE has accepted                               *)
  life,         (* "down", "running", "stopping" (stop() awaits),           *)
                (* "closed" (the store is)                                  *)
  starting,     (* where start() is: "verifying", "anchoring", "ticking"    *)
  flights,      (* submissions under way: anchorPromise                     *)
  appends,      (* appendsSinceLastCheckpoint                               *)
  failures,     (* consecutiveFailures                                      *)
  backoff,      (* delay of the next trip, from circuitOpenCount            *)
  wait,         (* ticks until circuitOpenUntil; 0 once it has passed       *)
  burst,        (* submissions failed since the last tick or success        *)
  prunes, stops, mishaps

store   == <<last, oldest, checkpoints, archive>>
breaker == <<failures, backoff, wait, burst>>
bounds  == <<prunes, stops, mishaps>>
vars    == <<store, accepted, life, starting, flights, appends, breaker, bounds>>

-----------------------------------------------------------------------------
Checkpoint == [start : 1 .. MaxSeq, end : 1 .. MaxSeq, root : 1 .. MaxSeq]
Flight     == [cp : Checkpoint, state : {"sent", "accepted"}]

Init ==
  /\ last = 0 /\ oldest = 1 /\ checkpoints = {} /\ archive = {} /\ accepted = {}
  /\ life = "down" /\ starting = "verifying" /\ flights = {} /\ appends = 0
  /\ failures = 0 /\ backoff = BaseDelay /\ wait = 0 /\ burst = 0
  /\ prunes = 0 /\ stops = 0 /\ mishaps = 0

LoseMemory ==
  /\ life' = "down" /\ starting' = "verifying" /\ flights' = {} /\ appends' = 0
  /\ failures' = 0 /\ backoff' = BaseDelay /\ wait' = 0 /\ burst' = 0

Stopped == life \in {"stopping", "closed"}

-----------------------------------------------------------------------------
(* anchorIfNeeded. *)

(* Mutant: the breaker never lets a probe through. *)
CircuitOpenForever == failures >= BreakAfter

CircuitOpen == failures >= BreakAfter /\ wait > 0

(* s is one past the highest end of an active checkpoint, or 1 without any. *)
StartsAt(s) ==
  /\ \A c \in checkpoints : c.end < s
  /\ (checkpoints = {} /\ s = 1) \/ \E c \in checkpoints : s = c.end + 1

(* countAndMaxSince(s), n being the highest sequence. *)
CountSince(s, n) == Cardinality({r \in oldest .. n : r >= s})

(* doAnchor up to the await: range and root are read in one step. *)
DoAnchor(min, n) ==
  \E s \in 1 .. n + 1 :
    /\ StartsAt(s)
    /\ flights' = IF CountSince(s, n) < min THEN flights
                  ELSE flights \cup
                    {[cp |-> [start |-> s, end |-> n, root |-> n], state |-> "sent"]}

(* Mutant: callers do not share the submission under way. *)
AnchorIfNeededRacing(min, n) ==
  /\ IF Stopped \/ CircuitOpen
       THEN UNCHANGED <<flights, failures>>
       ELSE /\ failures' = IF failures >= BreakAfter THEN BreakAfter - 1 ELSE failures
            /\ DoAnchor(min, n)
  /\ UNCHANGED <<backoff, wait, burst>>

AnchorIfNeeded(min, n) ==
  /\ IF Stopped \/ flights # {} \/ CircuitOpen
       THEN UNCHANGED <<flights, failures>>
       ELSE /\ failures' = IF failures >= BreakAfter THEN BreakAfter - 1 ELSE failures
            /\ DoAnchor(min, n)
  /\ UNCHANGED <<backoff, wait, burst>>

(* A row is appended, its leaf inserted, and the service notified. *)
NotifyAppend ==
  /\ life \in {"running", "stopping"} /\ last < MaxSeq
  /\ last' = last + 1
  /\ appends' = IF Stopped THEN appends ELSE appends + 1
  /\ IF appends' >= Threshold /\ ~Stopped THEN AnchorIfNeeded(Threshold, last + 1)
                                          ELSE UNCHANGED <<flights, breaker>>
  /\ UNCHANGED <<oldest, checkpoints, archive, accepted, life, starting, bounds>>

TimerTick ==
  /\ starting = "ticking"
  /\ AnchorIfNeeded(TimerMin, last)
  /\ UNCHANGED <<store, accepted, life, starting, appends, bounds>>

-----------------------------------------------------------------------------
(* The submission. *)

DeAccepts ==
  \E f \in flights :
    /\ f.state = "sent"
    /\ flights' = (flights \ {f}) \cup {[f EXCEPT !.state = "accepted"]}
    /\ accepted' = accepted \cup {f.cp.root}
    /\ UNCHANGED <<store, life, starting, appends, breaker, bounds>>

(* Mutant: the range is read again after the await. *)
AnchoredLate(f) == [f.cp EXCEPT !.end = last]

(* The checkpoint that is inserted for a submission. *)
Anchored(f) == f.cp

AnchorSucceeds ==
  \E f \in flights :
    /\ f.state = "accepted" /\ life # "closed"
    /\ checkpoints' = checkpoints \cup {Anchored(f)}
    /\ flights' = flights \ {f}
    /\ failures' = 0 /\ backoff' = BaseDelay /\ burst' = 0 /\ appends' = 0
    /\ UNCHANGED <<last, oldest, archive, accepted, life, starting, wait, bounds>>

Doubled(d) == IF 2 * d < MaxDelay THEN 2 * d ELSE MaxDelay

(* Mutant: the breaker opens without a deadline. *)
RecordFailureNoDeadline ==
  /\ failures' = failures + 1 /\ burst' = burst + 1
  /\ UNCHANGED <<backoff, wait>>

RecordFailure ==
  /\ failures' = failures + 1
  /\ IF failures' >= BreakAfter
       THEN wait' = backoff /\ backoff' = Doubled(backoff)
       ELSE UNCHANGED <<backoff, wait>>
  /\ burst' = burst + 1

(* DE refuses or cannot be reached, or its reply is lost, or the store does *)
(* not take the checkpoint any more.                                        *)
AnchorFails ==
  \E f \in flights :
    /\ IF f.state = "sent" \/ life = "closed"
         THEN UNCHANGED mishaps
         ELSE mishaps < MaxMishaps /\ mishaps' = mishaps + 1
    /\ flights' = flights \ {f}
    /\ RecordFailure
    /\ appends' = 0
    /\ UNCHANGED <<store, accepted, life, starting, prunes, stops>>

(* The clock advances. *)
Tick ==
  /\ wait > 0 \/ burst > 0
  /\ wait' = IF wait > 0 THEN wait - 1 ELSE 0
  /\ burst' = 0
  /\ UNCHANGED <<store, accepted, life, starting, flights, appends, failures, backoff, bounds>>

-----------------------------------------------------------------------------
(* Life cycle.  stop() may come while start() still waits. *)

Register ==
  /\ life = "down"
  /\ life' = "running"
  /\ UNCHANGED <<store, accepted, starting, flights, appends, breaker, bounds>>

StartAnchors ==
  /\ life # "down" /\ starting = "verifying"
  /\ AnchorIfNeeded(TimerMin, last)
  /\ starting' = "anchoring"
  /\ UNCHANGED <<store, accepted, life, appends, bounds>>

StartTimer ==
  /\ starting = "anchoring" /\ flights = {}
  /\ starting' = "ticking"
  /\ UNCHANGED <<store, accepted, life, flights, appends, breaker, bounds>>

Stop ==
  /\ life = "running" /\ stops < MaxStops
  /\ life' = "stopping" /\ stops' = stops + 1
  /\ UNCHANGED <<store, accepted, starting, flights, appends, breaker, prunes, mishaps>>

(* Mutant: stop() does not wait for the submission under way. *)
StopReturnsAtOnce ==
  /\ life = "stopping"
  /\ life' = "closed"
  /\ UNCHANGED <<store, accepted, starting, flights, appends, breaker, bounds>>

(* stop() returns; the services that stop after it close the store. *)
StopReturns ==
  /\ life = "stopping" /\ flights = {}
  /\ life' = "closed"
  /\ UNCHANGED <<store, accepted, starting, flights, appends, breaker, bounds>>

Exit ==
  /\ life = "closed"
  /\ LoseMemory
  /\ UNCHANGED <<store, accepted, bounds>>

Crash ==
  /\ life # "down" /\ mishaps < MaxMishaps /\ mishaps' = mishaps + 1
  /\ LoseMemory
  /\ UNCHANGED <<store, accepted, prunes, stops>>

(* AuditStore.prune: the rows below k are deleted, and every checkpoint     *)
(* that starts below them is archived.                                      *)
Prune(k) ==
  /\ life \in {"running", "stopping"} /\ prunes < MaxPrunes
  /\ oldest' = k
  /\ archive' = archive \cup {c \in checkpoints : c.start < k}
  /\ checkpoints' = {c \in checkpoints : c.start >= k}
  /\ prunes' = prunes + 1
  /\ UNCHANGED <<last, accepted, life, starting, flights, appends, breaker, stops, mishaps>>

-----------------------------------------------------------------------------
Next ==
  \/ NotifyAppend \/ TimerTick
  \/ DeAccepts \/ AnchorSucceeds \/ AnchorFails \/ Tick
  \/ Register \/ StartAnchors \/ StartTimer \/ Stop \/ StopReturns \/ Exit \/ Crash
  \/ \E k \in oldest + 1 .. last + 1 : Prune(k)

Spec == Init /\ [][Next]_vars

(* The host starts the plugin, timers fire, the clock advances; DE accepts  *)
(* if it is asked again and again, and an accepted submission is answered.  *)
Fairness ==
  /\ WF_vars(Register) /\ WF_vars(StartAnchors) /\ WF_vars(StartTimer)
  /\ WF_vars(StopReturns) /\ WF_vars(Exit)
  /\ WF_vars(TimerTick) /\ WF_vars(Tick)
  /\ SF_vars(DeAccepts) /\ WF_vars(AnchorSucceeds)

FairSpec == Spec /\ Fairness

-----------------------------------------------------------------------------
(* The verdict of Verifier.verifyRange: a clean replay of the rows meets    *)
(* the checkpoints in the order of their ranges, and stops at the first     *)
(* whose end it does not meet.                                              *)

Rows == oldest .. last

Met(c) == \A d \in checkpoints : d.start <= c.start => d.end \in Rows

RootMismatch ==
  \E c \in checkpoints : Met(c) /\ {r \in Rows : r <= c.end} # 1 .. c.root

(* The rows are exhausted below the last checkpoint's end. *)
EventsMissing == \E c \in checkpoints : \A r \in Rows : r < c.end

-----------------------------------------------------------------------------
(* Properties. *)

TypeOK ==
  /\ last \in 0 .. MaxSeq /\ oldest \in 1 .. last + 1
  /\ checkpoints \in SUBSET Checkpoint /\ archive \in SUBSET Checkpoint
  /\ accepted \in SUBSET (1 .. MaxSeq)
  /\ life \in {"down", "running", "stopping", "closed"}
  /\ starting \in {"verifying", "anchoring", "ticking"}
  /\ flights \in SUBSET Flight
  /\ appends \in Nat /\ failures \in 0 .. BreakAfter /\ backoff \in 1 .. MaxDelay
  /\ wait \in 0 .. MaxDelay /\ burst \in Nat
  /\ prunes \in 0 .. MaxPrunes /\ stops \in 0 .. MaxStops /\ mishaps \in 0 .. MaxMishaps

(* No event is in the range of two active checkpoints, however threshold,   *)
(* timer, retries, restarts and prunes meet: a row has one covering anchor. *)
RangesDisjoint ==
  \A c, d \in checkpoints : c # d => c.end < d.start \/ d.end < c.start

(* The verifier raises no alarm over an untouched trail: each checkpoint's  *)
(* root is the one a replay reaches at the checkpoint's end.                *)
CleanUnlessPruned == oldest = 1 => ~RootMismatch /\ ~EventsMissing

(* A root DE has accepted is in a checkpoint when an orderly stop is done:  *)
(* only a crash or a lost reply leaves an anchor the store does not know.   *)
NoOrphans ==
  life = "closed" /\ mishaps = 0 =>
    \A r \in accepted : \E c \in checkpoints \cup archive : c.root = r

(* "Never an unbounded retry storm": between two advances of the clock at   *)
(* most BreakAfter submissions fail, through trips, probes and half-open    *)
(* checks that found nothing to anchor.                                     *)
NoStorm == burst <= BreakAfter

(* Every event is covered by a checkpoint, or pruned, if DE can be reached  *)
(* again and again, whatever trips the breaker and whoever stops.           *)
AllAnchored ==
  \A e \in 1 .. MaxSeq :
    e <= last ~> e < oldest \/ \E c \in checkpoints \cup archive : e \in c.start .. c.end
-----------------------------------------------------------------------------
(* The inductive invariant. *)

(* One submission at a time; it continues the active ranges, was let        *)
(* through by the breaker, and ends before the process and the store do.    *)
FlightContinues ==
  /\ \A f, g \in flights : f = g
  /\ \A f \in flights : \A c \in checkpoints : c.end < f.cp.start
  /\ flights # {} => failures < BreakAfter
  /\ life \in {"down", "closed"} => flights = {}
  /\ life = "down" => starting = "verifying"

(* Ranges are not empty, inside the log, and end at the event whose root    *)
(* they carry.                                                              *)
RangesSound ==
  \A c \in checkpoints \cup {f.cp : f \in flights} :
    c.start <= c.end /\ c.end <= last /\ c.root = c.end

(* An accepted root is in a checkpoint or about to be. *)
RootsKept ==
  mishaps = 0 =>
    \A r \in accepted :
      \/ \E c \in checkpoints \cup archive : c.root = r
      \/ \E f \in flights : f.state = "accepted" /\ f.cp.root = r

(* Failures since the last tick are consecutive; a tripped breaker stays    *)
(* shut until one has come.                                                 *)
BurstCounted ==
  /\ failures < BreakAfter => burst <= failures
  /\ failures = BreakAfter => burst <= BreakAfter /\ (wait = 0 => burst = 0)

IInv ==
  TypeOK /\ RangesDisjoint /\ FlightContinues /\ RangesSound /\ RootsKept /\ BurstCounted
=============================================================================
