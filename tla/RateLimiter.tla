----------------------------- MODULE RateLimiter -----------------------------
(***************************************************************************)
(* RateLimiter between the hooks and the audit store: direct writes below  *)
(* the per-second threshold, a buffer above it, a drain timer, coalescing  *)
(* when the buffer is full, and the flush that retention's stop makes just *)
(* before it closes the store.  Every method is synchronous, so each is    *)
(* one step.                                                               *)
(*                                                                         *)
(* An insert, and the row it becomes, is a record                          *)
(*   type    its eventType                                                 *)
(*   covers  the events it stands for, a set of arrival numbers            *)
(***************************************************************************)
EXTENDS Integers, Sequences, FiniteSets

CONSTANTS
  Types,        (* event types                                              *)
  Full,         (* those of a full-fidelity category                        *)
  MaxPerSec,    (* rateLimitPerSec                                          *)
  Capacity,     (* rateLimitBufferSize                                      *)
  MaxEvents,    (* bound on the events                                      *)
  MaxRefusals   (* bound on the store's failed inserts                      *)

ASSUME LimiterAssumption ==
  /\ Full \subseteq Types
  /\ MaxPerSec \in Nat /\ Capacity \in Nat \ {0}
  /\ MaxEvents \in Nat /\ MaxRefusals \in Nat

VARIABLES
  kinds,         (* the type of each event handed to append()               *)
  buffer,
  windowEvents,
  stale,         (* a second has passed since windowStart                   *)
  draining,      (* drainTimer is set                                       *)
  rows,          (* audit_events                                            *)
  lost,          (* events dropped, refused by the store, or never written  *)
  refusals,      (* failed inserts so far                                   *)
  process        (* "running", "closed" (the store is), "gone"              *)

vars == <<kinds, buffer, windowEvents, stale, draining, rows, lost, refusals, process>>

-----------------------------------------------------------------------------
Raw(t) == [type |-> t, covers |-> {Len(kinds) + 1}]

(* The events that the inserts of s stand for. *)
Covered(s) == UNION {s[i].covers : i \in DOMAIN s}

(* The positions S from the first to the last. *)
Listing(S) ==
  {f \in [1 .. Cardinality(S) -> S] :
     /\ \A i, j \in DOMAIN f : i < j => f[i] < f[j]
     /\ \A s \in S : \E i \in DOMAIN f : f[i] = s}

Init ==
  /\ kinds = <<>> /\ buffer = <<>> /\ windowEvents = 0 /\ stale = FALSE /\ draining = FALSE
  /\ rows = <<>> /\ lost = {} /\ refusals = 0 /\ process = "running"

-----------------------------------------------------------------------------
(* coalesceBuffer: runs of one type that is not full-fidelity are merged.   *)

(* Mutant: the category is not looked at. *)
JoinsAny(g, x) == x.type = g.type

Joins(g, x) == x.type \notin Full /\ x.type = g.type

Starts(b)   == {i \in DOMAIN b : i = 1 \/ ~Joins(b[i - 1], b[i])}
RunOf(b, i) == {j \in i .. Len(b) : \A h \in i + 1 .. j : h \notin Starts(b)}

(* Mutant: a summary stands for its first insert only. *)
SummaryFirst(b, i) == b[i]

(* flushGroup, of the run that starts at i: a single insert stays as it is. *)
Summary(b, i) == [type |-> b[i].type, covers |-> UNION {b[j].covers : j \in RunOf(b, i)}]

Coalesced(b, starts) == [k \in DOMAIN starts |-> Summary(b, starts[k])]

-----------------------------------------------------------------------------
(* store.append for each insert of s: a closed store refuses, an open one   *)
(* may fail.  Those it keeps become rows in their order.                    *)
StoreAll(s) ==
  \E kept \in SUBSET DOMAIN s : \E at \in Listing(kept) :
    /\ IF process = "running" THEN refusals' = refusals + Cardinality(DOMAIN s \ kept)
                              ELSE kept = {} /\ UNCHANGED refusals
    /\ refusals' <= MaxRefusals
    /\ rows' = rows \o [k \in DOMAIN at |-> s[at[k]]]
    /\ lost' = lost \cup UNION {s[i].covers : i \in DOMAIN s \ kept}

(* Mutant: the window never resets. *)
WindowForever == windowEvents

Window == IF stale THEN 0 ELSE windowEvents

WriteThrough(x) ==
  /\ Window < MaxPerSec /\ buffer = <<>>
  /\ StoreAll(<<x>>)
  /\ windowEvents' = Window + 1
  /\ UNCHANGED <<buffer, draining>>

(* With room, or with room after coalescing, the insert waits. *)
Enqueue(x) ==
  /\ \/ /\ Len(buffer) < Capacity
        /\ buffer' = Append(buffer, x) /\ UNCHANGED lost
     \/ /\ Len(buffer) >= Capacity
        /\ \E starts \in Listing(Starts(buffer)) :
             LET merged == Coalesced(buffer, starts)
             IN  IF Len(merged) < Capacity
                   THEN buffer' = Append(merged, x) /\ UNCHANGED lost
                   ELSE buffer' = merged /\ lost' = lost \cup x.covers
  /\ draining' = TRUE
  /\ windowEvents' = Window
  /\ UNCHANGED <<rows, refusals>>

Buffer(x) == ~(Window < MaxPerSec /\ buffer = <<>>) /\ Enqueue(x)

(* append(): by any hook, also while and after the services stop. *)
AppendInsert(t) ==
  /\ process # "gone" /\ Len(kinds) < MaxEvents
  /\ WriteThrough(Raw(t)) \/ Buffer(Raw(t))
  /\ kinds' = Append(kinds, t)
  /\ stale' = FALSE
  /\ UNCHANGED process

(* drainBuffer, on the 100 ms timer. *)
Quota == IF MaxPerSec - Window < Len(buffer) THEN MaxPerSec - Window ELSE Len(buffer)

(* Mutant: a timeout where the code has an interval. *)
DrainBufferOnce ==
  /\ process # "gone" /\ draining
  /\ StoreAll(SubSeq(buffer, 1, Quota))
  /\ buffer' = SubSeq(buffer, Quota + 1, Len(buffer))
  /\ windowEvents' = Window + Quota
  /\ draining' = FALSE /\ stale' = FALSE
  /\ UNCHANGED <<kinds, process>>

DrainBuffer ==
  /\ process # "gone" /\ draining
  /\ StoreAll(SubSeq(buffer, 1, Quota))
  /\ buffer' = SubSeq(buffer, Quota + 1, Len(buffer))
  /\ windowEvents' = Window + Quota
  /\ draining' = (buffer' # <<>>)
  /\ stale' = FALSE
  /\ UNCHANGED <<kinds, process>>

SecondPasses ==
  /\ ~stale /\ process # "gone"
  /\ stale' = TRUE
  /\ UNCHANGED <<kinds, buffer, windowEvents, draining, rows, lost, refusals, process>>

(* retention's stop(): flush, then close the store. *)
FlushAndClose ==
  /\ process = "running"
  /\ StoreAll(buffer)
  /\ buffer' = <<>> /\ draining' = FALSE
  /\ process' = "closed"
  /\ UNCHANGED <<kinds, windowEvents, stale>>

(* The process ends, in an orderly way or not; the buffer goes with it. *)
ProcessEnds ==
  /\ process # "gone"
  /\ process' = "gone"
  /\ buffer' = <<>> /\ draining' = FALSE
  /\ lost' = lost \cup Covered(buffer)
  /\ UNCHANGED <<kinds, windowEvents, stale, rows, refusals>>

-----------------------------------------------------------------------------
Next ==
  \/ \E t \in Types : AppendInsert(t)
  \/ DrainBuffer \/ SecondPasses \/ FlushAndClose \/ ProcessEnds

Spec == Init /\ [][Next]_vars

(* Timers fire while the process runs, and the clock advances. *)
FairSpec == Spec /\ WF_vars(DrainBuffer) /\ WF_vars(SecondPasses)

-----------------------------------------------------------------------------
(* Properties. *)

(* An event of a full-fidelity category keeps a row of its own, and a       *)
(* summary stands for events of its own type only.                          *)
Fidelity ==
  \A s \in {rows, buffer} : \A i \in DOMAIN s :
    /\ \A e \in s[i].covers : kinds[e] = s[i].type
    /\ s[i].type \in Full => Cardinality(s[i].covers) = 1

(* Nothing waits without a timer that will drain it, however drains, flush  *)
(* and late appends interleave.                                             *)
NeverStuck == buffer # <<>> => draining

(* No event waits for ever: bursts end in the log or are lost. *)
AllSettled ==
  \A e \in 1 .. MaxEvents : e \in DOMAIN kinds ~> e \in Covered(rows) \cup lost

-----------------------------------------------------------------------------
(* The inductive invariant. *)

Insert == [type : Types, covers : SUBSET Nat]

LimiterTypeOK ==
  /\ kinds \in Seq(Types) /\ buffer \in Seq(Insert) /\ rows \in Seq(Insert)
  /\ windowEvents \in 0 .. MaxPerSec /\ refusals \in Nat /\ lost \subseteq DOMAIN kinds
  /\ stale \in BOOLEAN /\ draining \in BOOLEAN /\ process \in {"running", "closed", "gone"}

(* Each insert of s stands for events of the log k that have its type, and  *)
(* for one only if its type is full-fidelity.                               *)
Sound(k, s) ==
  \A i \in DOMAIN s :
    /\ s[i].covers # {} /\ \A e \in s[i].covers : e \in DOMAIN k /\ k[e] = s[i].type
    /\ s[i].type \in Full => \A e, f \in s[i].covers : e = f

(* No event is in two inserts of s; those of an insert are older than those *)
(* of the next.                                                             *)
Apart(s)  == \A i, j \in DOMAIN s : i # j => s[i].covers \cap s[j].covers = {}
Rising(s) == \A i, j \in DOMAIN s :
               i < j => \A p \in s[i].covers, q \in s[j].covers : p < q

LimiterInv ==
  /\ LimiterTypeOK /\ Sound(kinds, rows) /\ Sound(kinds, buffer)
  /\ Apart(rows) /\ Rising(buffer) /\ Covered(rows) \cap Covered(buffer) = {}
=============================================================================
