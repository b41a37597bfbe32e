----------------------------- MODULE EventStream -----------------------------
(***************************************************************************)
(* What the way from the hooks to the audit log promises: events are       *)
(* numbered as they arrive; each one waits, is recorded or is lost, and    *)
(* only an urgent one is recorded before one that arrived earlier.         *)
(***************************************************************************)
EXTENDS Integers

VARIABLES
  arrived,   (* events so far: 1 .. arrived *)
  pending, recorded, lost,
  urgent     (* the events that did not queue *)

vars == <<arrived, pending, recorded, lost, urgent>>

Init == arrived = 0 /\ pending = {} /\ recorded = {} /\ lost = {} /\ urgent = {}

(* An event waits, or is recorded at once if none waits, or is lost; an     *)
(* urgent one does not wait for the others.                                 *)
Arrive ==
  /\ arrived' = arrived + 1
  /\ \/ /\ pending' = pending \cup {arrived + 1}
        /\ UNCHANGED <<recorded, lost, urgent>>
     \/ /\ recorded' = recorded \cup {arrived + 1}
        /\ urgent' = urgent \/ urgent' = urgent \cup {arrived + 1}
        /\ pending # {} => arrived + 1 \in urgent'
        /\ UNCHANGED <<pending, lost>>
     \/ /\ lost' = lost \cup {arrived + 1}
        /\ UNCHANGED <<pending, recorded, urgent>>

(* The oldest pending events leave; those of L are lost on the way. *)
Leave(P, L) ==
  /\ \A p \in P, q \in pending \ P : p < q
  /\ pending' = pending \ P
  /\ recorded' = recorded \cup (P \ L)
  /\ lost' = lost \cup L
  /\ UNCHANGED <<arrived, urgent>>

Next == Arrive \/ \E P \in SUBSET pending : \E L \in SUBSET P : Leave(P, L)

Spec == Init /\ [][Next]_vars

(* Each event is in exactly one place. *)
Partition ==
  /\ arrived \in Nat /\ urgent \subseteq recorded
  /\ pending \cup recorded \cup lost = 1 .. arrived
  /\ pending \cap recorded = {} /\ pending \cap lost = {} /\ recorded \cap lost = {}

(* Nothing that queued is recorded while something older still waits. *)
OldestFirst == \A r \in recorded \ urgent, p \in pending : r < p

(* Whatever is recorded later is younger than all that queued and is        *)
(* recorded already.                                                        *)
RecordedInOrder ==
  [][\A old \in recorded \ urgent, new \in recorded' \ recorded : old < new]_vars
==============================================================================
