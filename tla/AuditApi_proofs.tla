-------------------------- MODULE AuditApi_proofs --------------------------
(***************************************************************************)
(* Proofs about the exports and the event table, for any log, any number   *)
(* of requests and any limits and page length:                             *)
(*   every stream that begins gives its slot back once;                    *)
(*   the table shows the answer to what it asked last, a link lands on its *)
(*   row, and a walk misses no row;                                        *)
(*   an export leaves out no row and joins each with its anchor.           *)
(***************************************************************************)
EXTENDS ControlUi, FiniteSetTheorems, WellFoundedInduction, TLAPS

(* While the code of an export runs its stream is open, so that none ends   *)
(* twice.                                                                   *)
StreamsSound ==
  /\ DOMAIN stream = Exports
  /\ \A e \in Exports : "st" \in DOMAIN stream[e]
  /\ \A e \in Exports : thread = e.id => stream[e].st = "open"

SlotInv == SlotsCounted /\ StreamsSound

(* What the streams' states say of the slots. *)
LEMMA UnderFinite == IsFiniteSet(Under) /\ Cardinality(Under) \in Nat
<1>1. Under \subseteq Exports BY DEF Under
<1>2. IsFiniteSet(Under) BY <1>1, ApiAssumption, FS_Subset DEF ApiAssumption
<1> QED BY <1>2, FS_CardinalityType

(* A request that finds every slot taken is refused. *)
LEMMA BusyRefused ==
  ASSUME NEW D, "busy" \in D
  PROVE  Answer("export", D) \notin {200, 500}
<1> DEFINE found == {i \in DOMAIN Checks["export"] : Checks["export"][i] \in D}
<1>1. Checks["export"] = ExportChecks BY DEF Checks
<1>2. 1 \in DOMAIN ExportChecks /\ ExportChecks[1] = "busy" BY DEF ExportChecks
<1>3. found # {} BY <1>1, <1>2
<1>4. \A defect : CodeOf(defect) \in {400, 404, 503} BY DEF CodeOf
<1>5. Answer("export", D) = 403 \/ \E defect : Answer("export", D) = CodeOf(defect)
  BY <1>3 DEF Answer
<1> QED BY <1>4, <1>5

(* One stream changes its state, and the count follows. *)
LEMMA Recount ==
  ASSUME SlotInv, NEW e \in Exports, DOMAIN stream' = Exports,
         \A d \in Exports : "st" \in DOMAIN stream'[d],
         \A d \in Exports : d # e => stream'[d] = stream[d],
         thread' = 0 \/ (thread' = e.id /\ stream'[e].st = "open"),
         \/ (e \in Under' <=> e \in Under) /\ slots' = slots
         \/ e \in Under' /\ e \notin Under /\ slots' = slots + 1 /\ slots < MaxStreams
         \/ e \notin Under' /\ e \in Under /\ slots' = slots - 1
  PROVE  SlotInv'
<1>1. /\ slots = Cardinality(Under) /\ slots <= MaxStreams /\ MaxStreams \in Nat
      /\ IsFiniteSet(Under) /\ slots \in Nat
  BY UnderFinite, ApiAssumption DEF SlotInv, SlotsCounted, ApiAssumption
<1>2. \A d \in Exports : d # e => (d \in Under' <=> d \in Under)
  BY DEF Under
<1>3. Under' \subseteq Exports /\ Under \subseteq Exports BY DEF Under
<1>4. SlotsCounted'
  <2>1. CASE (e \in Under' <=> e \in Under) /\ slots' = slots
    <3>1. Under' = Under BY <1>2, <1>3, <2>1
    <3> QED BY <1>1, <2>1, <3>1 DEF SlotsCounted
  <2>2. CASE e \in Under' /\ e \notin Under /\ slots' = slots + 1 /\ slots < MaxStreams
    <3>1. Under' = Under \cup {e} BY <1>2, <1>3, <2>2
    <3>2. Cardinality(Under \cup {e}) = Cardinality(Under) + 1
      BY <1>1, <2>2, FS_AddElement
    <3> QED BY <1>1, <2>2, <3>1, <3>2 DEF SlotsCounted
  <2>3. CASE e \notin Under' /\ e \in Under /\ slots' = slots - 1
    <3>1. Under' = Under \ {e} BY <1>2, <1>3, <2>3
    <3>2. Cardinality(Under \ {e}) = Cardinality(Under) - 1
      BY <1>1, <2>3, FS_RemoveElement
    <3> QED BY <1>1, <2>3, <3>1, <3>2 DEF SlotsCounted
  <2> QED BY <2>1, <2>2, <2>3
<1>5. StreamsSound'
  <2>1. \A d \in Exports : d.id # 0 /\ (d.id = e.id => d = e)
    BY ApiAssumption DEF ApiAssumption
  <2> QED BY <2>1 DEF StreamsSound
<1> QED BY <1>4, <1>5 DEF SlotInv

(* A stream that ends was open, and gives its slot back. *)
LEMMA FinishKeeps ==
  ASSUME SlotInv, NEW e \in Exports, thread = e.id,
         NEW st \in {"done", "cancelled", "failed"}, Finish(e, st)
  PROVE  SlotInv'
<1>1. DOMAIN stream = Exports /\ "st" \in DOMAIN stream[e] /\ stream[e].st = "open"
      /\ \A d \in Exports : "st" \in DOMAIN stream[d]
  BY DEF SlotInv, StreamsSound
<1>2. /\ stream' = [stream EXCEPT ![e].st = st] /\ slots' = slots - 1 /\ thread' = 0
  BY DEF Finish
<1>3. DOMAIN stream' = Exports /\ \A d \in Exports : d # e => stream'[d] = stream[d]
  BY <1>1, <1>2
<1>4. stream'[e].st = st /\ "st" \in DOMAIN stream'[e] BY <1>1, <1>2
<1>5. e \in Under /\ e \notin Under' BY <1>1, <1>4 DEF Under
<1> QED BY <1>1, <1>2, <1>3, <1>4, <1>5, Recount

(* An export request takes a slot, or is refused and leaves no trace. *)
LEMMA ExportKeeps == ASSUME SlotInv, NEW e \in Exports, Export(e) PROVE SlotInv'
<1>1. /\ DOMAIN stream = Exports /\ stream[e].st = "new"
      /\ \A d \in Exports : "st" \in DOMAIN stream[d]
  BY DEF SlotInv, StreamsSound, Export
<1>2. e \notin Under BY <1>1 DEF Under
<1>3. slots \in Nat /\ MaxStreams \in Nat /\ thread = 0
  BY UnderFinite, ApiAssumption DEF SlotInv, SlotsCounted, ApiAssumption, Export
<1>4. PICK defects \in SUBSET {"format"}, blocked \in BOOLEAN :
        LET busy == IF slots >= MaxStreams THEN {"busy"} ELSE {}
            code == Answer("export", defects \cup busy)
        IN  /\ blocked => e.csv
            /\ IF code \in {200, 500}
               THEN /\ slots' = slots + 1
                    /\ Await(e, blocked)
                    /\ stream' = [stream EXCEPT ![e] =
                         [st |-> Running(blocked), cursor |-> 0,
                          batch |-> << >>, short |-> FALSE, lines |-> << >>,
                          list |-> IF closed THEN << >> ELSE IndexAnchors,
                          gone |-> FALSE, start |-> rows]]
               ELSE /\ stream' = [stream EXCEPT ![e] = [st |-> "refused", code |-> code]]
                    /\ UNCHANGED <<slots, thread>>
  BY DEF Export
<1> DEFINE code == Answer("export",
                          defects \cup (IF slots >= MaxStreams THEN {"busy"} ELSE {}))
<1>5. DOMAIN stream' = Exports /\ \A d \in Exports : d # e => stream'[d] = stream[d]
  BY <1>1, <1>4
<1>6. CASE code \in {200, 500}
  <2>1. slots < MaxStreams BY <1>3, <1>6, BusyRefused
  <2>2. slots' = slots + 1 /\ Await(e, blocked) BY <1>4, <1>6
  <2>3. "st" \in DOMAIN stream'[e] /\ stream'[e].st = Running(blocked)
    BY <1>1, <1>4, <1>6
  <2>4. e \in Under' BY <2>3 DEF Under, Running
  <2>5. thread' = 0 \/ (thread' = e.id /\ stream'[e].st = "open")
    BY <2>2, <2>3 DEF Await, Running
  <2>6. \A d \in Exports : "st" \in DOMAIN stream'[d] BY <1>1, <1>5, <2>3
  <2> QED BY <1>2, <1>5, <2>1, <2>2, <2>4, <2>5, <2>6, Recount
<1>7. CASE code \notin {200, 500}
  <2>1. slots' = slots /\ thread' = 0 BY <1>3, <1>4, <1>7
  <2>2. "st" \in DOMAIN stream'[e] /\ stream'[e].st = "refused" BY <1>1, <1>4, <1>7
  <2>3. e \notin Under' BY <2>2 DEF Under
  <2>4. \A d \in Exports : "st" \in DOMAIN stream'[d] BY <1>1, <1>5, <2>2
  <2> QED BY <1>2, <1>5, <2>1, <2>2, <2>3, <2>4, Recount
<1> QED BY <1>6, <1>7

(* A fetched batch leaves the stream open, or the stream ends. *)
LEMMA FetchKeeps == ASSUME SlotInv, NEW e \in Exports, FetchBatch(e) PROVE SlotInv'
<1>1. /\ DOMAIN stream = Exports /\ thread = e.id /\ stream[e].st = "open"
      /\ \A d \in Exports : "st" \in DOMAIN stream[d]
  BY DEF SlotInv, StreamsSound, FetchBatch
<1>2. \/ \E st \in {"done", "cancelled", "failed"} : Finish(e, st)
      \/ /\ stream' = [stream EXCEPT ![e].batch = NextBatch(e),
                                     ![e].short = Len(NextBatch(e)) < PageSize(e)]
         /\ slots' = slots /\ thread' = thread
  BY DEF FetchBatch
<1>3. CASE \E st \in {"done", "cancelled", "failed"} : Finish(e, st)
  BY <1>1, <1>3, FinishKeeps
<1>4. CASE /\ stream' = [stream EXCEPT ![e].batch = NextBatch(e),
                                       ![e].short = Len(NextBatch(e)) < PageSize(e)]
           /\ slots' = slots /\ thread' = thread
  <2>1. DOMAIN stream' = Exports /\ \A d \in Exports : d # e => stream'[d] = stream[d]
    BY <1>1, <1>4
  <2>2. stream'[e].st = "open" /\ "st" \in DOMAIN stream'[e] BY <1>1, <1>4
  <2>3. e \in Under /\ e \in Under' BY <1>1, <2>2 DEF Under
  <2>4. \A d \in Exports : "st" \in DOMAIN stream'[d] BY <1>1, <2>1, <2>2
  <2> QED BY <1>1, <1>4, <2>1, <2>2, <2>3, <2>4, Recount
<1> QED BY <1>2, <1>3, <1>4

(* A written row leaves the stream under way, perhaps waiting for its client. *)
LEMMA WriteKeeps == ASSUME SlotInv, NEW e \in Exports, WriteRow(e) PROVE SlotInv'
<1>1. /\ DOMAIN stream = Exports /\ thread = e.id /\ stream[e].st = "open"
      /\ \A d \in Exports : "st" \in DOMAIN stream[d]
  BY DEF SlotInv, StreamsSound, WriteRow
<1>2. CASE Finish(e, "cancelled") BY <1>1, <1>2, FinishKeeps
<1>3. CASE ~Finish(e, "cancelled")
  <2>1. PICK blocked \in BOOLEAN :
          /\ stream' = [stream EXCEPT
               ![e].st     = Running(blocked),
               ![e].batch  = Tail(stream[e].batch),
               ![e].cursor = Head(stream[e].batch),
               ![e].lines  = Append(stream[e].lines,
                               [seq |-> Head(stream[e].batch),
                                anchor |-> FindAnchor(stream[e].list, Head(stream[e].batch))])]
          /\ Await(e, blocked) /\ slots' = slots
    BY <1>3 DEF WriteRow
  <2>2. DOMAIN stream' = Exports /\ \A d \in Exports : d # e => stream'[d] = stream[d]
    BY <1>1, <2>1
  <2>3. stream'[e].st = Running(blocked) /\ "st" \in DOMAIN stream'[e] BY <1>1, <2>1
  <2>4. e \in Under /\ e \in Under' BY <1>1, <2>3 DEF Under, Running
  <2>5. thread' = 0 \/ (thread' = e.id /\ stream'[e].st = "open")
    BY <2>1, <2>3 DEF Await, Running
  <2>6. \A d \in Exports : "st" \in DOMAIN stream'[d] BY <1>1, <2>2, <2>3
  <2> QED BY <2>1, <2>2, <2>4, <2>5, <2>6, Recount
<1> QED BY <1>2, <1>3

(* The client reads on or leaves: its stream holds its slot meanwhile. *)
LEMMA ClientKeeps ==
  ASSUME SlotInv, NEW e \in Exports, Resume(e) \/ Disconnect(e) PROVE SlotInv'
<1>1. /\ DOMAIN stream = Exports /\ stream[e].st = "waiting" /\ thread = 0 /\ slots' = slots
      /\ \A d \in Exports : "st" \in DOMAIN stream[d]
  BY DEF SlotInv, StreamsSound, Resume, Disconnect, Resumable
<1>2. DOMAIN stream' = Exports /\ \A d \in Exports : d # e => stream'[d] = stream[d]
  BY <1>1 DEF Resume, Disconnect
<1>3. /\ "st" \in DOMAIN stream'[e]
      /\ \/ thread' = e.id /\ stream'[e].st = "open"
         \/ thread' = 0 /\ stream'[e].st = "waiting"
  BY <1>1 DEF Resume, Disconnect
<1>4. e \in Under /\ e \in Under' BY <1>1, <1>3 DEF Under
<1>5. \A d \in Exports : "st" \in DOMAIN stream'[d] BY <1>1, <1>2, <1>3
<1> QED BY <1>1, <1>2, <1>3, <1>4, <1>5, Recount

LEMMA SlotInvInit == UiInit => SlotInv
<1> SUFFICES ASSUME UiInit PROVE SlotInv OBVIOUS
<1>1. slots = 0 /\ thread = 0 /\ stream = [e \in Exports |-> NewStream]
  BY DEF UiInit, ApiInit
<1>2. \A e \in Exports : stream[e].st = "new" /\ "st" \in DOMAIN stream[e]
  BY <1>1 DEF NewStream
<1>3. Under = {} BY <1>2 DEF Under
<1>4. SlotsCounted BY <1>1, <1>3, FS_EmptySet, ApiAssumption DEF SlotsCounted, ApiAssumption
<1>5. StreamsSound BY <1>1, <1>2, ApiAssumption DEF StreamsSound, ApiAssumption
<1> QED BY <1>4, <1>5 DEF SlotInv

LEMMA SlotInvStep == SlotInv /\ [UiNext]_vars => SlotInv'
<1> SUFFICES ASSUME SlotInv, [UiNext]_vars PROVE SlotInv' OBVIOUS
<1>1. CASE UNCHANGED <<slots, stream, thread>>
  BY <1>1 DEF SlotInv, SlotsCounted, StreamsSound, Under
<1>2. CASE Serve
  <2>1. CASE LogMoves \/ Anchor
    BY <1>1, <2>1 DEF LogMoves, AppendRow, Prune, CloseStore, Anchor
  <2>2. CASE \E e \in Exports : Export(e) \/ Streaming(e) \/ Disconnect(e)
    BY <2>2, ExportKeeps, FetchKeeps, WriteKeeps, ClientKeeps DEF Streaming
  <2> QED BY <1>2, <2>1, <2>2 DEF Serve
<1>3. CASE Browse
  <2>1. UNCHANGED apiVars
    BY <1>3 DEF Browse, OnFilters, FollowLink, ClearFocus, PageBack, PageOn, LastPage,
         JumpToOffset, Load, Ask, Run, RunEmpty, Refresh, Navigate, ServerAnswers,
         NetworkFails, Answered, Delivered
  <2> QED BY <1>1, <2>1 DEF apiVars
<1>4. CASE UNCHANGED vars BY <1>1, <1>4 DEF vars, apiVars
<1> QED BY <1>2, <1>3, <1>4 DEF UiNext

(* The slots in use are the streams under way, and never more than the      *)
(* limit, however requests, disconnections, pruning and the close of the    *)
(* store interleave (ConcurrencyState of ui/export.ts).                     *)
THEOREM SlotsAlwaysCounted == UiSpec => []SlotsCounted
<1>1. SlotInv => SlotsCounted BY DEF SlotInv
<1> QED BY <1>1, SlotInvInit, SlotInvStep, PTL DEF UiSpec

-----------------------------------------------------------------------------
(* The order of the rows. *)

(* A newer row has fewer rows before it. *)
LEMMA NewerFirst ==
  ASSUME NEW S \in SUBSET Int, IsFiniteSet(S), NEW x \in S, NEW y \in S, x > y
  PROVE  Cardinality({z \in S : z > x}) < Cardinality({z \in S : z > y})
<1> DEFINE X == {z \in S : z > x}  Y == {z \in S : z > y}
<1>1. X \subseteq Y /\ x \in Y /\ x \notin X
  <2>1. \A z \in S : z > x => z > y BY x \in Int, y \in Int
  <2>2. ~(x > x) BY x \in Int
  <2> QED BY <2>1, <2>2
<1>2. IsFiniteSet(Y) BY FS_Subset
<1>3. /\ Cardinality(X) <= Cardinality(Y) /\ (Cardinality(X) = Cardinality(Y) => X = Y)
      /\ IsFiniteSet(X)
  BY <1>1, <1>2, FS_Subset
<1>4. Cardinality(X) \in Nat /\ Cardinality(Y) \in Nat BY <1>2, <1>3, FS_CardinalityType
<1> QED BY <1>1, <1>3, <1>4

LEMMA DescendingIs ==
  ASSUME NEW S, Cardinality(S) \in Nat, NEW q, q = Descending(S)
  PROVE  Len(q) = Cardinality(S) /\ q \in Seq({q[i] : i \in 1 .. Len(q)})
<1> DEFINE row(i) == CHOOSE s \in S : Cardinality({x \in S : x > s}) = i - 1
<1>1. q = [i \in 1 .. Cardinality(S) |-> row(i)] BY DEF Descending
<1> HIDE DEF row
<1> QED BY <1>1

(* A row is at its place. *)
LEMMA PlaceOf ==
  ASSUME NEW S \in SUBSET Int, IsFiniteSet(S), NEW x \in S
  PROVE  /\ Cardinality(S) \in Nat
         /\ Cardinality({z \in S : z > x}) \in 0 .. Cardinality(S) - 1
         /\ Descending(S)[Cardinality({z \in S : z > x}) + 1] = x
<1> DEFINE X == {z \in S : z > x}  c == Cardinality(X)
<1>1. X \subseteq S /\ x \notin X OBVIOUS
<1>2. /\ IsFiniteSet(X) /\ c <= Cardinality(S) /\ (c = Cardinality(S) => X = S)
  BY <1>1, FS_Subset
<1>3. c \in Nat /\ Cardinality(S) \in Nat BY <1>2, FS_CardinalityType
<1>4. c \in 0 .. Cardinality(S) - 1 BY <1>1, <1>2, <1>3
<1>5. \A y \in S : Cardinality({z \in S : z > y}) = c => y = x
  <2> SUFFICES ASSUME NEW y \in S, Cardinality({z \in S : z > y}) = c PROVE y = x OBVIOUS
  <2>1. CASE x > y BY <1>3, <2>1, NewerFirst
  <2>2. CASE y > x BY <1>3, <2>2, NewerFirst
  <2> QED BY <2>1, <2>2
<1>6. (CHOOSE s \in S : Cardinality({z \in S : z > s}) = (c + 1) - 1) = x
  <2>1. (c + 1) - 1 = c BY <1>3
  <2> QED BY <1>5, <2>1
<1>7. c + 1 \in 1 .. Cardinality(S) BY <1>3, <1>4
<1> HIDE DEF c
<1>8. Descending(S)[c + 1] = CHOOSE s \in S : Cardinality({z \in S : z > s}) = (c + 1) - 1
  BY <1>7 DEF Descending
<1> QED BY <1>3, <1>4, <1>6, <1>8 DEF c

(* The length of a page, and the rows on it. *)
LEMMA SliceIs ==
  ASSUME NEW V, NEW q \in Seq(V), NEW n, n = Len(q),
         NEW offset \in Nat, NEW limit \in Nat, NEW p, p = Slice(q, offset, limit)
  PROVE  /\ Len(p) \in 0 .. limit
         /\ Len(p) < limit => offset + Len(p) >= n
         /\ \A i \in 1 .. Len(p) : /\ offset + i \in 1 .. n /\ p[i] = q[offset + i]
                                  /\ p[i] \in ToSet(p)
<1>1. n \in Nat /\ Len(q) = n /\ \A i \in 1 .. n : q[i] \in V OBVIOUS
<1> DEFINE m == IF n < offset + limit THEN n ELSE offset + limit
<1>2. p = SubSeq(q, offset + 1, m) BY <1>1 DEF Slice
<1>3. m \in Nat /\ m <= n /\ m <= offset + limit /\ (m < offset + limit => m = n) BY <1>1
<1>4. \A i \in offset + 1 .. m : q[i] \in V BY <1>1, <1>3
<1> HIDE DEF m
<1>6. /\ p \in Seq(V) /\ Len(p) = (IF offset + 1 <= m THEN m - (offset + 1) + 1 ELSE 0)
      /\ \A i \in 1 .. m - (offset + 1) + 1 : p[i] = q[(offset + 1) + i - 1]
  <2>1. offset + 1 \in Int /\ m \in Int BY <1>3
  <2>2. PICK a, b : a = offset + 1 /\ b = m OBVIOUS
  <2>3. a \in Int /\ b \in Int /\ \A i \in a .. b : q[i] \in V BY <1>4, <2>1, <2>2
  <2>4. /\ SubSeq(q, a, b) \in Seq(V)
        /\ Len(SubSeq(q, a, b)) = (IF a <= b THEN b - a + 1 ELSE 0)
        /\ \A i \in 1 .. b - a + 1 : SubSeq(q, a, b)[i] = q[a + i - 1]
    BY <2>3
  <2> QED BY <1>2, <2>2, <2>4
<1>7. \A i \in 1 .. Len(p) : offset + i \in 1 .. n /\ p[i] = q[offset + i]
  <2> TAKE i \in 1 .. Len(p)
  <2>1. offset + 1 <= m /\ Len(p) = m - offset BY <1>3, <1>6
  <2>2. i \in 1 .. m - (offset + 1) + 1 BY <1>3, <2>1
  <2>3. (offset + 1) + i - 1 = offset + i OBVIOUS
  <2>4. offset + i \in 1 .. n BY <1>3, <2>1
  <2> QED BY <1>6, <2>2, <2>3, <2>4
<1>8. /\ Len(p) \in 0 .. limit /\ (Len(p) < limit => offset + Len(p) >= n)
      /\ (offset + Len(p) <= n \/ Len(p) = 0)
  BY <1>3, <1>6
<1>9. DOMAIN p = 1 .. Len(p) BY <1>6
<1>10. \A i \in 1 .. Len(p) : p[i] \in ToSet(p) BY <1>9 DEF ToSet
<1> QED BY <1>1, <1>7, <1>8, <1>10

(* A row whose place is on a page is on it, and one whose place is not      *)
(* before the page and which is not on it comes after it.                   *)
LEMMA OnPage ==
  ASSUME NEW S \in SUBSET Int, IsFiniteSet(S), NEW offset \in Nat, NEW limit \in Nat,
         NEW x \in S, Cardinality({z \in S : z > x}) >= offset
  PROVE  LET hit == Slice(Descending(S), offset, limit)
             c    == Cardinality({z \in S : z > x})
         IN  /\ c < offset + limit => x \in ToSet(hit)
             /\ x \notin ToSet(hit) => c >= offset + Len(hit)
<1> DEFINE c == Cardinality({z \in S : z > x})
<1>0. PICK q, n : q = Descending(S) /\ n = Cardinality(S) OBVIOUS
<1>1. n \in Nat /\ c \in 0 .. n - 1 /\ q[c + 1] = x BY <1>0, PlaceOf
<1> HIDE DEF c
<1>2. n = Len(q) /\ q \in Seq({q[i] : i \in 1 .. Len(q)}) BY <1>0, <1>1, DescendingIs
<1>3. PICK hit : hit = Slice(q, offset, limit) OBVIOUS
<1>4. /\ Len(hit) \in 0 .. limit /\ (Len(hit) < limit => offset + Len(hit) >= n)
      /\ \A i \in 1 .. Len(hit) : hit[i] = q[offset + i] /\ hit[i] \in ToSet(hit)
  <2>1. n \in Nat BY <1>1
  <2>2. Len(hit) \in 0 .. limit /\ (Len(hit) < limit => offset + Len(hit) >= n)
    BY <1>2, <1>3, SliceIs
  <2>3. ASSUME NEW i \in 1 .. Len(hit) PROVE hit[i] = q[offset + i] /\ hit[i] \in ToSet(hit)
    BY <1>2, <1>3, SliceIs
  <2> QED BY <2>2, <2>3
<1>5. c >= offset BY DEF c
<1>6. ASSUME c < offset + Len(hit) PROVE x \in ToSet(hit)
  <2>1. c + 1 - offset \in 1 .. Len(hit) BY <1>1, <1>4, <1>5, <1>6
  <2>2. hit[c + 1 - offset] = q[offset + (c + 1 - offset)] BY <1>4, <2>1
  <2>3. offset + (c + 1 - offset) = c + 1 BY <1>1
  <2> QED BY <1>1, <1>4, <2>1, <2>2, <2>3
<1>7. c < offset + limit => c < offset + Len(hit) BY <1>1, <1>4
<1>8. x \notin ToSet(hit) => c >= offset + Len(hit) BY <1>1, <1>4, <1>6
<1> QED BY <1>0, <1>3, <1>6, <1>7, <1>8 DEF c

-----------------------------------------------------------------------------
(* The event table. *)

LEMMA Params == /\ MaxSeq \in Nat \ {0} /\ PageLen \in Nat \ {0} /\ DOMAIN KindOf = 1 .. MaxSeq
BY ApiAssumption DEF ApiAssumption

LEMMA RowsFinite ==
  ASSUME top \in 0 .. MaxSeq, rows \subseteq 1 .. top
  PROVE  /\ IsFiniteSet(rows) /\ rows \in SUBSET Int /\ 0 \notin rows
         /\ \A S : S \subseteq rows => IsFiniteSet(S) /\ Cardinality(S) \in Nat
<1>1. IsFiniteSet(1 .. top) BY Params, FS_Interval
<1>2. IsFiniteSet(rows) BY <1>1, FS_Subset
<1>3. \A S : S \subseteq rows => IsFiniteSet(S) /\ Cardinality(S) \in Nat
  BY <1>2, FS_Subset, FS_CardinalityType
<1> QED BY <1>2, <1>3, Params

(* Without other filters a query finds the rows of its kind. *)
LEMMA MatchingIs ==
  ASSUME top \in 0 .. MaxSeq, rows \subseteq 1 .. top, NEW k
  PROVE  Matching([NoFilter EXCEPT !.kind = k]) = OfKind(k, rows)
<1>1. PICK f : f = [NoFilter EXCEPT !.kind = k] OBVIOUS
<1>2. f.kind = k /\ f.from = 0 /\ f.to = MaxSeq BY <1>1 DEF NoFilter
<1>3. \A s \in rows : At(s) >= 0 /\ At(s) < MaxSeq + 1
  <2> TAKE s \in rows
  <2>1. s \in 1 .. MaxSeq BY Params
  <2> QED BY <2>1, Params DEF At
<1> QED BY <1>1, <1>2, <1>3 DEF Matching, OfKind

LEMMA PageStart ==
  ASSUME NEW c \in Nat, NEW n \in Nat \ {0}
  PROVE  (c \div n) * n \in Nat /\ (c \div n) * n <= c /\ c < (c \div n) * n + n
BY SMTT(60)

(* The page a row is looked for on begins at most PageLen rows before it. *)
LEMMA FocusStarts ==
  ASSUME top \in 0 .. MaxSeq, rows \subseteq 1 .. top, NEW x
  PROVE  /\ FocusOffset(x) \in Nat
         /\ FocusOffset(x) <= Newer("any", x) /\ Newer("any", x) < FocusOffset(x) + PageLen
<1>1. PICK c : c = Cardinality({s \in rows : s > x}) OBVIOUS
<1>2. c \in Nat BY <1>1, RowsFinite
<1>3. FocusOffset(x) = (c \div PageLen) * PageLen BY <1>1 DEF FocusOffset
<1>4. Newer("any", x) = c BY <1>1 DEF Newer, OfKind
<1> QED BY <1>2, <1>3, <1>4, Params, PageStart

(* What a page is: as many rows as there are from its offset on, up to      *)
(* PageLen; a row at a place on it is there.                                *)
LEMMA PageIs ==
  ASSUME top \in 0 .. MaxSeq, rows \subseteq 1 .. top, NEW used, NEW from \in Nat, NEW q,
         q = Descending(Matching([NoFilter EXCEPT !.kind = used])),
         NEW p, p = Slice(q, from, PageLen)
  PROVE  /\ Len(q) \in Nat /\ Len(p) \in 0 .. PageLen
         /\ Len(p) < PageLen => from + Len(p) >= Len(q)
         /\ \A x \in OfKind(used, rows) : Newer(used, x) < Len(q) /\ Newer(used, x) \in Nat
         /\ \A x \in OfKind(used, rows) : Newer(used, x) >= from =>
              /\ Newer(used, x) < from + PageLen => x \in ToSet(p)
              /\ x \notin ToSet(p) => Newer(used, x) >= from + Len(p)
<1>1. /\ IsFiniteSet(rows) /\ rows \in SUBSET Int
      /\ \A S : S \subseteq rows => IsFiniteSet(S) /\ Cardinality(S) \in Nat
  BY RowsFinite
<1>2. PICK S : S = OfKind(used, rows) OBVIOUS
<1>3. S \subseteq rows /\ S \in SUBSET Int /\ IsFiniteSet(S) /\ Cardinality(S) \in Nat
  <2>1. S \subseteq rows BY <1>2 DEF OfKind
  <2> QED BY <1>1, <2>1
<1>4. q = Descending(S) BY <1>2, MatchingIs
<1>5. Len(q) = Cardinality(S) /\ Len(p) \in 0 .. PageLen
      /\ (Len(p) < PageLen => from + Len(p) >= Cardinality(S))
  <2>1. PICK n \in Nat : n = Cardinality(S) BY <1>3
  <2>2. PageLen \in Nat BY Params
  <2>3. Len(q) = Cardinality(S) /\ q \in Seq({q[i] : i \in 1 .. Len(q)}) BY <1>3, <1>4, DescendingIs
  <2> QED BY <2>2, <2>3, SliceIs
<1>6. \A x : Newer(used, x) = Cardinality({z \in S : z > x}) BY <1>2 DEF Newer
<1>7. \A x \in S : Newer(used, x) < Cardinality(S) /\ Newer(used, x) \in Nat
  <2> TAKE x \in S
  <2>1. Cardinality({z \in S : z > x}) \in 0 .. Cardinality(S) - 1 BY <1>3, PlaceOf
  <2> QED BY <1>3, <1>6, <2>1
<1>8. ASSUME NEW x \in S, Newer(used, x) >= from
      PROVE  /\ Newer(used, x) < from + PageLen => x \in ToSet(p)
             /\ x \notin ToSet(p) => Newer(used, x) >= from + Len(p)
  <2>1. Cardinality({z \in S : z > x}) >= from BY <1>6, <1>8
  <2> QED BY <1>3, <1>4, <1>6, <2>1, Params, OnPage
<1> QED BY <1>2, <1>3, <1>5, <1>7, <1>8

(* What the rows in the log do: they are added at the new end and removed   *)
(* at the old one.                                                          *)
LogMoved ==
  \/ top < MaxSeq /\ rows' = rows \cup {top + 1} /\ top' = top + 1
  \/ top' = top /\ \E s \in rows : rows' = {x \in rows : x > s}
  \/ top' = top /\ rows' = rows

(* A row that stays has no fewer rows before it than it had.                *)
LEMMA NewerGrows ==
  ASSUME top \in 0 .. MaxSeq, rows \subseteq 1 .. top, LogMoved,
         NEW k, NEW x \in 1 .. top, x \in rows'
  PROVE  x \in rows /\ Newer(k, x)' >= Newer(k, x) /\ Newer(k, x) \in Nat /\ Newer(k, x)' \in Nat
<1>1. top \in Nat /\ MaxSeq \in Nat BY Params
<1>2. x \in rows BY <1>1 DEF LogMoved
<1>3. top' \in 0 .. MaxSeq /\ rows' \subseteq 1 .. top' BY <1>1 DEF LogMoved
<1>4. IsFiniteSet(1 .. MaxSeq) BY <1>1, FS_Interval
<1>5. \A S : S \subseteq 1 .. MaxSeq => IsFiniteSet(S) /\ Cardinality(S) \in Nat
  BY <1>4, FS_Subset, FS_CardinalityType
<1> DEFINE A == {y \in OfKind(k, rows) : y > x}
           B == {y \in OfKind(k, rows') : y > x}
<1>6. A \subseteq 1 .. MaxSeq /\ B \subseteq 1 .. MaxSeq
  <2>1. A \subseteq rows /\ B \subseteq rows' BY DEF OfKind
  <2>2. rows \subseteq 1 .. MaxSeq /\ rows' \subseteq 1 .. MaxSeq BY <1>1, <1>3
  <2> QED BY <2>1, <2>2
<1>7. A \subseteq B
  <2>1. \A y \in rows : y > x => y \in rows'
    <3> SUFFICES ASSUME NEW y \in rows, y > x PROVE y \in rows' OBVIOUS
    <3>1. CASE \E s \in rows : rows' = {z \in rows : z > s}
      <4>1. PICK s \in rows : rows' = {z \in rows : z > s} BY <3>1
      <4>2. x > s /\ s \in Int /\ y \in Int /\ x \in Int BY <1>1, <4>1
      <4> QED BY <4>1, <4>2
    <3> QED BY <3>1 DEF LogMoved
  <2> QED BY <2>1 DEF OfKind
<1>8. Cardinality(A) <= Cardinality(B) BY <1>5, <1>6, <1>7, FS_Subset
<1>9. Cardinality(A) \in Nat /\ Cardinality(B) \in Nat BY <1>5, <1>6
<1>10. Newer(k, x) = Cardinality(A) BY DEF Newer
<1>11. Newer(k, x)' = Cardinality(B) BY DEF Newer, OfKind
<1> QED BY <1>2, <1>8, <1>9, <1>10, <1>11

LEMMA BeyondStays ==
  ASSUME top \in 0 .. MaxSeq, rows \subseteq 1 .. top, LogMoved,
         NEW S, S \subseteq 1 .. top, NEW k, NEW r, r.offset \in Nat, Full(r), Beyond(S, k, r)
  PROVE  Beyond(S, k, r)'
<1>1. r.offset + Len(r.page) \in Nat BY Params DEF Full
<1>2. \A x \in S : x \in rows' => /\ x \in rows /\ Newer(k, x)' >= Newer(k, x)
                               /\ Newer(k, x) \in Nat /\ Newer(k, x)' \in Nat
  BY NewerGrows
<1>3. ASSUME NEW x \in S \cap rows' PROVE Newer(k, x)' >= r.offset + Len(r.page)
  <2>1. Newer(k, x) >= r.offset + Len(r.page) BY <1>2, <1>3 DEF Beyond
  <2> QED BY <1>1, <1>2, <1>3, <2>1
<1>4. S \cap rows' \subseteq S \cap rows BY <1>2
<1> QED BY <1>3, <1>4 DEF Beyond

(* The rows of the log change under the table and its answers. *)
LEMMA RowsMove == ASSUME UiInv, LogMoved, UNCHANGED clientVars PROVE UiInv'
<1>1. /\ TableSound /\ AsksAsShown /\ LastShown /\ WalkSound /\ FocusLands
      /\ top \in 0 .. MaxSeq /\ rows \subseteq 1 .. top
  BY DEF UiInv, TableSound
<1>2. /\ open' = open /\ table' = table /\ shown' = shown /\ walk' = walk /\ loads' = loads
      /\ result' = result /\ sent' = sent /\ error' = error /\ overtaken' = overtaken
      /\ flights' = flights
  BY DEF clientVars, page
<1>3. top' \in 0 .. MaxSeq /\ rows' \subseteq 1 .. top' /\ 1 .. top \subseteq 1 .. top'
  <2>1. CASE top < MaxSeq /\ rows' = rows \cup {top + 1} /\ top' = top + 1 BY <1>1, <2>1, Params
  <2>2. CASE top' = top /\ rows' \subseteq rows BY <1>1, <2>2
  <2> QED BY <2>1, <2>2 DEF LogMoved
<1>4. TableSound' BY <1>1, <1>2, <1>3 DEF TableSound
<1>5. AsksAsShown' BY <1>1, <1>2, <1>3 DEF AsksAsShown, Full
<1>6. LastShown' /\ FocusLands' BY <1>1, <1>2 DEF LastShown, FocusLands
<1>7. ASSUME NEW f \in flights, open = "table", f.reply.st = "ok", f.ask.focus = 0, f.ask.offset = 0
      PROVE  Beyond(OfKind(f.ask.input, f.reply.log) \ ToSet(f.reply.page), f.ask.input, f.reply)'
  <2>1. PICK S : S = OfKind(f.ask.input, f.reply.log) \ ToSet(f.reply.page) OBVIOUS
  <2>2. f.reply.offset \in Nat /\ Full(f.reply) /\ f.reply.log \subseteq 1 .. top
    BY <1>1, <1>7 DEF AsksAsShown
  <2>3. S \subseteq 1 .. top /\ Beyond(S, f.ask.input, f.reply)
    BY <1>1, <1>7, <2>1, <2>2 DEF WalkSound, OfKind
  <2>4. Beyond(S, f.ask.input, f.reply)' BY <1>1, <2>2, <2>3, BeyondStays
  <2> QED BY <2>1, <2>4
<1>8. ASSUME walk.on
      PROVE  /\ open = "table" /\ ~table.pending /\ walk.start \subseteq 1 .. top'
             /\ flights = {} => /\ DOMAIN shown = DOMAIN NoPage
                                /\ shown.offset = table.offset /\ shown.total = table.total
                                /\ Full(shown) /\ Beyond(Unseen, table.kind, shown)'
             /\ \A f \in flights :
                  /\ flights = {f} /\ f.id = sent /\ f.ask.focus = 0
                  /\ f.reply = NoReply =>
                       \A x \in Unseen \cap rows' : Newer(table.kind, x)' >= f.ask.offset
                  /\ f.reply.st = "ok" => Beyond(Unseen \ ToSet(f.reply.page), table.kind, f.reply)'
  <2>1. PICK U, k : U = Unseen /\ k = table.kind OBVIOUS
  <2>2. walk.start \subseteq 1 .. top /\ U \subseteq 1 .. top BY <1>1, <1>8, <2>1 DEF WalkSound, Unseen, OfKind
  <2>3. Unseen' = U /\ table'.kind = k BY <1>2, <2>1 DEF Unseen
  <2>4. ASSUME flights = {} PROVE Beyond(Unseen, table.kind, shown)'
    <3>1. PICK r : r = shown OBVIOUS
    <3>2. Full(r) /\ Beyond(U, k, r) /\ r.offset \in Nat
      BY <1>1, <1>8, <2>1, <2>4, <3>1 DEF WalkSound, TableSound
    <3>3. Beyond(U, k, r)' BY <1>1, <2>2, <3>2, BeyondStays
    <3> QED BY <1>2, <2>3, <3>1, <3>3
  <2>5. ASSUME NEW f \in flights, f.reply = NoReply, NEW x \in U, x \in rows'
        PROVE  Newer(k, x)' >= f.ask.offset
    <3>1. x \in rows /\ Newer(k, x)' >= Newer(k, x) /\ Newer(k, x) \in Nat /\ Newer(k, x)' \in Nat
      BY <1>1, <2>2, <2>5, NewerGrows
    <3>2. Newer(k, x) >= f.ask.offset BY <1>1, <1>8, <2>1, <2>5, <3>1 DEF WalkSound
    <3>3. f.ask.offset \in Nat BY <1>1 DEF TableSound
    <3> QED BY <3>1, <3>2, <3>3
  <2>6. ASSUME NEW f \in flights, f.reply.st = "ok"
        PROVE  Beyond(Unseen \ ToSet(f.reply.page), table.kind, f.reply)'
    <3>1. PICK S : S = U \ ToSet(f.reply.page) OBVIOUS
    <3>2. f.reply.offset \in Nat /\ Full(f.reply) BY <1>1, <1>8, <2>6 DEF AsksAsShown, WalkSound
    <3>3. S \subseteq 1 .. top /\ Beyond(S, k, f.reply)
      BY <1>1, <1>8, <2>1, <2>2, <2>6, <3>1 DEF WalkSound
    <3>4. Beyond(S, k, f.reply)' BY <1>1, <3>2, <3>3, BeyondStays
    <3> QED BY <2>3, <3>1, <3>4
  <2>7. /\ open = "table" /\ ~table.pending /\ walk.start \subseteq 1 .. top'
        /\ \A f \in flights : flights = {f} /\ f.id = sent /\ f.ask.focus = 0
        /\ flights = {} => /\ DOMAIN shown = DOMAIN NoPage
                           /\ shown.offset = table.offset /\ shown.total = table.total
                           /\ Full(shown)
    BY <1>1, <1>3, <1>8, <2>2 DEF WalkSound
  <2> QED BY <1>2, <2>1, <2>4, <2>5, <2>6, <2>7
<1>9. WalkSound'
  <2>1. Unseen' = Unseen BY <1>2 DEF Unseen
  <2> QED BY <1>2, <1>7, <1>8, <2>1 DEF WalkSound, Full
<1> QED BY <1>4, <1>5, <1>6, <1>9 DEF UiInv

(* A load joins the flights under an id of its own. *)
LEMMA NewFlight ==
  ASSUME UiInv, NEW ask, NEW S \in SUBSET flights, ask.offset \in Nat,
         loads' = loads + 1, flights' = S \cup {[id |-> loads + 1, ask |-> ask, reply |-> NoReply]}
  PROVE  /\ loads' \in Nat /\ loads + 1 \in 1 .. loads' /\ loads + 1 # 0
         /\ \A f \in flights' : /\ DOMAIN f = {"id", "ask", "reply"}
                                /\ f.id \in 1 .. loads' /\ f.ask.offset \in Nat
         /\ \A f, g \in flights' : f.id = g.id => f = g
         /\ \A f \in flights' : f \in flights \/ (f.id = loads + 1 /\ f.ask = ask /\ f.reply = NoReply)
         /\ \A f \in flights : f.id # loads + 1
         /\ \E f \in flights' : f.id = loads + 1
<1>1. /\ loads \in Nat
      /\ \A f \in flights : /\ DOMAIN f = {"id", "ask", "reply"}
                            /\ f.id \in 1 .. loads /\ f.ask.offset \in Nat
      /\ \A f, g \in flights : f.id = g.id => f = g
  BY DEF UiInv, TableSound
<1>2. PICK g : g = [id |-> loads + 1, ask |-> ask, reply |-> NoReply] OBVIOUS
<1>3. /\ DOMAIN g = {"id", "ask", "reply"} /\ g.id = loads + 1 /\ g.ask = ask
      /\ g.reply = NoReply /\ g \in flights' /\ \A f \in flights' : f \in flights \/ f = g
  BY <1>2
<1>4. \A f \in flights : f.id # loads + 1 /\ f.id \in 1 .. loads + 1 BY <1>1
<1> QED BY <1>1, <1>3, <1>4

(* The table asks for what it now shows; a walk goes on from the next row it *)
(* has not seen.                                                            *)
LEMMA LoadKeeps ==
  ASSUME UiInv, NEW t, Load(t), DOMAIN t = DOMAIN NewTable, {t.offset, t.total} \subseteq Nat,
         t.pending => t.kind = "any",
         \/ walk' = NoWalk
         \/ /\ walk' = walk /\ flights = {} /\ t.kind = table.kind /\ t.pending = table.pending
            /\ walk.on => t.offset <= table.offset + Len(shown.page)
  PROVE  UiInv'
<1>1. /\ TableSound /\ AsksAsShown /\ LastShown /\ WalkSound /\ FocusLands
      /\ open = "table" /\ table' = t /\ error' = FALSE /\ UNCHANGED <<shown, result>>
      /\ loads' = loads + 1 /\ sent' = loads + 1
      /\ flights' = flights \cup {[id |-> loads + 1, ask |-> AskOf(t), reply |-> NoReply]}
      /\ rows' = rows /\ top' = top /\ open' = open /\ overtaken' = overtaken
  BY DEF UiInv, Load, Ask, apiVars, store
<1>2. /\ AskOf(t).input = t.kind /\ AskOf(t).offset = t.offset
      /\ AskOf(t).focus = (IF t.pending THEN t.focus ELSE 0)
  BY DEF AskOf
<1>3. PICK a : a = AskOf(t) OBVIOUS
<1>4. /\ loads' \in Nat /\ loads + 1 \in 1 .. loads' /\ loads + 1 # 0
      /\ \A f \in flights' : /\ DOMAIN f = {"id", "ask", "reply"}
                             /\ f.id \in 1 .. loads' /\ f.ask.offset \in Nat
      /\ \A f, g \in flights' : f.id = g.id => f = g
      /\ \A f \in flights' : f \in flights \/ (f.id = loads + 1 /\ f.ask = a /\ f.reply = NoReply)
      /\ \A f \in flights : f.id # loads + 1
      /\ \E f \in flights' : f.id = loads + 1
  BY <1>1, <1>2, <1>3, NewFlight
<1>5. NoReply.st # "ok" BY DEF NoReply
<1>6. DOMAIN walk' = DOMAIN NoWalk BY <1>1 DEF TableSound
<1>7. TableSound' BY <1>1, <1>4, <1>6 DEF TableSound
<1>8. AsksAsShown'
  <2>1. ASSUME NEW f \in flights', f.id = sent' PROVE f.ask.input = t.kind /\ (f.ask.focus # 0 => t.kind = "any")
    BY <1>1, <1>2, <1>3, <1>4, <2>1
  <2>2. \A f \in flights' : f.reply.st = "ok" => f \in flights BY <1>4, <1>5
  <2> QED BY <1>1, <2>1, <2>2 DEF AsksAsShown, Full
<1>9. LastShown' BY <1>1, <1>4 DEF LastShown
<1>10. FocusLands' BY <1>1, <1>4, <1>5 DEF FocusLands
<1>11. WalkSound'
  <2>1. ASSUME NEW f \in flights', f.reply.st = "ok", f.ask.focus = 0, f.ask.offset = 0
        PROVE  Beyond(OfKind(f.ask.input, f.reply.log) \ ToSet(f.reply.page), f.ask.input, f.reply)'
    <3>1. f \in flights BY <1>4, <1>5, <2>1
    <3>2. Beyond(OfKind(f.ask.input, f.reply.log) \ ToSet(f.reply.page), f.ask.input, f.reply)
      BY <1>1, <2>1, <3>1 DEF WalkSound
    <3> QED BY <1>1, <3>2 DEF Beyond, Newer, OfKind
  <2>2. CASE walk' = NoWalk
    <3>1. ~walk'.on BY <2>2 DEF NoWalk
    <3> QED BY <1>1, <2>1, <3>1 DEF WalkSound
  <2>3. CASE walk' = walk /\ ~walk.on BY <1>1, <2>1, <2>3 DEF WalkSound
  <2>4. CASE /\ walk' = walk /\ walk.on /\ flights = {} /\ t.kind = table.kind
             /\ t.pending = table.pending /\ t.offset <= table.offset + Len(shown.page)
    <3>1. /\ ~table.pending /\ walk.start \subseteq 1 .. top /\ Full(shown)
          /\ shown.offset = table.offset /\ Beyond(Unseen, table.kind, shown)
      BY <1>1, <2>4 DEF WalkSound
    <3>2. Unseen' = Unseen BY <1>1, <2>4 DEF Unseen, OfKind
    <3>3. ASSUME NEW x \in Unseen \cap rows PROVE Newer(table.kind, x) >= a.offset
      <4>1. Newer(table.kind, x) >= table.offset + Len(shown.page) BY <3>1, <3>3 DEF Beyond
      <4>2. x \in rows /\ top \in 0 .. MaxSeq /\ rows \subseteq 1 .. top BY <1>1, <3>3 DEF TableSound
      <4>3. {y \in OfKind(table.kind, rows) : y > x} \subseteq rows BY DEF OfKind
      <4>4. Newer(table.kind, x) \in Nat BY <4>2, <4>3, RowsFinite DEF Newer
      <4>5. table.offset \in Nat /\ Len(shown.page) \in Nat BY <1>1, <3>1, Params DEF TableSound, Full
      <4> QED BY <1>2, <1>3, <2>4, <4>1, <4>4, <4>5
    <3>4. \A f \in flights' : /\ flights' = {f} /\ f.id = sent' /\ f.ask.focus = 0
                             /\ f.reply.st # "ok" /\ f.ask = a
      <4>1. PICK g : flights' = {g} BY <1>1, <2>4
      <4> QED BY <1>1, <1>2, <1>3, <1>4, <1>5, <2>4, <3>1, <4>1
    <3>5. \A x \in Unseen' \cap rows' : Newer(table.kind, x)' >= a.offset
      <4>1. PICK k : k = table.kind OBVIOUS
      <4>2. \A x : Newer(k, x)' = Newer(k, x) BY <1>1 DEF Newer, OfKind
      <4> QED BY <1>1, <2>4, <3>2, <3>3, <4>1, <4>2
    <3>6. flights' # {} BY <1>4
    <3> QED BY <1>1, <2>1, <2>4, <3>1, <3>4, <3>5, <3>6 DEF WalkSound
  <2> QED BY <2>2, <2>3, <2>4
<1> QED BY <1>7, <1>8, <1>9, <1>10, <1>11 DEF UiInv

(* Another page asks, or another view of it. *)
LEMMA AskKeeps ==
  ASSUME UiInv, NEW input, Ask(Asked(input)), open # "table", UNCHANGED <<table, shown, walk>>
  PROVE  UiInv'
<1>1. /\ TableSound /\ AsksAsShown /\ LastShown /\ WalkSound /\ FocusLands
      /\ loads' = loads + 1 /\ sent' = loads + 1
      /\ flights' = flights \cup {[id |-> loads + 1, ask |-> Asked(input), reply |-> NoReply]}
      /\ rows' = rows /\ top' = top /\ open' = open /\ overtaken' = overtaken
      /\ table' = table /\ walk' = walk
  BY DEF UiInv, Ask, apiVars, store
<1>2. Asked(input).offset \in Nat BY DEF Asked
<1>3. /\ loads' \in Nat /\ loads + 1 \in 1 .. loads' /\ loads + 1 # 0
      /\ \A f \in flights' : /\ DOMAIN f = {"id", "ask", "reply"}
                             /\ f.id \in 1 .. loads' /\ f.ask.offset \in Nat
      /\ \A f, g \in flights' : f.id = g.id => f = g
      /\ \E f \in flights' : f.id = loads + 1
  BY <1>1, <1>2, NewFlight
<1>4. TableSound' BY <1>1, <1>3 DEF TableSound
<1>5. AsksAsShown' BY <1>1 DEF AsksAsShown
<1>6. LastShown' BY <1>1, <1>3 DEF LastShown
<1>7. WalkSound' BY <1>1 DEF WalkSound
<1>8. FocusLands' BY <1>1 DEF FocusLands
<1> QED BY <1>4, <1>5, <1>6, <1>7, <1>8 DEF UiInv

(* The focus is cleared, or an empty field reported: nothing is asked. *)
LEMMA NothingAsked ==
  ASSUME UiInv, ClearFocus \/ RunEmpty PROVE UiInv'
<1>1. /\ TableSound /\ AsksAsShown /\ LastShown /\ WalkSound /\ FocusLands
      /\ UNCHANGED <<rows, top, open, shown, result, sent, overtaken, flights, walk, loads>>
  BY DEF UiInv, ClearFocus, RunEmpty, apiVars, store, page
<1>2. \/ table' = table /\ error' = TRUE
      \/ table' = [table EXCEPT !.focus = 0, !.pending = FALSE] /\ error' = error
  BY DEF ClearFocus, RunEmpty, page
<1>3. DOMAIN table = DOMAIN NewTable BY <1>1 DEF TableSound
<1>4. /\ DOMAIN table' = DOMAIN NewTable /\ table'.kind = table.kind /\ table'.offset = table.offset
      /\ table'.total = table.total /\ (table'.pending = table.pending \/ ~table'.pending)
  BY <1>2, <1>3 DEF NewTable
<1>5. TableSound' BY <1>1, <1>4 DEF TableSound
<1>6. AsksAsShown' BY <1>1, <1>4 DEF AsksAsShown, Full
<1>7. LastShown' BY <1>1, <1>2, <1>4 DEF LastShown
<1>8. FocusLands' BY <1>1 DEF FocusLands
<1>9. WalkSound'
  <2>1. Unseen' = Unseen BY <1>1, <1>4 DEF Unseen, OfKind
  <2>2. PICK k, U : k = table.kind /\ U = Unseen OBVIOUS
  <2>3. \A x, m : Newer(m, x)' = Newer(m, x) BY <1>1 DEF Newer, OfKind
  <2>4. \A S, m, r : Beyond(S, m, r)' <=> Beyond(S, m, r) BY <1>1, <2>3 DEF Beyond
  <2>5. WalkSound /\ (\A f \in flights : f \in flights') BY <1>1
  <2>6. ASSUME NEW f \in flights, open = "table", f.reply.st = "ok", f.ask.focus = 0, f.ask.offset = 0
        PROVE  Beyond(OfKind(f.ask.input, f.reply.log) \ ToSet(f.reply.page), f.ask.input, f.reply)'
    <3>1. PICK S : S = OfKind(f.ask.input, f.reply.log) \ ToSet(f.reply.page) OBVIOUS
    <3>2. Beyond(S, f.ask.input, f.reply) BY <1>1, <2>6, <3>1 DEF WalkSound
    <3>3. Beyond(S, f.ask.input, f.reply)' BY <2>4, <3>2
    <3> QED BY <3>1, <3>3
  <2>7. ASSUME walk.on, flights = {} PROVE Beyond(U, k, shown)'
    <3>1. PICK r : r = shown OBVIOUS
    <3>2. Beyond(U, k, r) BY <1>1, <2>2, <2>7, <3>1 DEF WalkSound
    <3>3. Beyond(U, k, r)' BY <2>4, <3>2
    <3> QED BY <1>1, <3>1, <3>3
  <2>8. ASSUME walk.on, NEW f \in flights, f.reply.st = "ok"
        PROVE  Beyond(U \ ToSet(f.reply.page), k, f.reply)'
    <3>1. PICK S : S = U \ ToSet(f.reply.page) OBVIOUS
    <3>2. Beyond(S, k, f.reply) BY <1>1, <2>2, <2>8, <3>1 DEF WalkSound
    <3>3. Beyond(S, k, f.reply)' BY <2>4, <3>2
    <3> QED BY <3>1, <3>3
  <2>9. ASSUME walk.on, NEW f \in flights, f.reply = NoReply, NEW x \in U \cap rows
        PROVE  Newer(k, x)' >= f.ask.offset
    <3>1. Newer(k, x) >= f.ask.offset BY <1>1, <2>2, <2>9 DEF WalkSound
    <3> QED BY <2>3, <3>1
  <2>10. walk.on => /\ open = "table" /\ ~table.pending /\ walk.start \subseteq 1 .. top
                    /\ flights = {} => /\ DOMAIN shown = DOMAIN NoPage
                                       /\ shown.offset = table.offset /\ shown.total = table.total
                                       /\ Full(shown)
                    /\ \A f \in flights : flights = {f} /\ f.id = sent /\ f.ask.focus = 0
    BY <1>1 DEF WalkSound
  <2> QED BY <1>1, <1>4, <2>1, <2>2, <2>6, <2>7, <2>8, <2>9, <2>10 DEF WalkSound, Full
<1> QED BY <1>5, <1>6, <1>7, <1>8, <1>9 DEF UiInv

(* A page opens with the load it starts, or with none. *)
LEMMA NavigateKeeps == ASSUME UiInv, NEW v, Navigate(v) PROVE UiInv'
<1> DEFINE asks == v \in {"table", "status"} \/ ViewOf[v].empty = "asks"
           ask  == IF v = "table" THEN AskOf(NewTable) ELSE Asked("none")
<1>1. /\ TableSound /\ loads \in Nat
      /\ open' = v /\ table' = NewTable /\ walk' = NoWalk /\ result' = 0
      /\ loads' = loads + 1 /\ rows' = rows /\ top' = top
      /\ IF asks
         THEN sent' = loads + 1 /\ flights' = {[id |-> loads + 1, ask |-> ask, reply |-> NoReply]}
         ELSE sent' = 0 /\ flights' = {}
  BY DEF UiInv, TableSound, Navigate, apiVars, store
<1>2. ask.offset = 0 /\ (v = "table" => ask.input = "any" /\ ask.focus = 0)
  BY DEF AskOf, Asked, NewTable
<1>3. v = "table" => asks OBVIOUS
<1> HIDE DEF asks, ask
<1>4. \A f \in flights' : /\ DOMAIN f = {"id", "ask", "reply"} /\ f.id = loads + 1
                         /\ f.ask = ask /\ f.reply = NoReply
  BY <1>1
<1>5. \A f, g \in flights' : f = g BY <1>1
<1>6. NoReply.st # "ok" /\ ~NoWalk.on BY DEF NoReply, NoWalk
<1>7. sent' = 0 \/ \E f \in flights' : f.id = sent'
  <2>1. CASE asks
    <3>1. PICK g : g = [id |-> loads + 1, ask |-> ask, reply |-> NoReply] OBVIOUS
    <3>2. g \in flights' /\ g.id = sent' BY <1>1, <2>1, <3>1
    <3> QED BY <3>2
  <2> QED BY <1>1, <2>1
<1>8. TableSound'
  <2>1. /\ DOMAIN table' = DOMAIN NewTable /\ {table'.offset, table'.total} \subseteq Nat
    BY <1>1 DEF NewTable
  <2> QED BY <1>1, <1>2, <1>4, <1>5, <2>1 DEF TableSound
<1>9. AsksAsShown'
  <2>1. table'.kind = "any" BY <1>1 DEF NewTable
  <2> QED BY <1>1, <1>2, <1>4, <1>6, <2>1 DEF AsksAsShown
<1>10. LastShown' BY <1>1, <1>3, <1>7 DEF LastShown
<1>11. WalkSound' BY <1>1, <1>4, <1>6 DEF WalkSound
<1>12. FocusLands' BY <1>1, <1>4, <1>6 DEF FocusLands
<1> QED BY <1>8, <1>9, <1>10, <1>11, <1>12 DEF UiInv

(* A flight gets its answer, or is lost: a page of the rows there are then. *)
LEMMA AnsweredKeeps ==
  ASSUME UiInv, NEW f \in flights, NEW r, Answered(f, r), r.st # "none",
         open = "table" /\ r.st = "ok" =>
            /\ DOMAIN r = DOMAIN NoPage /\ {r.offset, r.total} \subseteq Nat
            /\ r.kind = IF f.ask.focus = 0 THEN f.ask.input ELSE "any"
            /\ f.ask.focus = 0 => r.offset = f.ask.offset
            /\ r.log \subseteq 1 .. top /\ Full(r)
            /\ f.ask.focus \in r.log => f.ask.focus \in ToSet(r.page)
            /\ f.ask.focus = 0 /\ f.ask.offset = 0 =>
                 Beyond(OfKind(f.ask.input, r.log) \ ToSet(r.page), f.ask.input, r)
            /\ walk.on => Beyond(Unseen \ ToSet(r.page), table.kind, r)
  PROVE  UiInv'
<1>1. /\ TableSound /\ AsksAsShown /\ LastShown /\ WalkSound /\ FocusLands
      /\ flights' = (flights \ {f}) \cup {[f EXCEPT !.reply = r]}
      /\ UNCHANGED <<rows, top, open, table, shown, result, sent, error, overtaken, walk, loads>>
  BY DEF UiInv, Answered, apiVars, store
<1>2. PICK g : g = [f EXCEPT !.reply = r] OBVIOUS
<1>3. /\ DOMAIN g = {"id", "ask", "reply"} /\ g.id = f.id /\ g.ask = f.ask /\ g.reply = r
      /\ g \in flights' /\ \A h \in flights' : h = g \/ (h \in flights /\ h # f)
      /\ \A h \in flights : h = f \/ h \in flights'
  BY <1>1, <1>2 DEF TableSound
<1>4. r # NoReply BY DEF NoReply
<1>5. TableSound' BY <1>1, <1>3 DEF TableSound
<1>6. AsksAsShown' BY <1>1, <1>3 DEF AsksAsShown, Full
<1>7. LastShown'
  <2>1. (\A h \in flights' : h.id # sent) => \A h \in flights : h.id # sent BY <1>3
  <2>2. flights # {} BY <1>1
  <2> QED BY <1>1, <2>1, <2>2 DEF LastShown
<1>8. FocusLands' BY <1>1, <1>3 DEF FocusLands
<1>9. WalkSound'
  <2>1. \A x, m : Newer(m, x)' = Newer(m, x) BY <1>1 DEF Newer, OfKind
  <2>2. \A S, m, q : Beyond(S, m, q)' <=> Beyond(S, m, q) BY <1>1, <2>1 DEF Beyond
  <2>3. Unseen' = Unseen BY <1>1 DEF Unseen, OfKind
  <2>4. ASSUME NEW h \in flights', open = "table", h.reply.st = "ok", h.ask.focus = 0, h.ask.offset = 0
        PROVE  Beyond(OfKind(h.ask.input, h.reply.log) \ ToSet(h.reply.page), h.ask.input, h.reply)'
    <3>1. PICK S : S = OfKind(h.ask.input, h.reply.log) \ ToSet(h.reply.page) OBVIOUS
    <3>2. Beyond(S, h.ask.input, h.reply) BY <1>1, <1>3, <2>4, <3>1 DEF WalkSound
    <3>3. Beyond(S, h.ask.input, h.reply)' BY <2>2, <3>2
    <3> QED BY <3>1, <3>3
  <2>5. ASSUME walk.on
        PROVE  /\ flights = {f} /\ f.id = sent /\ f.ask.focus = 0 /\ open = "table" /\ ~table.pending
               /\ walk.start \subseteq 1 .. top
    BY <1>1, <2>5 DEF WalkSound
  <2>6. ASSUME walk.on PROVE flights' = {g} BY <1>1, <1>2, <2>5, <2>6
  <2>7. ASSUME walk.on, r.st = "ok" PROVE Beyond(Unseen \ ToSet(r.page), table.kind, r)'
    <3>1. PICK S, k : S = Unseen \ ToSet(r.page) /\ k = table.kind OBVIOUS
    <3>2. Beyond(S, k, r) BY <2>5, <2>7, <3>1
    <3>3. Beyond(S, k, r)' BY <2>2, <3>2
    <3> QED BY <1>1, <2>3, <3>1, <3>3
  <2>8. ASSUME walk.on
        PROVE  /\ flights' # {}
               /\ \A h \in flights' :
                    /\ flights' = {h} /\ h.id = sent /\ h.ask.focus = 0 /\ h.reply # NoReply
                    /\ h.reply.st = "ok" => Beyond(Unseen \ ToSet(h.reply.page), table.kind, h.reply)'
    <3>1. flights' = {g} BY <2>6, <2>8
    <3> QED BY <1>3, <1>4, <2>5, <2>7, <2>8, <3>1
  <2> QED BY <1>1, <2>3, <2>4, <2>5, <2>8 DEF WalkSound
<1> QED BY <1>5, <1>6, <1>7, <1>8, <1>9 DEF UiInv

(* The server answers with the page asked for. *)
LEMMA ServerKeeps == ASSUME UiInv, NEW f \in flights, ServerAnswers(f) PROVE UiInv'
<1>1. /\ TableSound /\ AsksAsShown /\ WalkSound /\ Answered(f, Reply(f)) /\ f.reply = NoReply
      /\ top \in 0 .. MaxSeq /\ rows \subseteq 1 .. top /\ f.ask.offset \in Nat
  BY DEF UiInv, TableSound, ServerAnswers
<1>2. PICK r : r = Reply(f) OBVIOUS
<1>3. \/ r = Failed \/ (open # "table" /\ r.st = "ok")
      \/ open = "table" /\ r = EventsPage(f.ask.input, f.ask.offset, f.ask.focus)
  BY <1>2 DEF Reply
<1>4. CASE r = Failed
  <2>1. r.st # "none" /\ r.st # "ok" BY <1>4 DEF Failed
  <2> QED BY <1>1, <1>2, <2>1, AnsweredKeeps
<1>5. CASE open # "table" /\ r.st = "ok" BY <1>1, <1>2, <1>5, AnsweredKeeps
<1>6. CASE open = "table" /\ r = EventsPage(f.ask.input, f.ask.offset, f.ask.focus)
  <2>0. PICK used, from, q, p :
          /\ used = (IF f.ask.focus = 0 THEN f.ask.input ELSE "any")
          /\ from = (IF f.ask.focus = 0 THEN f.ask.offset ELSE FocusOffset(f.ask.focus))
          /\ q = Descending(Matching([NoFilter EXCEPT !.kind = used]))
          /\ p = Slice(q, from, PageLen)
    OBVIOUS
  <2>1. /\ r = [st |-> "ok", page |-> p, kind |-> used, total |-> Len(q), offset |-> from, log |-> rows]
        /\ from \in Nat
    BY <1>1, <1>6, <2>0, FocusStarts DEF EventsPage
  <2>2. /\ r.st = "ok" /\ DOMAIN r = DOMAIN NoPage /\ r.kind = used /\ r.log = rows
        /\ {r.offset, r.total} \subseteq Nat /\ Full(r)
        /\ f.ask.focus = 0 => r.offset = f.ask.offset
        /\ f.ask.focus \in rows => f.ask.focus \in ToSet(r.page)
        /\ \A x \in OfKind(used, rows) : Newer(used, x) < r.total /\ Newer(used, x) \in Nat
        /\ \A x \in OfKind(used, rows) \ ToSet(r.page) :
             Newer(used, x) >= r.offset => Newer(used, x) >= r.offset + Len(r.page)
    <3>1. /\ Len(q) \in Nat /\ Len(p) \in 0 .. PageLen
          /\ Len(p) < PageLen => from + Len(p) >= Len(q)
      BY <1>1, <2>0, <2>1, PageIs
    <3>2. ASSUME NEW x \in OfKind(used, rows)
          PROVE  /\ Newer(used, x) < Len(q) /\ Newer(used, x) \in Nat
                 /\ Newer(used, x) >= from =>
                      /\ Newer(used, x) < from + PageLen => x \in ToSet(p)
                      /\ x \notin ToSet(p) => Newer(used, x) >= from + Len(p)
      BY <1>1, <2>0, <2>1, PageIs
    <3>3. ASSUME f.ask.focus \in rows PROVE f.ask.focus \in ToSet(p)
      <4>1. PICK x \in rows : x = f.ask.focus BY <3>3
      <4>2. x # 0 BY <1>1, RowsFinite
      <4>3. used = "any" /\ from = FocusOffset(x) BY <2>0, <4>1, <4>2
      <4>4. from <= Newer("any", x) /\ Newer("any", x) < from + PageLen
        BY <1>1, <4>3, FocusStarts
      <4>5. x \in OfKind("any", rows) BY DEF OfKind
      <4> QED BY <2>1, <3>2, <4>1, <4>3, <4>4, <4>5
    <3>4. Full(r) BY <2>1, <3>1 DEF Full
    <3>5. r.st = "ok" /\ DOMAIN r = DOMAIN NoPage /\ r.kind = used /\ r.log = rows
          /\ r.page = p /\ r.offset = from /\ r.total = Len(q)
      BY <2>1 DEF NoPage
    <3>6. f.ask.focus = 0 => from = f.ask.offset BY <2>0
    <3> QED BY <2>1, <3>1, <3>2, <3>3, <3>4, <3>5, <3>6
  <2>3. r.offset + Len(r.page) \in Nat BY <2>2, Params DEF Full
  <2>4. ASSUME NEW S, \A x \in S \cap rows : /\ x \in OfKind(used, rows) \ ToSet(r.page)
                                          /\ Newer(used, x) >= r.offset
        PROVE  Beyond(S, used, r)
    <3>1. \A x \in S \cap rows : Newer(used, x) >= r.offset + Len(r.page) BY <2>2, <2>4
    <3>2. ASSUME r.offset + Len(r.page) >= r.total, NEW x \in S \cap rows PROVE FALSE
      <4>1. Newer(used, x) >= r.offset + Len(r.page) /\ Newer(used, x) < r.total /\ Newer(used, x) \in Nat
        BY <2>2, <2>4, <3>1, <3>2
      <4> QED BY <2>2, <2>3, <3>2, <4>1
    <3> QED BY <3>1, <3>2 DEF Beyond
  <2>5. ASSUME f.ask.focus = 0, f.ask.offset = 0
        PROVE  Beyond(OfKind(f.ask.input, r.log) \ ToSet(r.page), f.ask.input, r)
    <3>1. PICK S : S = OfKind(f.ask.input, r.log) \ ToSet(r.page) OBVIOUS
    <3>2. used = f.ask.input /\ r.offset = 0 BY <2>0, <2>2, <2>5
    <3>3. \A x \in S \cap rows : x \in OfKind(used, rows) \ ToSet(r.page) /\ Newer(used, x) >= r.offset
      BY <2>2, <3>1, <3>2 DEF OfKind
    <3>4. Beyond(S, used, r) BY <2>4, <3>3
    <3> QED BY <3>1, <3>2, <3>4
  <2>6. ASSUME walk.on PROVE Beyond(Unseen \ ToSet(r.page), table.kind, r)
    <3>1. /\ f.id = sent /\ f.ask.focus = 0 /\ used = table.kind /\ r.offset = f.ask.offset
          /\ \A x \in Unseen \cap rows : Newer(used, x) >= f.ask.offset
      BY <1>1, <1>6, <2>0, <2>2, <2>6 DEF WalkSound, AsksAsShown
    <3>2. PICK S : S = Unseen \ ToSet(r.page) OBVIOUS
    <3>3. \A x \in S \cap rows : x \in OfKind(used, rows) \ ToSet(r.page) /\ Newer(used, x) >= r.offset
      BY <3>1, <3>2 DEF Unseen, OfKind
    <3>4. Beyond(S, used, r) BY <2>4, <3>3
    <3> QED BY <3>1, <3>2, <3>4
  <2> QED BY <1>1, <1>2, <2>0, <2>2, <2>5, <2>6, AnsweredKeeps
<1> QED BY <1>3, <1>4, <1>5, <1>6

LEMMA NetworkKeeps == ASSUME UiInv, NEW f \in flights, NetworkFails(f) PROVE UiInv'
<1>1. Failed.st # "none" /\ Failed.st # "ok" BY DEF Failed
<1>2. Answered(f, Failed) BY DEF NetworkFails
<1> QED BY <1>1, <1>2, AnsweredKeeps

(* An answer arrives: the page shows it, and a walk has seen its rows. *)
LEMMA DeliveredKeeps == ASSUME UiInv, NEW f \in flights, Delivered(f) PROVE UiInv'
<1> DEFINE ok == f.reply.st = "ok"
<1>1. /\ TableSound /\ AsksAsShown /\ LastShown /\ WalkSound /\ FocusLands
      /\ flights' = flights \ {f}
      /\ overtaken' = (IF f.id = sent THEN FALSE
                       ELSE overtaken \/ ~\E g \in flights : g.id = sent)
      /\ error' = (IF ok THEN error /\ open # "status" ELSE TRUE)
      /\ result' = (IF ok THEN f.id ELSE result)
      /\ UNCHANGED <<rows, top, open, sent, loads>>
      /\ IF open = "table"
         THEN /\ table' = IF ok THEN Adopt(table, f.reply) ELSE [table EXCEPT !.pending = FALSE]
              /\ shown' = IF ok THEN [f.reply EXCEPT !.log = {}] ELSE shown
              /\ walk'  = IF ok THEN Walked(f) ELSE NoWalk
         ELSE UNCHANGED <<table, shown, walk>>
  BY DEF UiInv, Delivered, apiVars, store
<1>2. /\ DOMAIN table = DOMAIN NewTable /\ DOMAIN walk = DOMAIN NoWalk
      /\ {table.offset, table.total} \subseteq Nat
      /\ \A g, h \in flights : g.id = h.id => g = h
      /\ f.id \in 1 .. loads /\ loads \in Nat /\ sent \in 0 .. loads
  BY <1>1 DEF TableSound
<1>3. open = "table" /\ ok =>
        /\ DOMAIN f.reply = DOMAIN NoPage /\ {f.reply.offset, f.reply.total} \subseteq Nat
        /\ f.reply.kind = IF f.ask.focus = 0 THEN f.ask.input ELSE "any"
        /\ f.ask.focus = 0 => f.reply.offset = f.ask.offset
        /\ f.reply.log \subseteq 1 .. top /\ Full(f.reply)
  BY <1>1 DEF AsksAsShown
<1>4. /\ f.id = sent /\ open = "table" => f.ask.input = table.kind
      /\ f.id = sent /\ open = "table" /\ f.ask.focus # 0 => table.kind = "any"
  BY <1>1 DEF AsksAsShown
<1>5. /\ DOMAIN table' = DOMAIN NewTable /\ table'.kind = table.kind
      /\ {table'.offset, table'.total} \subseteq Nat
      /\ open = "table" => ~table'.pending
      /\ open = "table" /\ ok => table'.offset = f.reply.offset /\ table'.total = f.reply.total
      /\ table'.pending => table.pending
  <2>1. CASE open # "table" BY <1>1, <1>2, <2>1
  <2>2. CASE open = "table" /\ ok
    <3>1. table' = [table EXCEPT !.total = f.reply.total, !.offset = f.reply.offset, !.pending = FALSE]
      BY <1>1, <2>2 DEF Adopt
    <3> QED BY <1>2, <1>3, <2>2, <3>1 DEF NewTable
  <2>3. CASE open = "table" /\ ~ok
    <3>1. table' = [table EXCEPT !.pending = FALSE] BY <1>1, <2>3
    <3> QED BY <1>2, <2>3, <3>1 DEF NewTable
  <2> QED BY <2>1, <2>2, <2>3
<1>6. open = "table" /\ ok =>
        /\ DOMAIN shown' = DOMAIN NoPage /\ shown'.kind = f.reply.kind /\ shown'.page = f.reply.page
        /\ shown'.offset = f.reply.offset /\ shown'.total = f.reply.total
  <2> SUFFICES ASSUME open = "table", ok
               PROVE  /\ DOMAIN shown' = DOMAIN NoPage /\ shown'.kind = f.reply.kind
                      /\ shown'.page = f.reply.page
                      /\ shown'.offset = f.reply.offset /\ shown'.total = f.reply.total
    OBVIOUS
  <2>1. shown' = [f.reply EXCEPT !.log = {}] /\ DOMAIN f.reply = DOMAIN NoPage BY <1>1, <1>3
  <2> QED BY <2>1 DEF NoPage
<1>7. DOMAIN walk' = DOMAIN NoWalk
  <2>1. DOMAIN Walked(f) = DOMAIN NoWalk BY <1>2 DEF Walked, NoWalk
  <2> QED BY <1>1, <1>2, <2>1
<1>8. TableSound' BY <1>1, <1>5, <1>7 DEF TableSound
<1>9. AsksAsShown' BY <1>1, <1>5 DEF AsksAsShown, Full
<1>10. FocusLands' BY <1>1 DEF FocusLands
<1>11. LastShown'
  <2>1. sent # 0 BY <1>1 DEF LastShown
  <2>2. ASSUME ~error', ~overtaken', \A g \in flights' : g.id # sent
        PROVE  ok /\ f.id = sent
    <3>1. ok BY <1>1, <2>2
    <3>2. f.id = sent \/ \E g \in flights : g.id = sent BY <1>1, <2>2
    <3> QED BY <1>1, <2>2, <3>1, <3>2
  <2>3. ASSUME ok, f.id = sent, open = "table"
        PROVE  shown'.kind = table'.kind /\ shown'.offset = table'.offset /\ shown'.total = table'.total
    <3>1. f.reply.kind = table.kind
      <4>1. CASE f.ask.focus = 0
        <5>1. f.reply.kind = f.ask.input BY <1>3, <2>3, <4>1
        <5> QED BY <1>4, <2>3, <5>1
      <4>2. CASE f.ask.focus # 0
        <5>1. f.reply.kind = "any" BY <1>3, <2>3, <4>2
        <5>2. table.kind = "any" BY <1>4, <2>3, <4>2
        <5> QED BY <5>1, <5>2
      <4> QED BY <4>1, <4>2
    <3> QED BY <1>5, <1>6, <2>3, <3>1
  <2> QED BY <1>1, <2>1, <2>2, <2>3 DEF LastShown
<1>12. WalkSound'
  <2>1. \A x, m : Newer(m, x)' = Newer(m, x) BY <1>1 DEF Newer, OfKind
  <2>2. \A S, m, q : Beyond(S, m, q)' <=> Beyond(S, m, q) BY <1>1, <2>1 DEF Beyond
  <2>3. ASSUME NEW h \in flights', open = "table", h.reply.st = "ok", h.ask.focus = 0, h.ask.offset = 0
        PROVE  Beyond(OfKind(h.ask.input, h.reply.log) \ ToSet(h.reply.page), h.ask.input, h.reply)'
    <3>1. PICK S : S = OfKind(h.ask.input, h.reply.log) \ ToSet(h.reply.page) OBVIOUS
    <3>2. Beyond(S, h.ask.input, h.reply) BY <1>1, <2>3, <3>1 DEF WalkSound
    <3>3. Beyond(S, h.ask.input, h.reply)' BY <2>2, <3>2
    <3> QED BY <3>1, <3>3
  <2>4. ASSUME walk'.on
        PROVE  /\ open = "table" /\ ok /\ flights = {f} /\ f.id = sent /\ f.ask.focus = 0
               /\ walk' = Walked(f)
    <3>1. ~NoWalk.on BY DEF NoWalk
    <3>2. open = "table"
      <4>1. CASE open # "table" BY <1>1, <2>4, <4>1 DEF WalkSound
      <4> QED BY <4>1
    <3>3. ok /\ walk' = Walked(f) BY <1>1, <2>4, <3>1, <3>2
    <3> QED BY <2>4, <3>1, <3>2, <3>3 DEF Walked
  <2>5. ASSUME walk'.on
        PROVE  /\ walk'.start \subseteq 1 .. top
               /\ \E S : /\ Unseen' \subseteq S /\ Beyond(S, table.kind, f.reply)
    <3>1. /\ open = "table" /\ ok /\ flights = {f} /\ f.id = sent /\ f.ask.focus = 0
          /\ walk' = Walked(f)
      BY <2>4, <2>5
    <3>2. PICK P : P = ToSet(f.reply.page) OBVIOUS
    <3>3. CASE f.reply.offset = 0
      <4>1. walk' = [on |-> TRUE, start |-> f.reply.log, seen |-> P]
        BY <3>1, <3>2, <3>3 DEF Walked
      <4>2. Unseen' = OfKind(table.kind, f.reply.log) \ P
        BY <1>5, <4>1 DEF Unseen, OfKind
      <4>3. f.ask.offset = 0 /\ f.ask.input = table.kind
        <5>1. f.reply.offset = f.ask.offset BY <1>3, <3>1
        <5> QED BY <1>4, <3>1, <3>3, <5>1
      <4>4. Beyond(OfKind(table.kind, f.reply.log) \ P, table.kind, f.reply)
        BY <1>1, <3>1, <3>2, <4>3 DEF WalkSound
      <4> QED BY <1>3, <3>1, <4>1, <4>2, <4>4
    <3>4. CASE f.reply.offset # 0
      <4>1. walk' = [walk EXCEPT !.seen = @ \cup P] BY <3>1, <3>2, <3>4 DEF Walked
      <4>2. walk.on /\ walk'.start = walk.start /\ walk'.seen = walk.seen \cup P
        BY <1>2, <2>5, <4>1 DEF NoWalk
      <4>3. Unseen' = Unseen \ P BY <1>5, <4>2 DEF Unseen, OfKind
      <4>4. Beyond(Unseen \ P, table.kind, f.reply) /\ walk.start \subseteq 1 .. top
        BY <1>1, <3>1, <3>2, <4>2 DEF WalkSound
      <4> QED BY <4>2, <4>3, <4>4
    <3> QED BY <3>3, <3>4
  <2>6. ASSUME walk'.on
        PROVE  /\ flights' = {} /\ DOMAIN shown' = DOMAIN NoPage
               /\ shown'.offset = table'.offset /\ shown'.total = table'.total
               /\ Full(shown)' /\ Beyond(Unseen, table.kind, shown)'
    <3>1. open = "table" /\ ok /\ flights = {f} BY <2>4, <2>6
    <3>2. /\ DOMAIN shown' = DOMAIN NoPage /\ shown'.page = f.reply.page
          /\ shown'.offset = f.reply.offset /\ shown'.total = f.reply.total
          /\ shown'.offset = table'.offset /\ shown'.total = table'.total
      BY <1>5, <1>6, <3>1
    <3>3. Full(shown)' BY <1>3, <3>1, <3>2 DEF Full
    <3>4. PICK S, k, U : /\ Unseen' \subseteq S /\ Beyond(S, table.kind, f.reply)
                         /\ k = table.kind /\ U = Unseen'
      BY <2>5, <2>6
    <3>5. /\ \A x \in U \cap rows : Newer(k, x) >= f.reply.offset + Len(f.reply.page)
          /\ f.reply.offset + Len(f.reply.page) >= f.reply.total => U \cap rows = {}
      BY <3>4 DEF Beyond
    <3>6. table'.kind = k /\ Unseen' = U /\ rows' = rows BY <1>1, <1>5, <3>4
    <3>7. Beyond(Unseen, table.kind, shown)'
      <4>1. \A x \in U \cap rows' : Newer(k, x)' >= (shown.offset + Len(shown.page))'
        BY <2>1, <3>2, <3>5, <3>6
      <4> QED BY <3>2, <3>5, <3>6, <4>1 DEF Beyond
    <3> QED BY <1>1, <3>1, <3>2, <3>3, <3>7
  <2>7. ASSUME walk'.on PROVE open' = "table" /\ ~table'.pending /\ walk'.start \subseteq 1 .. top'
    BY <1>1, <1>5, <2>4, <2>5, <2>7
  <2> QED BY <1>1, <2>3, <2>6, <2>7 DEF WalkSound
<1> QED BY <1>8, <1>9, <1>10, <1>11, <1>12 DEF UiInv

LEMMA UiInvInit == UiInit => UiInv
<1> SUFFICES ASSUME UiInit PROVE UiInv OBVIOUS
<1>1. PICK s \in Focuses \cup {0} :
        LET t == [NewTable EXCEPT !.focus = s, !.pending = s # 0]
            first == open = "table"
        IN  /\ first \/ s = 0
            /\ table = t
            /\ flights = IF first THEN {[id |-> 1, ask |-> AskOf(t), reply |-> NoReply]} ELSE {}
            /\ sent = IF first THEN 1 ELSE 0
            /\ loads = IF first THEN 1 ELSE 0
            /\ loading = first
  BY DEF UiInit
<1>2. /\ shown = NoPage /\ result = 0 /\ walk = NoWalk /\ top \in 0 .. 1 /\ rows = 1 .. top
      /\ ~walk.on /\ DOMAIN walk = DOMAIN NoWalk
  BY DEF UiInit, ApiInit, NoWalk
<1>3. /\ DOMAIN table = DOMAIN NewTable /\ table.kind = "any" /\ table.offset = 0 /\ table.total = 0
  BY <1>1 DEF NewTable
<1>4. PICK a : a = AskOf(table) OBVIOUS
<1>5. a.input = "any" /\ a.offset = 0 BY <1>3, <1>4 DEF AskOf
<1>6. PICK g : g = [id |-> 1, ask |-> a, reply |-> NoReply] OBVIOUS
<1>7. /\ DOMAIN g = {"id", "ask", "reply"} /\ g.id = 1 /\ g.ask = a /\ g.reply.st # "ok"
  BY <1>6 DEF NoReply
<1>8. \/ flights = {g} /\ sent = 1 /\ loads = 1
      \/ flights = {} /\ sent = 0 /\ loads = 0 /\ open # "table"
  BY <1>1, <1>4, <1>6
<1>9. top \in 0 .. MaxSeq BY <1>2, Params
<1>10. TableSound BY <1>2, <1>3, <1>5, <1>7, <1>8, <1>9 DEF TableSound
<1>11. AsksAsShown BY <1>3, <1>5, <1>7, <1>8 DEF AsksAsShown
<1>12. LastShown BY <1>2, <1>7, <1>8 DEF LastShown
<1>13. WalkSound BY <1>2, <1>7, <1>8 DEF WalkSound
<1>14. FocusLands BY <1>7, <1>8 DEF FocusLands
<1> QED BY <1>10, <1>11, <1>12, <1>13, <1>14 DEF UiInv

(* What the table asks when a filter, a link or a button changes it. *)
LEMMA TableAsks ==
  ASSUME UiInv, NEW k, NEW s, OnFilters(k) \/ FollowLink(s) PROVE UiInv'
<1>1. /\ DOMAIN table = DOMAIN NewTable /\ {table.offset, table.total} \subseteq Nat
  BY DEF UiInv, TableSound
<1>2. walk' = NoWalk BY DEF OnFilters, FollowLink
<1>3. CASE OnFilters(k)
  <2>1. PICK t : t = [table EXCEPT !.kind = k, !.offset = 0, !.focus = 0, !.pending = FALSE] OBVIOUS
  <2>2. Load(t) BY <1>3, <2>1 DEF OnFilters
  <2>3. /\ DOMAIN t = DOMAIN NewTable /\ {t.offset, t.total} \subseteq Nat /\ ~t.pending
    BY <1>1, <2>1 DEF NewTable
  <2> QED BY <1>2, <2>2, <2>3, LoadKeeps
<1>4. CASE FollowLink(s)
  <2>1. PICK t : t = [table EXCEPT !.focus = s, !.pending = s # 0,
                                   !.kind = IF s # 0 THEN "any" ELSE @]
    OBVIOUS
  <2>2. Load(t) BY <1>4, <2>1 DEF FollowLink
  <2>3. /\ DOMAIN t = DOMAIN NewTable /\ {t.offset, t.total} \subseteq Nat
        /\ t.pending = (s # 0) /\ t.kind = (IF s # 0 THEN "any" ELSE table.kind)
    BY <1>1, <2>1 DEF NewTable
  <2>4. t.pending => t.kind = "any" BY <2>3
  <2> QED BY <1>2, <2>2, <2>3, <2>4, LoadKeeps
<1> QED BY <1>3, <1>4

LEMMA LargestOfTwo ==
  ASSUME NEW m \in Int, NEW n \in Int
  PROVE  /\ Max({m, n}) \in {m, n} /\ Max({m, n}) >= m /\ Max({m, n}) >= n
         /\ Min({m, n}) \in {m, n} /\ Min({m, n}) <= m /\ Min({m, n}) <= n
<1>1. \E x \in {m, n} : \A y \in {m, n} : x >= y OBVIOUS
<1>2. \E x \in {m, n} : \A y \in {m, n} : x <= y OBVIOUS
<1>3. Max({m, n}) \in {m, n} /\ \A y \in {m, n} : Max({m, n}) >= y BY <1>1 DEF Max
<1>4. Min({m, n}) \in {m, n} /\ \A y \in {m, n} : Min({m, n}) <= y BY <1>2 DEF Min
<1> QED BY <1>3, <1>4

(* The paging buttons ask for an offset there is; Next asks for one that is *)
(* not past the rows it shows.                                              *)
LEMMA TablePages == ASSUME UiInv, PageBack \/ PageOn \/ LastPage PROVE UiInv'
<1>1. /\ DOMAIN table = DOMAIN NewTable /\ {table.offset, table.total} \subseteq Nat
      /\ WalkSound /\ AsksAsShown
  BY DEF UiInv, TableSound
<1>2. LastPageOffset \in Nat
  <2>1. CASE table.total = 0 BY <2>1 DEF LastPageOffset
  <2>2. CASE table.total # 0
    <3>1. table.total - 1 \in Nat BY <1>1, <2>2
    <3>2. ((table.total - 1) \div PageLen) * PageLen \in Nat BY <3>1, Params, PageStart
    <3> QED BY <2>2, <3>2 DEF LastPageOffset
  <2> QED BY <2>1, <2>2
<1>3. ASSUME NEW target \in Int, JumpToOffset(target)
      PROVE  \E next \in Nat : (target >= 0 => next <= target) /\ Load([table EXCEPT !.offset = next])
  <2>1. PICK m \in Int : m = Min({target, LastPageOffset}) /\ m <= target
    <3>1. PICK n \in Int : n = LastPageOffset BY <1>2
    <3>2. Min({target, n}) \in {target, n} /\ Min({target, n}) <= target BY LargestOfTwo
    <3> QED BY <3>1, <3>2
  <2>2. PICK next \in Nat : next = Max({0, m}) /\ (next = 0 \/ next = m) BY LargestOfTwo
  <2>3. Load([table EXCEPT !.offset = next]) BY <1>3, <2>1, <2>2 DEF JumpToOffset
  <2> QED BY <2>1, <2>2, <2>3
<1>4. ASSUME NEW next \in Nat, Load([table EXCEPT !.offset = next]),
             \/ walk' = NoWalk
             \/ /\ walk' = walk /\ flights = {}
                /\ walk.on => next <= table.offset + Len(shown.page)
      PROVE  UiInv'
  <2>1. PICK t : t = [table EXCEPT !.offset = next] OBVIOUS
  <2>2. /\ DOMAIN t = DOMAIN NewTable /\ {t.offset, t.total} \subseteq Nat /\ t.offset = next
        /\ t.kind = table.kind /\ t.pending = table.pending
    BY <1>1, <2>1 DEF NewTable
  <2>3. t.pending => t.kind = "any" BY <1>1, <2>2 DEF AsksAsShown
  <2> QED BY <1>4, <2>1, <2>2, <2>3, LoadKeeps
<1>5. CASE PageBack
  <2>1. \E target \in Int : JumpToOffset(target) BY <1>1, <1>5, Params DEF PageBack
  <2> QED BY <1>3, <1>4, <1>5, <2>1 DEF PageBack
<1>6. CASE LastPage
  <2>1. PICK target \in Int : JumpToOffset(target) BY <1>2, <1>6 DEF LastPage
  <2>2. PICK next \in Nat : Load([table EXCEPT !.offset = next]) BY <1>3, <2>1
  <2>3. walk' = NoWalk BY <1>6 DEF LastPage
  <2> QED BY <1>4, <2>2, <2>3
<1>7. CASE PageOn
  <2>1. PICK next \in Nat : next <= table.offset + PageLen /\ Load([table EXCEPT !.offset = next])
    <3>1. PICK target \in Int : target = table.offset + PageLen /\ JumpToOffset(target)
      BY <1>1, <1>7, Params DEF PageOn
    <3>2. target >= 0 BY <1>1, <3>1, Params
    <3> QED BY <1>3, <3>1, <3>2
  <2>2. ASSUME walk.on, flights = {} PROVE next <= table.offset + Len(shown.page)
    <3>1. Full(shown) /\ shown.offset = table.offset /\ shown.total = table.total
      BY <1>1, <2>2 DEF WalkSound
    <3>2. ~(table.offset + Len(shown.page) >= table.total)
      BY <1>1, <1>7, <3>1, Params DEF PageOn, HasNext, Full
    <3>3. Len(shown.page) = PageLen BY <3>1, <3>2, Params DEF Full
    <3> QED BY <2>1, <3>3
  <2>3. walk' = (IF flights = {} THEN walk ELSE NoWalk) BY <1>7 DEF PageOn
  <2> QED BY <1>4, <2>1, <2>2, <2>3
<1> QED BY <1>5, <1>6, <1>7

LEMMA UiInvStep == UiInv /\ [UiNext]_vars => UiInv'
<1> SUFFICES ASSUME UiInv, [UiNext]_vars PROVE UiInv' OBVIOUS
<1>1. UiInv /\ top \in 0 .. MaxSeq /\ rows \subseteq 1 .. top BY DEF UiInv, TableSound
<1>2. CASE UNCHANGED clientVars /\ (Serve \/ UNCHANGED vars)
  <2>1. CASE AppendRow
    <3>1. top < MaxSeq /\ rows' = rows \cup {top + 1} /\ top' = top + 1 BY <2>1 DEF AppendRow
    <3> QED BY <1>2, <3>1, RowsMove DEF LogMoved
  <2>2. CASE Prune
    <3>1. top' = top /\ \E s \in rows : rows' = {x \in rows : x > s} BY <2>2 DEF Prune
    <3> QED BY <1>2, <3>1, RowsMove DEF LogMoved
  <2>3. CASE UNCHANGED <<rows, top>> BY <1>2, <2>3, RowsMove DEF LogMoved
  <2>4. CASE CloseStore BY <2>3, <2>4 DEF CloseStore
  <2>5. CASE Anchor BY <2>3, <2>5 DEF Anchor
  <2>6. CASE \E e \in Exports : Export(e) \/ Streaming(e) \/ Disconnect(e)
    <3>1. UNCHANGED store
      BY <2>6 DEF Export, Streaming, FetchBatch, WriteRow, Resume, Disconnect
    <3> QED BY <2>3, <3>1 DEF store
  <2>7. CASE UNCHANGED vars BY <2>3, <2>7 DEF vars, apiVars, store
  <2> QED BY <1>2, <2>1, <2>2, <2>4, <2>5, <2>6, <2>7 DEF Serve, LogMoves
<1>3. CASE Browse
  <2>1. ASSUME NEW k, OnFilters(k) PROVE UiInv' BY <2>1, TableAsks
  <2>2. ASSUME NEW s, FollowLink(s) PROVE UiInv' BY <2>2, TableAsks
  <2>3. CASE ClearFocus \/ RunEmpty BY <2>3, NothingAsked
  <2>4. CASE PageBack \/ PageOn \/ LastPage BY <2>4, TablePages
  <2>5. ASSUME NEW input, Run(input) PROVE UiInv'
    <3>1. open # "table" BY <2>5 DEF Run, ViewOf
    <3> QED BY <2>5, <3>1, AskKeeps DEF Run
  <2>6. CASE Refresh BY <2>6, AskKeeps DEF Refresh
  <2>7. ASSUME NEW v, Navigate(v) PROVE UiInv' BY <2>7, NavigateKeeps
  <2>8. ASSUME NEW f \in flights, ServerAnswers(f) \/ NetworkFails(f) \/ Delivered(f) PROVE UiInv'
    BY <2>8, ServerKeeps, NetworkKeeps, DeliveredKeeps
  <2> QED BY <1>3, <2>1, <2>2, <2>3, <2>4, <2>5, <2>6, <2>7, <2>8 DEF Browse
<1> QED BY <1>2, <1>3 DEF UiNext, vars

(* What the table asks, what is on its way and what it shows, of the log as *)
(* it was and as it is: UiInv is inductive.                                 *)
THEOREM TableInductive == UiSpec => []UiInv
BY UiInvInit, UiInvStep, PTL DEF UiSpec

(* Whatever loads and answers cross, a page at rest shows the answer to what *)
(* it asked last, unless an older answer came after it (event-table.ts,      *)
(* load).                                                                    *)
THEOREM LastAnswerShown == UiSpec => []ShownAnswersLast
<1>1. UiInv => ShownAnswersLast BY DEF UiInv, LastShown, ShownAnswersLast
<1> QED BY <1>1, TableInductive, PTL

(* The page the server computes for a link holds the row it focuses, while   *)
(* rows are added and pruned and for any length of a page (ui/routes.ts,     *)
(* getQueryEvents).                                                          *)
THEOREM FocusAlwaysLands == UiSpec => []FocusLands
<1>1. UiInv => FocusLands BY DEF UiInv
<1> QED BY <1>1, TableInductive, PTL

(* Whoever walks the table with Next has seen every row that stayed.         *)
THEOREM WalkAlwaysComplete == UiSpec => []WalkComplete
<1>1. UiInv => WalkComplete
  <2> SUFFICES ASSUME UiInv, walk.on, flights = {}, ~HasNext
               PROVE  OfKind(table.kind, walk.start \cap rows) \subseteq walk.seen
    BY DEF WalkComplete
  <2>1. /\ Full(shown) /\ shown.offset = table.offset /\ shown.total = table.total
        /\ Beyond(Unseen, table.kind, shown) /\ {table.offset, table.total} \subseteq Nat
    BY DEF UiInv, WalkSound, TableSound
  <2>2. shown.offset + Len(shown.page) >= shown.total BY <2>1, Params DEF HasNext, Full
  <2>3. Unseen \cap rows = {} BY <2>1, <2>2 DEF Beyond
  <2> QED BY <2>3 DEF Unseen, OfKind
<1> QED BY <1>1, TableInductive, PTL

-----------------------------------------------------------------------------
(* The order of the rows of an export. *)

(* An older row has fewer rows before it. *)
LEMMA OlderFirst ==
  ASSUME NEW S \in SUBSET Int, IsFiniteSet(S), NEW x \in S, NEW y \in S, x < y
  PROVE  Cardinality({z \in S : z < x}) < Cardinality({z \in S : z < y})
<1> DEFINE X == {z \in S : z < x}  Y == {z \in S : z < y}
<1>1. X \subseteq Y /\ x \in Y /\ x \notin X
  <2>1. \A z \in S : z < x => z < y BY x \in Int, y \in Int
  <2>2. ~(x < x) BY x \in Int
  <2> QED BY <2>1, <2>2
<1>2. IsFiniteSet(Y) BY FS_Subset
<1>3. /\ Cardinality(X) <= Cardinality(Y) /\ (Cardinality(X) = Cardinality(Y) => X = Y)
      /\ IsFiniteSet(X)
  BY <1>1, <1>2, FS_Subset
<1>4. Cardinality(X) \in Nat /\ Cardinality(Y) \in Nat BY <1>2, <1>3, FS_CardinalityType
<1> QED BY <1>1, <1>3, <1>4

(* The rows in their order: each once, and all of them.  No two have the    *)
(* same number of rows before them, so every number is some row's.          *)
LEMMA AscendingIs ==
  ASSUME NEW S \in SUBSET Int, IsFiniteSet(S), NEW n, n = Cardinality(S),
         NEW q, q = Ascending(S)
  PROVE  /\ n \in Nat /\ q \in Seq(S) /\ Len(q) = n
         /\ \A i \in 1 .. n : q[i] \in S
         /\ \A i, j \in 1 .. n : i < j => q[i] < q[j]
         /\ \A x \in S : \E i \in 1 .. n : q[i] = x
<1> DEFINE before(x) == Cardinality({z \in S : z < x})
           row(i)    == CHOOSE s \in S : before(s) = i - 1
<1>1. n \in Nat BY FS_CardinalityType
<1>2. ASSUME NEW x \in S PROVE before(x) \in 0 .. n - 1
  <2> DEFINE X == {z \in S : z < x}
  <2>1. X \subseteq S /\ x \notin X
    <3>1. ~(x < x) BY x \in Int
    <3> QED BY <3>1
  <2>2. /\ IsFiniteSet(X) /\ Cardinality(X) <= n /\ (Cardinality(X) = n => X = S)
    BY <2>1, FS_Subset
  <2>3. Cardinality(X) \in Nat BY <2>2, FS_CardinalityType
  <2> QED BY <1>1, <2>1, <2>2, <2>3
<1>3. \A x, y \in S : x < y => before(x) < before(y) BY OlderFirst
<1>4. q = [i \in 1 .. n |-> row(i)] BY DEF Ascending
<1> HIDE DEF before
<1>5. ASSUME NEW i \in 1 .. n PROVE \E s \in S : before(s) = i - 1
  <2> SUFFICES ASSUME \A s \in S : before(s) # i - 1 PROVE FALSE OBVIOUS
  <2> DEFINE T == (1 .. n) \ {i}
             f == [x \in S |-> before(x) + 1]
  <2>1. f \in [S -> T]
    <3>1. \A x \in S : before(x) + 1 \in 1 .. n /\ before(x) + 1 # i BY <1>1, <1>2
    <3> QED BY <3>1
  <2>2. IsFiniteSet(1 .. n) /\ Cardinality(1 .. n) = n BY <1>1, FS_Interval
  <2>3. IsFiniteSet(T) /\ Cardinality(T) = n - 1 BY <2>2, FS_RemoveElement
  <2>4. Cardinality(T) < Cardinality(S) BY <1>1, <2>3
  <2>5. \A x \in S : f[x] = before(x) + 1 OBVIOUS
  <2> HIDE DEF T, f
  <2>6. PICK x, y \in S : x # y /\ f[x] = f[y] BY <2>1, <2>3, <2>4, FS_PigeonHole
  <2>7. before(x) = before(y) /\ before(x) \in Int BY <1>2, <2>5, <2>6
  <2>8. x < y \/ y < x BY <2>6, x \in Int, y \in Int
  <2> QED BY <1>3, <2>7, <2>8
<1>6. \A i \in 1 .. n : row(i) \in S /\ before(row(i)) = i - 1 BY <1>5
<1> HIDE DEF row
<1>7. ASSUME NEW i \in 1 .. n, NEW j \in 1 .. n, i < j PROVE row(i) < row(j)
  <2>1. /\ row(i) \in Int /\ row(j) \in Int /\ before(row(i)) = i - 1 /\ before(row(j)) = j - 1
        /\ row(i) \in S /\ row(j) \in S
    BY <1>6
  <2>2. CASE row(i) = row(j) BY <1>7, <2>1, <2>2
  <2>3. CASE row(j) < row(i)
    <3>1. before(row(j)) < before(row(i)) BY <1>3, <2>1, <2>3
    <3> QED BY <1>7, <2>1, <3>1
  <2> QED BY <2>1, <2>2, <2>3
<1>8. ASSUME NEW x \in S PROVE \E i \in 1 .. n : row(i) = x
  <2>1. before(x) \in 0 .. n - 1 BY <1>2
  <2>2. before(x) + 1 \in 1 .. n /\ (before(x) + 1) - 1 = before(x) BY <1>1, <2>1
  <2>3. PICK y : y = row(before(x) + 1) OBVIOUS
  <2>4. y \in S /\ before(y) = before(x) BY <1>6, <2>2, <2>3
  <2>5. x = y
    <3>1. ~(x < y) /\ ~(y < x) BY <1>3, <2>1, <2>4
    <3> QED BY <2>4, <3>1, x \in Int, y \in Int
  <2> QED BY <2>2, <2>3, <2>5
<1> QED BY <1>1, <1>4, <1>6, <1>7, <1>8

(* A finite set of numbers that is not empty has a largest one. *)
LEMMA LargestIs ==
  ASSUME NEW S \in SUBSET Int, IsFiniteSet(S), S # {}
  PROVE  Max(S) \in S /\ \A x \in S : x <= Max(S)
<1>1. PICK n, q : n = Cardinality(S) /\ q = Ascending(S) OBVIOUS
<1>2. /\ n \in Nat /\ \A i \in 1 .. n : q[i] \in S
      /\ \A i, j \in 1 .. n : i < j => q[i] < q[j]
      /\ \A x \in S : \E i \in 1 .. n : q[i] = x
  BY <1>1, AscendingIs
<1>3. n \in 1 .. n
  <2>1. PICK x \in S : TRUE OBVIOUS
  <2>2. PICK i \in 1 .. n : q[i] = x BY <1>2
  <2> QED BY <1>2, <2>2
<1>4. q[n] \in S /\ \A x \in S : q[n] >= x
  <2>1. ASSUME NEW x \in S PROVE q[n] >= x
    <3>1. PICK i \in 1 .. n : q[i] = x BY <1>2
    <3>2. q[n] \in Int /\ x \in Int BY <1>2, <1>3
    <3>3. i < n \/ i = n BY <1>2
    <3> QED BY <1>2, <1>3, <3>1, <3>2, <3>3
  <2> QED BY <1>2, <1>3, <2>1
<1>5. Max(S) \in S /\ \A x \in S : Max(S) >= x BY <1>4 DEF Max
<1> QED BY <1>5

-----------------------------------------------------------------------------
(* The anchors of the log. *)

(* The list of anchors an export reads at its start: all of them, in the     *)
(* order of their first events.                                              *)
LEMMA IndexAnchorsIs ==
  ASSUME LogSound
  PROVE  Ordered(IndexAnchors) /\ ToSet(IndexAnchors) = anchors
<1> DEFINE F == {a.first : a \in anchors}
<1>1. /\ top \in 0 .. MaxSeq /\ IsFiniteSet(anchors)
      /\ \A a \in anchors : a \in [first : 1 .. top, last : 1 .. top]
      /\ \A a, b \in anchors : a.first = b.first => a = b
  BY DEF LogSound
<1>2. F \in SUBSET Int /\ IsFiniteSet(F)
  <2>1. IsFiniteSet(F)
    <3> DEFINE f == [a \in anchors |-> a.first]
    <3>1. f \in Surjection(anchors, F) BY Zenon DEF Surjection
    <3> HIDE DEF f, F
    <3> QED BY <1>1, <3>1, FS_Surjection
  <2> QED BY <1>1, <2>1
<1>3. PICK n, q : n = Cardinality(F) /\ q = Ascending(F) OBVIOUS
<1> DEFINE row(i) == CHOOSE a \in anchors : a.first = q[i]
<1>4. /\ n \in Nat /\ q \in Seq(F) /\ Len(q) = n /\ \A i \in 1 .. n : q[i] \in F
      /\ \A i, j \in 1 .. n : i < j => q[i] < q[j]
      /\ \A x \in F : \E i \in 1 .. n : q[i] = x
  <2> HIDE DEF F
  <2> QED BY <1>2, <1>3, AscendingIs
<1>5. DOMAIN q = 1 .. n
  <2> HIDE DEF F
  <2> QED BY <1>4
<1>6. IndexAnchors = [i \in 1 .. n |-> row(i)] BY <1>3, <1>5 DEF IndexAnchors
<1>7. \A i \in 1 .. n : row(i) \in anchors /\ row(i).first = q[i] BY <1>4
<1> HIDE DEF row
<1>8. PICK l : l = IndexAnchors OBVIOUS
<1>9. l = [i \in 1 .. n |-> row(i)] BY <1>6, <1>8
<1>10. \A i \in 1 .. n : l[i] = row(i) /\ l[i] \in anchors /\ l[i].first = q[i] BY <1>7, <1>9
<1>11. l \in Seq(anchors) /\ Len(l) = n /\ DOMAIN l = 1 .. n BY <1>4, <1>9, <1>10
<1>12. Ordered(l)
  <2>1. anchors \subseteq [first : Nat, last : Nat] BY <1>1
  <2>2. l \in Seq([first : Nat, last : Nat])
    <3> DEFINE T == [first : Nat, last : Nat]
    <3>1. \A i \in 1 .. n : l[i] \in T BY <1>10, <2>1
    <3> HIDE DEF T
    <3>2. l \in Seq(T) BY <1>4, <1>9, <1>10, <3>1
    <3> QED BY <3>2 DEF T
  <2> QED BY <1>4, <1>10, <1>11, <2>2 DEF Ordered
<1>13. ToSet(l) = anchors
  <2>1. ToSet(l) \subseteq anchors BY <1>10, <1>11 DEF ToSet
  <2>2. ASSUME NEW a \in anchors PROVE a \in ToSet(l)
    <3>1. PICK i \in 1 .. n : q[i] = a.first BY <1>4
    <3>2. l[i] = a BY <1>1, <1>10, <3>1
    <3> QED BY <1>11, <3>2 DEF ToSet
  <2> QED BY <2>1, <2>2
<1> QED BY <1>8, <1>12, <1>13

(* A set of numbers that is not empty has a least one. *)
LEMMA LeastOf ==
  ASSUME NEW S \in SUBSET Nat, S # {}
  PROVE  \E n \in S : \A m \in S : n <= m
<1>1. PICK n \in S : \A m \in S : ~(<<m, n>> \in OpToRel(<, Nat))
  BY NatLessThanWellFounded, WFMin
<1>2. \A m \in S : ~(m < n) BY <1>1 DEF OpToRel
<1> QED BY <1>2

(* How many anchors of an ordered list start at or before s. *)
LEMMA SplitAt ==
  ASSUME NEW list, Ordered(list), NEW s \in Nat
  PROVE  \E r \in 0 .. Len(list) : \A i \in 1 .. Len(list) : list[i].first <= s <=> i <= r
<1> DEFINE A == {i \in 1 .. Len(list) : list[i].first <= s}
<1>1. PICK n : n = Len(list) OBVIOUS
<1>2. /\ n \in Nat /\ \A i \in 1 .. n : list[i].first \in Nat
      /\ \A i, j \in 1 .. n : i < j => list[i].first < list[j].first
  <2> DEFINE T == [first : Nat, last : Nat]
  <2>1. list \in Seq(T) /\ \A i, j \in 1 .. n : i < j => list[i].first < list[j].first
    BY <1>1 DEF Ordered
  <2>2. \A x \in T : x.first \in Nat OBVIOUS
  <2> HIDE DEF T
  <2>3. n \in Nat /\ \A i \in 1 .. n : list[i] \in T BY <1>1, <2>1
  <2> QED BY <2>1, <2>2, <2>3
<1>3. CASE A = {}
  <2>1. \A i \in 1 .. n : ~(list[i].first <= s) /\ ~(i <= 0) BY <1>1, <1>3
  <2> QED BY <1>1, <1>2, <2>1
<1>4. CASE A # {}
  <2>1. IsFiniteSet(A)
    <3>1. A \subseteq 1 .. n /\ IsFiniteSet(1 .. n) BY <1>1, <1>2, FS_Interval
    <3> QED BY <3>1, FS_Subset
  <2>2. A \in SUBSET Int BY <1>1
  <2>3. PICK r : r = Max(A) OBVIOUS
  <2>4. r \in A /\ \A i \in A : i <= r
    <3> HIDE DEF A
    <3> QED BY <1>4, <2>1, <2>2, <2>3, LargestIs
  <2>5. ASSUME NEW i \in 1 .. n, i <= r PROVE list[i].first <= s
    <3>1. i < r \/ i = r BY <1>1, <2>4, <2>5
    <3>2. list[r].first <= s /\ r \in 1 .. n BY <1>1, <2>4
    <3>3. list[i].first \in Nat /\ list[r].first \in Nat BY <1>2, <3>2
    <3> QED BY <1>2, <2>5, <3>1, <3>2, <3>3
  <2>6. \A i \in 1 .. n : list[i].first <= s => i <= r BY <1>1, <2>4
  <2>7. r \in 0 .. n BY <1>1, <1>2, <2>4
  <2> QED BY <1>1, <2>5, <2>6, <2>7
<1> QED BY <1>3, <1>4

(* The binary search of findAnchor: what it does with the bounds lo and hi,  *)
(* when the anchors that start at or before s are the first r.               *)
LEMMA Halve ==
  ASSUME NEW n \in Nat, NEW lo \in 1 .. n + 1, NEW hi \in 0 .. n, lo <= hi
  PROVE  /\ (lo + hi) \div 2 \in 1 .. n
         /\ lo <= (lo + hi) \div 2 /\ (lo + hi) \div 2 <= hi
OBVIOUS

(* It ends at r: the search has one solution, by induction on the bounds.     *)
LEMMA RightmostIs ==
  ASSUME NEW list, Ordered(list), NEW s \in Nat, NEW r \in 0 .. Len(list),
         \A i \in 1 .. Len(list) : list[i].first <= s <=> i <= r
  PROVE  Rightmost(list, s) = r
<1> DEFINE D == (1 .. Len(list) + 1) \X (0 .. Len(list))
           Step(f, d) ==
             LET lo  == d[1]
                 hi  == d[2]
                 mid == (lo + hi) \div 2
             IN  IF lo > hi THEN hi
                 ELSE IF list[mid].first <= s THEN f[<<mid + 1, hi>>]
                 ELSE f[<<lo, mid - 1>>]
           g == [d \in D |-> IF d[1] > d[2] THEN d[2]
                             ELSE IF r < d[1] THEN d[1] - 1
                             ELSE IF r > d[2] THEN d[2] ELSE r]
           search == CHOOSE f : f = [d \in D |-> Step(f, d)]
<1>0. PICK n : n = Len(list) OBVIOUS
<1>1. n \in Nat BY <1>0 DEF Ordered
<1>2. Rightmost(list, s) = search[<<1, Len(list)>>] BY Zenon DEF Rightmost
<1>3. \A lo \in 1 .. n + 1, hi \in 0 .. n : <<lo, hi>> \in D BY <1>0
<1>4. \A d \in D : \E lo \in 1 .. n + 1, hi \in 0 .. n : d = <<lo, hi>> BY <1>0
<1>5. ASSUME NEW lo \in 1 .. n + 1, NEW hi \in 0 .. n
      PROVE  Step(g, <<lo, hi>>) = g[<<lo, hi>>]
  <2>1. g[<<lo, hi>>] = IF lo > hi THEN hi
                        ELSE IF r < lo THEN lo - 1 ELSE IF r > hi THEN hi ELSE r
    BY <1>3
  <2>2. CASE lo > hi BY <2>1, <2>2
  <2>3. CASE lo <= hi
    <3>1. PICK mid : mid = (lo + hi) \div 2 OBVIOUS
    <3>2. mid \in 1 .. n /\ lo <= mid /\ mid <= hi BY <1>1, <2>3, <3>1, Halve
    <3>3. Step(g, <<lo, hi>>) = IF list[mid].first <= s THEN g[<<mid + 1, hi>>]
                                                        ELSE g[<<lo, mid - 1>>]
      <4> HIDE DEF g
      <4> QED BY <1>1, <2>3, <3>1
    <3>4. list[mid].first <= s <=> mid <= r BY <1>0, <3>2
    <3>5. <<mid + 1, hi>> \in D /\ <<lo, mid - 1>> \in D BY <1>1, <1>3, <3>2
    <3>6. /\ g[<<mid + 1, hi>>] = IF mid + 1 > hi THEN hi
                                 ELSE IF r < mid + 1 THEN (mid + 1) - 1 ELSE IF r > hi THEN hi ELSE r
          /\ g[<<lo, mid - 1>>] = IF lo > mid - 1 THEN mid - 1
                                 ELSE IF r < lo THEN lo - 1 ELSE IF r > mid - 1 THEN mid - 1 ELSE r
      BY <3>5
    <3>7. r \in Int /\ lo \in Int /\ hi \in Int BY <1>0, <1>1
    <3> HIDE DEF g, Step
    <3>8. CASE mid <= r BY <2>1, <2>3, <3>2, <3>3, <3>4, <3>6, <3>7, <3>8
    <3>9. CASE mid > r BY <2>1, <2>3, <3>2, <3>3, <3>4, <3>6, <3>7, <3>9
    <3> QED BY <3>2, <3>7, <3>8, <3>9
  <2> QED BY <1>1, <2>2, <2>3
<1>6. \A d \in D : Step(g, d) = g[d]
  <2> HIDE DEF g, D, Step
  <2> QED BY <1>4, <1>5
<1>7. g = [d \in D |-> Step(g, d)]
  <2>1. g = [d \in D |-> g[d]] OBVIOUS
  <2> HIDE DEF g, D, Step
  <2> QED BY <1>6, <2>1
<1>8. search = [d \in D |-> Step(search, d)]
  <2> HIDE DEF g, D, Step
  <2> QED BY Zenon, <1>7
<1> HIDE DEF g, search
<1>9. PICK f : f = search OBVIOUS
<1>10. f = [d \in D |-> Step(f, d)] BY <1>8, <1>9
<1>11. ASSUME NEW lo \in 1 .. n + 1, NEW hi \in 0 .. n
       PROVE  f[<<lo, hi>>] = Step(f, <<lo, hi>>)
  <2> HIDE DEF Step, D
  <2>1. <<lo, hi>> \in D BY <1>3
  <2> QED BY <1>10, <2>1
<1> HIDE DEF D
<1> DEFINE B == {m \in Nat : \E lo \in 1 .. n + 1, hi \in 0 .. n :
                    /\ m = (hi + 1) - lo /\ lo <= r + 1 /\ r <= hi /\ f[<<lo, hi>>] # r}
<1>12. B = {}
  <2> SUFFICES ASSUME B # {} PROVE FALSE OBVIOUS
  <2>1. PICK m \in B : \A k \in B : m <= k
    <3>1. B \in SUBSET Nat OBVIOUS
    <3> HIDE DEF B
    <3> QED BY <3>1, LeastOf
  <2>2. PICK lo \in 1 .. n + 1, hi \in 0 .. n :
          m = (hi + 1) - lo /\ lo <= r + 1 /\ r <= hi /\ f[<<lo, hi>>] # r
    BY <2>1
  <2>3. f[<<lo, hi>>] = Step(f, <<lo, hi>>) BY <1>11
  <2>4. r \in Int /\ lo \in Int /\ hi \in Int /\ m \in Nat BY <1>0, <1>1, <2>1
  <2>5. ASSUME NEW a \in 1 .. n + 1, NEW b \in 0 .. n, a <= r + 1, r <= b, (b + 1) - a < m
        PROVE  f[<<a, b>>] = r
    <3> SUFFICES ASSUME f[<<a, b>>] # r PROVE FALSE OBVIOUS
    <3>1. (b + 1) - a \in Nat BY <1>1, <2>4, <2>5
    <3>2. (b + 1) - a \in B BY <2>5, <3>1
    <3> HIDE DEF B
    <3> QED BY <2>1, <2>4, <2>5, <3>1, <3>2
  <2> HIDE DEF B
  <2>6. CASE lo > hi
    <3>1. f[<<lo, hi>>] = hi BY <2>3, <2>6
    <3> QED BY <2>2, <2>4, <2>6, <3>1
  <2>7. CASE lo <= hi
    <3>1. PICK mid : mid = (lo + hi) \div 2 OBVIOUS
    <3>2. mid \in 1 .. n /\ lo <= mid /\ mid <= hi BY <1>1, <2>7, <3>1, Halve
    <3>3. f[<<lo, hi>>] = IF list[mid].first <= s THEN f[<<mid + 1, hi>>]
                                                  ELSE f[<<lo, mid - 1>>]
      BY <2>3, <2>4, <2>7, <3>1
    <3>4. list[mid].first <= s <=> mid <= r BY <1>0, <3>2
    <3> HIDE DEF Step
    <3>5. CASE mid <= r
      <4>1. mid + 1 \in 1 .. n + 1 /\ mid + 1 <= r + 1 /\ (hi + 1) - (mid + 1) < m
        BY <1>1, <2>2, <2>4, <3>2, <3>5
      <4>2. f[<<mid + 1, hi>>] = r BY <2>2, <2>5, <4>1
      <4> QED BY <2>2, <3>3, <3>4, <3>5, <4>2
    <3>6. CASE mid > r
      <4>1. mid - 1 \in 0 .. n /\ r <= mid - 1 /\ ((mid - 1) + 1) - lo < m
        BY <1>1, <2>2, <2>4, <3>2, <3>6
      <4>2. f[<<lo, mid - 1>>] = r BY <2>2, <2>5, <4>1
      <4>3. ~(mid <= r) BY <2>4, <3>2, <3>6
      <4> QED BY <2>2, <3>3, <3>4, <4>2, <4>3
    <3> QED BY <2>4, <3>2, <3>5, <3>6
  <2> QED BY <2>4, <2>6, <2>7
<1>13. f[<<1, n>>] = r
  <2> SUFFICES ASSUME f[<<1, n>>] # r PROVE FALSE OBVIOUS
  <2>1. 1 \in 1 .. n + 1 /\ n \in 0 .. n /\ n = (n + 1) - 1 /\ 1 <= r + 1 /\ r <= n
    BY <1>0, <1>1
  <2>2. n \in B BY <1>1, <2>1
  <2> QED BY <1>12, <2>2
<1> QED BY <1>0, <1>2, <1>9, <1>13

(* The anchor of a row is one that covers it, if any does. *)
LEMMA FindAnchorIs ==
  ASSUME NEW list, Ordered(list), NEW s \in Nat,
         NEW cover, cover = {a \in ToSet(list) : a.first <= s /\ s <= a.last}
  PROVE  IF cover = {} THEN FindAnchor(list, s) = NoAnchor ELSE FindAnchor(list, s) \in cover
<1>1. PICK r \in 0 .. Len(list) : \A i \in 1 .. Len(list) : list[i].first <= s <=> i <= r
  BY SplitAt
<1>2. Rightmost(list, s) = r BY <1>1, RightmostIs
<1>3. PICK n : n = Len(list) OBVIOUS
<1>4. /\ n \in Nat /\ DOMAIN list = 1 .. n /\ \A i \in 1 .. n : list[i].last \in Nat
  <2> DEFINE T == [first : Nat, last : Nat]
  <2>1. list \in Seq(T) BY DEF Ordered
  <2>2. \A x \in T : x.last \in Nat OBVIOUS
  <2> HIDE DEF T
  <2>3. n \in Nat /\ DOMAIN list = 1 .. n /\ \A i \in 1 .. n : list[i] \in T BY <1>3, <2>1
  <2> QED BY <2>2, <2>3
<1> DEFINE C == {i \in 1 .. r : list[i].last >= s}
<1>5. FindAnchor(list, s) = IF C = {} THEN NoAnchor ELSE list[Max(C)] BY <1>2 DEF FindAnchor
<1>6. \A i \in 1 .. n : i \in C <=> list[i] \in cover
  <2> TAKE i \in 1 .. n
  <2>1. list[i] \in ToSet(list) BY <1>4 DEF ToSet
  <2>2. list[i].first <= s <=> i <= r BY <1>1, <1>3
  <2>3. s <= list[i].last <=> list[i].last >= s BY <1>4
  <2> QED BY <1>1, <1>4, <2>1, <2>2, <2>3
<1>7. \A a \in cover : \E i \in 1 .. n : list[i] = a BY <1>4 DEF ToSet
<1>8. C \subseteq 1 .. n /\ 1 .. n \subseteq Int BY <1>1, <1>3
<1>9. C # {} => Max(C) \in C
  <2>1. IsFiniteSet(1 .. n) BY <1>4, FS_Interval
  <2>2. IsFiniteSet(C) /\ C \in SUBSET Int
    <3> HIDE DEF C
    <3> QED BY <1>8, <2>1, FS_Subset
  <2> HIDE DEF C
  <2> QED BY <2>2, LargestIs
<1> HIDE DEF C
<1>10. C = {} <=> cover = {} BY <1>6, <1>7, <1>8
<1> QED BY <1>5, <1>6, <1>8, <1>9, <1>10

-----------------------------------------------------------------------------
(* The exports. *)

(* What a stream says of the log stays true while rows are added at one end  *)
(* and removed at the other.                                                 *)
LEMMA ExactStays ==
  ASSUME top \in Nat, top' \in Nat, top <= top', rows' \cap (1 .. top) \subseteq rows,
         NEW e, NEW s, Exact(e, s)
  PROVE  Exact(e, s)'
<1>1. PICK t, u : t = top /\ u = top' OBVIOUS
<1>2. 1 .. t \subseteq 1 .. u BY <1>1
<1>3. s.batch \in Seq(1 .. u)
  <2> DEFINE T == 1 .. t  U == 1 .. u
  <2>1. s.batch \in Seq(T) BY <1>1 DEF Exact
  <2>2. T \subseteq U BY <1>2
  <2> HIDE DEF T, U
  <2>3. s.batch \in Seq(U) BY <2>1, <2>2
  <2> QED BY <2>3 DEF U
<1>4. s.lines \in Seq([seq : 1 .. u, anchor : ToSet(s.list) \cup {NoAnchor}])
  <2> DEFINE A == ToSet(s.list) \cup {NoAnchor}
             T == [seq : 1 .. t, anchor : A]
             U == [seq : 1 .. u, anchor : A]
  <2>1. s.lines \in Seq(T) BY <1>1 DEF Exact
  <2>2. T \subseteq U
    <3> HIDE DEF A
    <3> QED BY <1>2
  <2> HIDE DEF T, U
  <2>3. s.lines \in Seq(U) BY <2>1, <2>2
  <2> QED BY <2>3 DEF U
<1>5. s.start \subseteq 1 .. t /\ s.start \subseteq 1 .. u BY <1>1, <1>2 DEF Exact
<1>6. (s.start \cap Matching(e.filter))' \subseteq s.start \cap Matching(e.filter)
  <2>1. \A x \in s.start : x \in rows' => x \in rows BY <1>1, <1>5
  <2> QED BY <2>1 DEF Matching, At
<1>7. PICK c : c = Carried(s) OBVIOUS
<1>8. Carried(s)' = c BY <1>7 DEF Carried
<1>9. PICK M : M = s.start \cap Matching(e.filter) OBVIOUS
<1>10. /\ \A x \in M \ c : ~s.short /\ x > s.cursor /\ \A i \in 1 .. Len(s.batch) : x > s.batch[i]
       /\ s.st = "done" => /\ s.batch = << >>
                           /\ Len(s.lines) = e.cap \/ M \subseteq c
  BY <1>7, <1>9 DEF Exact
<1>11. /\ \A x \in (s.start \cap Matching(e.filter))' \ c :
             ~s.short /\ x > s.cursor /\ \A i \in 1 .. Len(s.batch) : x > s.batch[i]
       /\ s.st = "done" => /\ s.batch = << >>
                           /\ Len(s.lines) = e.cap \/ (s.start \cap Matching(e.filter))' \subseteq c
  BY <1>6, <1>9, <1>10
<1> QED BY <1>1, <1>3, <1>4, <1>5, <1>7, <1>8, <1>11 DEF Exact, FindAnchor, Rightmost, Ordered, NoAnchor, ToSet, At

(* A stream that only waits, goes on or is left. *)
LEMMA ExactSame ==
  ASSUME NEW e, NEW s, Exact(e, s), NEW t, DOMAIN t = DOMAIN s, t.st # "done",
         t.cursor = s.cursor, t.batch = s.batch, t.short = s.short, t.lines = s.lines,
         t.list = s.list, t.start = s.start
  PROVE  Exact(e, t)
<1>1. Carried(t) = Carried(s) BY DEF Carried
<1> QED BY <1>1 DEF Exact

(* The next batch: the rows of the filter after the cursor, in their order,  *)
(* as many as are asked for while there are as many.                         *)
LEMMA NextBatchIs ==
  ASSUME LogSound, NEW e, NEW p \in Nat, p = PageSize(e), stream[e].cursor \in Nat,
         NEW b, b = NextBatch(e)
  PROVE  /\ b \in Seq(1 .. top) /\ Len(b) \in 0 .. p
         /\ \A i \in 1 .. Len(b) : b[i] \in Matching(e.filter) /\ b[i] > stream[e].cursor
         /\ \A i, j \in 1 .. Len(b) : i < j => b[i] < b[j]
         /\ \A x \in Matching(e.filter) :
              x > stream[e].cursor /\ x \notin {b[i] : i \in 1 .. Len(b)} =>
                Len(b) = p /\ \A i \in 1 .. Len(b) : x > b[i]
<1>1. PICK M : M = {x \in Matching(e.filter) : x > stream[e].cursor} OBVIOUS
<1>2. top \in Nat /\ rows \subseteq 1 .. top /\ M \subseteq 1 .. top
  <2>1. top \in Nat /\ rows \subseteq 1 .. top BY Params DEF LogSound
  <2> QED BY <1>1, <2>1 DEF Matching
<1>3. M \in SUBSET Int /\ IsFiniteSet(M)
  <2>1. IsFiniteSet(1 .. top) BY <1>2, FS_Interval
  <2>2. IsFiniteSet(M) BY <1>2, <2>1, FS_Subset
  <2> QED BY <1>2, <2>2
<1>4. PICK q, n : q = Ascending(M) /\ n = Cardinality(M) OBVIOUS
<1>5. /\ n \in Nat /\ q \in Seq(M) /\ Len(q) = n
      /\ \A i \in 1 .. n : q[i] \in M
      /\ \A i, j \in 1 .. n : i < j => q[i] < q[j]
      /\ \A x \in M : \E i \in 1 .. n : q[i] = x
  BY <1>3, <1>4, AscendingIs
<1>6. b = Slice(q, 0, p) BY <1>1, <1>4 DEF NextBatch
<1>7. /\ Len(b) \in 0 .. p /\ (Len(b) < p => 0 + Len(b) >= n)
      /\ \A i \in 1 .. Len(b) : 0 + i \in 1 .. n /\ b[i] = q[0 + i]
  <2>1. 0 \in Nat OBVIOUS
  <2> QED BY <1>5, <1>6, <2>1, SliceIs
<1>8. \A i \in 1 .. Len(b) : i \in 1 .. n /\ b[i] = q[i] /\ b[i] \in M BY <1>5, <1>7
<1>9. b \in Seq(1 .. top)
  <2>1. PICK m : m = IF Len(q) < 0 + p THEN Len(q) ELSE 0 + p OBVIOUS
  <2>2. b = SubSeq(q, 1, m) /\ m \in Int
    <3>1. b = SubSeq(q, 0 + 1, m) BY <1>6, <2>1 DEF Slice
    <3>2. 0 + 1 = 1 /\ m \in Int BY <1>5, <2>1
    <3> QED BY <3>1, <3>2
  <2>3. b = [i \in 1 .. Len(b) |-> b[i]] BY <1>5, <2>2
  <2>4. \A i \in 1 .. Len(b) : b[i] \in 1 .. top BY <1>2, <1>8
  <2>5. Len(b) \in Nat BY <1>7
  <2> DEFINE T == 1 .. top
  <2>6. \A i \in 1 .. Len(b) : b[i] \in T BY <2>4
  <2> HIDE DEF T
  <2>7. b \in Seq(T) BY <2>3, <2>5, <2>6
  <2> QED BY <2>7 DEF T
<1>10. \A i, j \in 1 .. Len(b) : i < j => b[i] < b[j] BY <1>5, <1>8
<1>11. ASSUME NEW x \in M, x \notin {b[i] : i \in 1 .. Len(b)}
       PROVE  Len(b) = p /\ \A i \in 1 .. Len(b) : x > b[i]
  <2>1. PICK k \in 1 .. n : q[k] = x BY <1>5
  <2>2. k \notin 1 .. Len(b) BY <1>8, <1>11, <2>1
  <2>3. k > Len(b) /\ Len(b) = p BY <1>5, <1>7, <2>2
  <2>4. ASSUME NEW i \in 1 .. Len(b) PROVE x > b[i]
    <3>1. i \in 1 .. n /\ i < k /\ b[i] = q[i] BY <1>7, <1>8, <2>3
    <3>2. q[i] < q[k] /\ q[i] \in Int /\ q[k] \in Int BY <1>3, <1>5, <3>1
    <3> QED BY <2>1, <3>1, <3>2
  <2> QED BY <2>3, <2>4
<1> QED BY <1>1, <1>7, <1>8, <1>9, <1>10, <1>11

(* What the filter of a query is, of one row. *)
LEMMA MatchingTells ==
  ASSUME LogSound, NEW e \in Exports, NEW x \in Matching(e.filter)
  PROVE  At(x) \in e.filter.from .. e.filter.to /\ e.filter.kind \in {"any", KindOf[x]}
<1>1. x \in rows /\ rows \subseteq 1 .. top /\ top \in Nat BY Params DEF Matching, LogSound
<1>2. x \in Nat BY <1>1
<1>3. At(x) \in Int BY <1>2 DEF At
<1>4. e.filter.from \in Nat /\ e.filter.to \in Nat BY ApiAssumption DEF ApiAssumption
<1>5. At(x) >= e.filter.from /\ At(x) < e.filter.to + 1 /\ e.filter.kind \in {"any", KindOf[x]}
  BY DEF Matching
<1> QED BY <1>3, <1>4, <1>5

(* A batch is fetched. *)
LEMMA ExactFetched ==
  ASSUME LogSound, NEW e \in Exports, NEW s, s = stream[e], Exact(e, s), s.batch = << >>,
         ~s.short, s.st = "open",
         NEW b, b = NextBatch(e), NEW short, short = (Len(b) < PageSize(e)),
         NEW t, t = [s EXCEPT !.batch = b, !.short = short]
  PROVE  Exact(e, t)
<1>1. /\ DOMAIN s = {"st", "cursor", "batch", "short", "lines", "list", "gone", "start"}
      /\ s.cursor \in Nat /\ Len(s.lines) + Len(s.batch) <= e.cap
      /\ \A x \in (s.start \cap Matching(e.filter)) \ Carried(s) : x > s.cursor
      /\ \A x \in Carried(s) : /\ At(x) \in e.filter.from .. e.filter.to
                               /\ e.filter.kind \in {"any", KindOf[x]}
  BY DEF Exact
<1>2. Len(s.lines) \in Nat
  <2> DEFINE T == [seq : 1 .. top, anchor : ToSet(s.list) \cup {NoAnchor}]
  <2>1. s.lines \in Seq(T) BY DEF Exact
  <2> HIDE DEF T
  <2> QED BY <2>1
<1>3. e.cap \in Nat /\ BatchLen \in Nat BY ApiAssumption DEF ApiAssumption
<1>4. PICK p : p = PageSize(e) OBVIOUS
<1>5. p \in Nat /\ p <= e.cap - Len(s.lines)
  <2>1. Len(s.batch) = 0 OBVIOUS
  <2> QED BY <1>1, <1>2, <1>3, <1>4, <2>1 DEF PageSize
<1>6. /\ b \in Seq(1 .. top) /\ Len(b) \in 0 .. p
      /\ \A i \in 1 .. Len(b) : b[i] \in Matching(e.filter) /\ b[i] > s.cursor
      /\ \A i, j \in 1 .. Len(b) : i < j => b[i] < b[j]
      /\ \A x \in Matching(e.filter) :
           x > s.cursor /\ x \notin {b[i] : i \in 1 .. Len(b)} =>
             Len(b) = p /\ \A i \in 1 .. Len(b) : x > b[i]
  BY <1>1, <1>4, <1>5, NextBatchIs
<1>7. /\ DOMAIN t = DOMAIN s /\ t.st = s.st /\ t.cursor = s.cursor /\ t.lines = s.lines
      /\ t.list = s.list /\ t.start = s.start /\ t.batch = b /\ t.short = (Len(b) < p)
  BY <1>1, <1>4
<1>8. Carried(s) = {s.lines[i].seq : i \in 1 .. Len(s.lines)} BY DEF Carried
<1>9. Carried(t) = Carried(s) \cup {b[i] : i \in 1 .. Len(b)} BY <1>7, <1>8 DEF Carried
<1>10. \A x \in Carried(t) : /\ At(x) \in e.filter.from .. e.filter.to
                             /\ e.filter.kind \in {"any", KindOf[x]}
  BY <1>1, <1>6, <1>9, MatchingTells
<1>11. Len(t.lines) + Len(t.batch) <= e.cap BY <1>2, <1>3, <1>5, <1>6, <1>7
<1>12. \A x \in (t.start \cap Matching(e.filter)) \ Carried(t) :
         ~t.short /\ x > t.cursor /\ \A i \in 1 .. Len(t.batch) : x > t.batch[i]
  <2> TAKE x \in (t.start \cap Matching(e.filter)) \ Carried(t)
  <2>1. x \notin {b[i] : i \in 1 .. Len(b)} /\ x \notin Carried(s) BY <1>9
  <2>2. x > s.cursor /\ x \in Matching(e.filter) BY <1>1, <1>7, <2>1
  <2>3. Len(b) = p /\ \A i \in 1 .. Len(b) : x > b[i] BY <1>6, <2>1, <2>2
  <2>4. ~(Len(b) < p) BY <1>5, <2>3
  <2>5. ~t.short BY <1>7, <2>4
  <2> QED BY <1>7, <2>2, <2>3, <2>5
<1>13. t.batch \in Seq(1 .. top) /\ (\A i \in 1 .. Len(t.batch) : t.batch[i] > t.cursor)
       /\ \A i, j \in 1 .. Len(t.batch) : i < j => t.batch[i] < t.batch[j]
  BY <1>6, <1>7
<1>14. t.st # "done" BY <1>7
<1> QED BY <1>7, <1>10, <1>11, <1>12, <1>13, <1>14 DEF Exact

(* A row is written. *)
LEMMA ExactWritten ==
  ASSUME LogSound, NEW e \in Exports, NEW s, Exact(e, s), s.batch # << >>,
         NEW st, st # "done", NEW h, h = Head(s.batch),
         NEW l, l = [seq |-> h, anchor |-> FindAnchor(s.list, h)],
         NEW t, t = [s EXCEPT !.st = st, !.batch = Tail(s.batch), !.cursor = h,
                              !.lines = Append(s.lines, l)]
  PROVE  Exact(e, t)
<1> DEFINE T == [seq : 1 .. top, anchor : ToSet(s.list) \cup {NoAnchor}]
           N == 1 .. top
<1>1. /\ DOMAIN s = {"st", "cursor", "batch", "short", "lines", "list", "gone", "start"}
      /\ s.cursor \in Nat /\ s.batch \in Seq(N) /\ s.lines \in Seq(T) /\ Ordered(s.list)
      /\ s.cursor = IF s.lines = << >> THEN 0 ELSE s.lines[Len(s.lines)].seq
  BY DEF Exact
<1>2. PICK n, m : n = Len(s.lines) /\ m = Len(s.batch) OBVIOUS
<1>3. h \in N /\ h \in Nat /\ h > s.cursor
  <2>1. \A i \in 1 .. Len(s.batch) : s.batch[i] > s.cursor BY DEF Exact
  <2>2. N \subseteq Nat OBVIOUS
  <2> HIDE DEF N, T
  <2>3. 1 \in 1 .. Len(s.batch) /\ h = s.batch[1] /\ s.batch[1] \in N BY <1>1
  <2> QED BY <2>1, <2>2, <2>3
<1>4. l \in T /\ l.seq = h /\ l.anchor = FindAnchor(s.list, h)
  <2>1. PICK cover : cover = {a \in ToSet(s.list) : a.first <= h /\ h <= a.last} OBVIOUS
  <2>2. FindAnchor(s.list, h) \in cover \cup {NoAnchor} BY <1>1, <1>3, <2>1, FindAnchorIs
  <2>3. PICK a : a = FindAnchor(s.list, h) OBVIOUS
  <2>4. a \in ToSet(s.list) \cup {NoAnchor} BY <2>1, <2>2, <2>3
  <2> QED BY <1>3, <2>3, <2>4
<1>5. /\ DOMAIN t = DOMAIN s /\ t.st = st /\ t.cursor = h /\ t.lines = Append(s.lines, l)
      /\ t.list = s.list /\ t.start = s.start /\ t.batch = Tail(s.batch) /\ t.short = s.short
  BY <1>1
<1> HIDE DEF T, N
<1>6. /\ t.lines \in Seq(T) /\ Len(t.lines) = n + 1 /\ n \in Nat
      /\ t.lines[n + 1] = l /\ \A i \in 1 .. n : t.lines[i] = s.lines[i]
  BY <1>1, <1>2, <1>4, <1>5
<1>7. /\ t.batch \in Seq(N) /\ m \in Nat /\ m > 0 /\ Len(t.batch) = m - 1 /\ s.batch[1] = h
      /\ \A i \in 1 .. m - 1 : t.batch[i] = s.batch[i + 1] /\ i + 1 \in 1 .. m
  BY <1>1, <1>2, <1>5
<1>8. t.cursor = IF t.lines = << >> THEN 0 ELSE t.lines[Len(t.lines)].seq
  BY <1>4, <1>5, <1>6
<1>9. \A i \in 2 .. Len(t.lines) : t.lines[i - 1].seq < t.lines[i].seq
  <2>1. \A i \in 2 .. n : s.lines[i - 1].seq < s.lines[i].seq BY <1>2 DEF Exact
  <2> TAKE i \in 2 .. Len(t.lines)
  <2>2. CASE i \in 2 .. n
    <3>1. i - 1 \in 1 .. n /\ i \in 1 .. n BY <1>6, <2>2
    <3> QED BY <1>6, <2>1, <2>2, <3>1
  <2>3. CASE i = n + 1
    <3>1. i - 1 = n /\ n \in 1 .. n BY <1>6, <2>3
    <3>2. s.lines # << >> BY <1>2, <3>1
    <3>3. s.cursor = s.lines[n].seq BY <1>1, <1>2, <3>2
    <3>4. t.lines[n] = s.lines[n] BY <1>6, <3>1
    <3>5. t.lines[i - 1].seq = s.cursor /\ t.lines[i].seq = h BY <1>4, <1>6, <2>3, <3>1, <3>3, <3>4
    <3> QED BY <1>1, <1>3, <3>5
  <2> QED BY <1>6, <2>2, <2>3
<1>10. \A i, j \in 1 .. m : i < j => s.batch[i] < s.batch[j] BY <1>2 DEF Exact
<1>11. \A i \in 1 .. Len(t.batch) : t.batch[i] > t.cursor
  <2> TAKE i \in 1 .. Len(t.batch)
  <2>1. t.batch[i] = s.batch[i + 1] /\ i + 1 \in 1 .. m /\ 1 < i + 1 /\ 1 \in 1 .. m BY <1>7
  <2>2. s.batch[1] < s.batch[i + 1] BY <1>10, <2>1
  <2>3. s.batch[i + 1] \in Nat
    <3>1. N \subseteq Nat BY DEF N
    <3> QED BY <1>1, <1>2, <2>1, <3>1
  <2> QED BY <1>3, <1>5, <1>7, <2>1, <2>2, <2>3
<1>12. \A i, j \in 1 .. Len(t.batch) : i < j => t.batch[i] < t.batch[j]
  <2> TAKE i, j \in 1 .. Len(t.batch)
  <2>1. i < j => i + 1 < j + 1 OBVIOUS
  <2> QED BY <1>7, <1>10, <2>1
<1>13. Carried(t) = Carried(s)
  <2>1. Carried(t) \subseteq Carried(s)
    <3>1. ASSUME NEW i \in 1 .. Len(t.lines) PROVE t.lines[i].seq \in Carried(s)
      <4>1. CASE i \in 1 .. n BY <1>2, <1>6, <4>1 DEF Carried
      <4>2. CASE i = n + 1
        <5>1. t.lines[i].seq = s.batch[1] /\ 1 \in 1 .. Len(s.batch) BY <1>2, <1>4, <1>6, <1>7, <4>2
        <5> QED BY <5>1 DEF Carried
      <4> QED BY <1>6, <4>1, <4>2
    <3>2. ASSUME NEW i \in 1 .. Len(t.batch) PROVE t.batch[i] \in Carried(s)
      BY <1>2, <1>7 DEF Carried
    <3> QED BY <3>1, <3>2 DEF Carried
  <2>2. Carried(s) \subseteq Carried(t)
    <3>1. ASSUME NEW i \in 1 .. n PROVE s.lines[i].seq \in Carried(t)
      <4>1. i \in 1 .. Len(t.lines) /\ t.lines[i].seq = s.lines[i].seq BY <1>6
      <4> QED BY <4>1 DEF Carried
    <3>2. ASSUME NEW i \in 1 .. m PROVE s.batch[i] \in Carried(t)
      <4>1. CASE i = 1
        <5>1. t.lines[n + 1].seq = s.batch[i] /\ n + 1 \in 1 .. Len(t.lines) BY <1>4, <1>6, <1>7, <4>1
        <5> QED BY <5>1 DEF Carried
      <4>2. CASE i # 1
        <5>1. i - 1 \in 1 .. m - 1 /\ (i - 1) + 1 = i BY <1>7, <4>2
        <5>2. t.batch[i - 1] = s.batch[i] /\ i - 1 \in 1 .. Len(t.batch) BY <1>7, <5>1
        <5> QED BY <5>2 DEF Carried
      <4> QED BY <4>1, <4>2
    <3> QED BY <1>2, <3>1, <3>2 DEF Carried
  <2> QED BY <2>1, <2>2
<1>14. Len(t.lines) + Len(t.batch) <= e.cap
  <2>1. n + m <= e.cap BY <1>2 DEF Exact
  <2>2. e.cap \in Nat BY ApiAssumption DEF ApiAssumption
  <2>3. n \in Nat /\ m \in Nat /\ Len(t.lines) = n + 1 /\ Len(t.batch) = m - 1 BY <1>6, <1>7
  <2>4. PICK cap, k, j : cap = e.cap /\ k = Len(t.lines) /\ j = Len(t.batch) OBVIOUS
  <2>5. k + j <= cap BY <2>1, <2>2, <2>3, <2>4
  <2> QED BY <2>4, <2>5
<1>15. \A x \in (t.start \cap Matching(e.filter)) \ Carried(t) :
         ~t.short /\ x > t.cursor /\ \A i \in 1 .. Len(t.batch) : x > t.batch[i]
  <2> TAKE x \in (t.start \cap Matching(e.filter)) \ Carried(t)
  <2>1. ~s.short /\ \A i \in 1 .. m : x > s.batch[i] BY <1>2, <1>5, <1>13 DEF Exact
  <2>2. 1 \in 1 .. m BY <1>7
  <2> QED BY <1>5, <1>7, <2>1, <2>2
<1>16. \A i \in 1 .. Len(t.lines) : t.lines[i].anchor = FindAnchor(t.list, t.lines[i].seq)
  <2>1. \A i \in 1 .. n : s.lines[i].anchor = FindAnchor(s.list, s.lines[i].seq) BY <1>2 DEF Exact
  <2> TAKE i \in 1 .. Len(t.lines)
  <2>2. CASE i \in 1 .. n BY <1>5, <1>6, <2>1, <2>2
  <2>3. CASE i = n + 1 BY <1>4, <1>5, <1>6, <2>3
  <2> QED BY <1>6, <2>2, <2>3
<1>17. \A x \in Carried(t) : /\ At(x) \in e.filter.from .. e.filter.to
                             /\ e.filter.kind \in {"any", KindOf[x]}
  BY <1>13 DEF Exact
<1>18. t.cursor \in Nat /\ t.st # "done" /\ t.start \subseteq 1 .. top BY <1>3, <1>5 DEF Exact
<1>19. t.lines \in Seq([seq : 1 .. top, anchor : ToSet(t.list) \cup {NoAnchor}]) /\ t.batch \in Seq(1 .. top)
  BY <1>5, <1>6, <1>7 DEF T, N
<1> QED BY <1>1, <1>5, <1>8, <1>9, <1>11, <1>12, <1>14, <1>15, <1>16, <1>17, <1>18, <1>19 DEF Exact

(* The log: rows come and go, and a checkpoint begins where the last ended.  *)
LEMMA LogSoundStep ==
  ASSUME LogSound, LogMoves \/ Anchor \/ UNCHANGED store
  PROVE  LogSound' /\ top \in Nat /\ top' \in Nat /\ top <= top' /\ rows' \cap (1 .. top) \subseteq rows
<1>1. /\ top \in 0 .. MaxSeq /\ top \in Nat /\ MaxSeq \in Nat /\ rows \subseteq 1 .. top
      /\ IsFiniteSet(anchors)
      /\ \A a \in anchors : a \in [first : 1 .. top, last : 1 .. top] /\ a.first <= a.last
      /\ \A a, b \in anchors : a.first = b.first => a = b
  BY Params DEF LogSound
<1>2. CASE AppendRow
  <2>1. top < MaxSeq /\ rows' = rows \cup {top + 1} /\ top' = top + 1 /\ anchors' = anchors
    BY <1>2 DEF AppendRow
  <2>2. top' \in 0 .. MaxSeq /\ rows' \subseteq 1 .. top' /\ 1 .. top \subseteq 1 .. top'
        /\ rows' \cap (1 .. top) \subseteq rows /\ top' \in Nat /\ top <= top'
    BY <1>1, <2>1
  <2>3. \A a \in anchors : a \in [first : 1 .. top', last : 1 .. top'] BY <1>1, <2>2
  <2> QED BY <1>1, <2>1, <2>2, <2>3 DEF LogSound
<1>3. CASE Prune
  <2>1. PICK s \in rows : rows' = {x \in rows : x > s} /\ anchors' = {a \in anchors : a.first > s}
    BY <1>3 DEF Prune
  <2>2. top' = top /\ rows' \subseteq rows /\ anchors' \subseteq anchors BY <1>3, <2>1 DEF Prune
  <2>3. IsFiniteSet(anchors') BY <1>1, <2>2, FS_Subset
  <2> QED BY <1>1, <2>2, <2>3 DEF LogSound
<1>4. CASE Anchor
  <2> DEFINE L == {a.last : a \in anchors} \cup {0}
             new == [first |-> LastAnchored + 1, last |-> top]
  <2>1. rows' = rows /\ top' = top /\ LastAnchored < top /\ anchors' = anchors \cup {new}
    BY <1>4 DEF Anchor
  <2>2. IsFiniteSet(L)
    <3> DEFINE f == [a \in anchors |-> a.last]
               F == {a.last : a \in anchors}
    <3>1. f \in Surjection(anchors, F) BY Zenon DEF Surjection
    <3>2. IsFiniteSet(F)
      <4> HIDE DEF f, F
      <4> QED BY <1>1, <3>1, FS_Surjection
    <3>3. L = F \cup {0} OBVIOUS
    <3> HIDE DEF F, L
    <3> QED BY <3>2, <3>3, FS_AddElement
  <2>3. L \subseteq Nat /\ L # {} /\ \A a \in anchors : a.last \in L BY <1>1
  <2>4. LastAnchored = Max(L) BY DEF LastAnchored
  <2> HIDE DEF L
  <2>5. L \in SUBSET Int BY <2>3
  <2>6. LastAnchored \in L /\ \A x \in L : x <= LastAnchored BY <2>2, <2>3, <2>4, <2>5, LargestIs
  <2>7. PICK m : m = LastAnchored OBVIOUS
  <2>8. m \in Nat /\ m + 1 \in 1 .. top /\ top \in 1 .. top BY <1>1, <2>1, <2>3, <2>6, <2>7
  <2>9. new \in [first : 1 .. top, last : 1 .. top] /\ new.first = m + 1 /\ new.last = top
    BY <2>7, <2>8
  <2>10. \A a \in anchors : a.first # m + 1
    <3> TAKE a \in anchors
    <3>1. a.last <= m /\ a.first <= a.last BY <1>1, <2>3, <2>6, <2>7
    <3>2. a.last \in Nat /\ a.first \in Nat BY <1>1
    <3> QED BY <2>8, <3>1, <3>2
  <2> HIDE DEF new
  <2>11. IsFiniteSet(anchors') BY <1>1, <2>1, FS_AddElement
  <2>12. \A a, b \in anchors' : a.first = b.first => a = b BY <1>1, <2>1, <2>9, <2>10
  <2>13. \A a \in anchors' : a \in [first : 1 .. top, last : 1 .. top] /\ a.first <= a.last
    <3>1. new.first <= new.last BY <1>1, <2>8, <2>9
    <3> QED BY <1>1, <2>1, <2>9, <3>1
  <2> QED BY <1>1, <2>1, <2>11, <2>12, <2>13 DEF LogSound
<1>5. CASE CloseStore \/ UNCHANGED store
  <2>1. rows' = rows /\ top' = top /\ anchors' = anchors BY <1>5 DEF CloseStore, store
  <2> QED BY <1>1, <2>1 DEF LogSound
<1> QED BY <1>2, <1>3, <1>4, <1>5 DEF LogMoves

(* One stream changes, or none. *)
LEMMA StreamMoves ==
  ASSUME ExportInv, UNCHANGED store, NEW e \in Exports,
         \A d \in Exports : d # e => stream'[d] = stream[d],
         NEW t, t = stream'[e], t.st \in {"open", "waiting", "done"} => Exact(e, t)
  PROVE  ExportInv'
<1>1. LogSound' /\ top \in Nat /\ top' \in Nat /\ top <= top' /\ rows' \cap (1 .. top) \subseteq rows
  BY LogSoundStep DEF ExportInv
<1>2. ASSUME NEW d \in Exports, stream'[d].st \in {"open", "waiting", "done"}
      PROVE  Exact(d, stream[d])' 
  <2>1. PICK s : s = stream'[d] OBVIOUS
  <2>2. Exact(d, s)
    <3>1. CASE d = e BY <1>2, <2>1, <3>1
    <3>2. CASE d # e
      <4>1. s = stream[d] BY <2>1, <3>2
      <4> QED BY <1>2, <2>1, <4>1 DEF ExportInv
    <3> QED BY <3>1, <3>2
  <2>3. Exact(d, s)' BY <1>1, <2>2, ExactStays
  <2> QED BY <2>1, <2>3
<1> QED BY <1>1, <1>2 DEF ExportInv

(* An export begins with no line, and with the anchors there are. *)
LEMMA ExportExacts == ASSUME ExportInv, SlotInv, NEW e \in Exports, Export(e) PROVE ExportInv'
<1>1. DOMAIN stream = Exports /\ LogSound /\ UNCHANGED store
  BY DEF SlotInv, StreamsSound, ExportInv, Export
<1>2. PICK blocked, list, code :
        /\ blocked \in BOOLEAN
        /\ list = IF closed THEN << >> ELSE IndexAnchors
        /\ \/ stream' = [stream EXCEPT ![e] =
                [st |-> Running(blocked), cursor |-> 0, batch |-> << >>, short |-> FALSE,
                 lines |-> << >>, list |-> list, gone |-> FALSE, start |-> rows]]
           \/ stream' = [stream EXCEPT ![e] = [st |-> "refused", code |-> code]]
  BY DEF Export
<1>3. \A d \in Exports : d # e => stream'[d] = stream[d] BY <1>1, <1>2
<1>4. PICK t : t = stream'[e] OBVIOUS
<1>5. CASE t = [st |-> "refused", code |-> code]
  <2>1. t.st = "refused" BY <1>5
  <2> QED BY <1>1, <1>3, <1>4, <2>1, StreamMoves
<1>6. CASE t = [st |-> Running(blocked), cursor |-> 0, batch |-> << >>, short |-> FALSE,
                lines |-> << >>, list |-> list, gone |-> FALSE, start |-> rows]
  <2>1. /\ DOMAIN t = {"st", "cursor", "batch", "short", "lines", "list", "gone", "start"}
        /\ t.st # "done" /\ t.cursor = 0 /\ t.batch = << >> /\ t.short = FALSE
        /\ t.lines = << >> /\ t.list = list /\ t.start = rows
    BY <1>6 DEF Running
  <2>2. Ordered(list)
    <3>1. Ordered(IndexAnchors) BY <1>1, IndexAnchorsIs
    <3>2. Ordered(<< >>) BY DEF Ordered
    <3> QED BY <1>2, <3>1, <3>2
  <2>3. Carried(t) = {} BY <2>1 DEF Carried
  <2>4. top \in Nat /\ rows \subseteq 1 .. top BY <1>1, Params DEF LogSound
  <2>5. ASSUME NEW x \in t.start PROVE x > t.cursor
    <3>1. x \in 1 .. top BY <2>1, <2>4
    <3> QED BY <2>1, <2>4, <3>1
  <2>6. e.cap \in Nat BY ApiAssumption DEF ApiAssumption
  <2>7. t.cursor \in Nat /\ t.batch \in Seq(1 .. top) /\ Len(t.lines) + Len(t.batch) <= e.cap
        /\ t.start \subseteq 1 .. top
        /\ t.lines \in Seq([seq : 1 .. top, anchor : ToSet(t.list) \cup {NoAnchor}])
    BY <2>1, <2>4, <2>6
  <2>8. Exact(e, t) BY <2>1, <2>2, <2>3, <2>5, <2>7 DEF Exact
  <2> QED BY <1>1, <1>3, <1>4, <2>8, StreamMoves
<1> QED BY <1>1, <1>2, <1>4, <1>5, <1>6

(* A stream ends for want of rows only when it has them all, or its cap. *)
LEMMA FetchExacts == ASSUME ExportInv, SlotInv, NEW e \in Exports, FetchBatch(e) PROVE ExportInv'
<1>1. /\ DOMAIN stream = Exports /\ LogSound /\ UNCHANGED store
      /\ stream[e].batch = << >> /\ stream[e].st = "open" /\ Exact(e, stream[e])
  BY DEF SlotInv, StreamsSound, ExportInv, FetchBatch
<1>2. PICK s, b, p : s = stream[e] /\ b = NextBatch(e) /\ p = PageSize(e) OBVIOUS
<1>3. PICK t : t = stream'[e] OBVIOUS
<1>4. \/ \E st \in {"cancelled", "failed"} : Finish(e, st)
      \/ Finish(e, "done") /\ (s.short \/ p = 0 \/ b = << >>)
      \/ ~s.short /\ stream' = [stream EXCEPT ![e].batch = b, ![e].short = Len(b) < p]
  BY <1>2 DEF FetchBatch
<1>5. /\ DOMAIN s = {"st", "cursor", "batch", "short", "lines", "list", "gone", "start"}
      /\ s.cursor \in Nat /\ Len(s.lines) + Len(s.batch) <= e.cap
      /\ \A x \in (s.start \cap Matching(e.filter)) \ Carried(s) : ~s.short /\ x > s.cursor
  BY <1>1, <1>2 DEF Exact
<1>6. Len(s.lines) \in Nat /\ e.cap \in Nat /\ BatchLen \in Nat \ {0}
  <2> DEFINE T == [seq : 1 .. top, anchor : ToSet(s.list) \cup {NoAnchor}]
  <2>1. s.lines \in Seq(T) BY <1>1, <1>2 DEF Exact
  <2> HIDE DEF T
  <2> QED BY <2>1, ApiAssumption DEF ApiAssumption
<1>7. p \in Nat /\ (p = 0 => Len(s.lines) = e.cap)
  <2>1. Len(s.batch) = 0 BY <1>1, <1>2
  <2>2. PICK cap, n : cap = e.cap /\ n = Len(s.lines) OBVIOUS
  <2>3. n <= cap BY <1>5, <1>6, <2>1, <2>2
  <2>4. p = IF cap - n < BatchLen THEN cap - n ELSE BatchLen BY <1>2, <2>2 DEF PageSize
  <2>5. p \in Nat /\ (p = 0 => n = cap) BY <1>6, <2>2, <2>3, <2>4
  <2> QED BY <2>2, <2>5
<1>8. CASE \E st \in {"cancelled", "failed"} : Finish(e, st)
  <2>1. PICK st \in {"cancelled", "failed"} : stream' = [stream EXCEPT ![e].st = st]
    BY <1>8 DEF Finish
  <2>2. t.st = st BY <1>1, <1>2, <1>3, <1>5, <2>1
  <2>3. \A d \in Exports : d # e => stream'[d] = stream[d] BY <1>1, <2>1
  <2> QED BY <1>1, <1>3, <2>2, <2>3, StreamMoves
<1>9. CASE Finish(e, "done") /\ (s.short \/ p = 0 \/ b = << >>)
  <2>1. stream' = [stream EXCEPT ![e].st = "done"] BY <1>9 DEF Finish
  <2>2. t = [s EXCEPT !.st = "done"] BY <1>1, <1>2, <1>3, <2>1
  <2>3. /\ DOMAIN t = DOMAIN s /\ t.cursor = s.cursor /\ t.batch = s.batch /\ t.short = s.short
        /\ t.lines = s.lines /\ t.list = s.list /\ t.start = s.start
    BY <1>5, <2>2
  <2>4. Carried(t) = Carried(s) BY <2>3 DEF Carried
  <2>5. Len(s.lines) = e.cap \/ s.start \cap Matching(e.filter) \subseteq Carried(s)
    <3>1. CASE s.short BY <1>5, <3>1
    <3>2. CASE p = 0 BY <1>7, <3>2
    <3>3. CASE p # 0 /\ b = << >>
      <4> SUFFICES ASSUME NEW x \in (s.start \cap Matching(e.filter)) \ Carried(s) PROVE FALSE
        OBVIOUS
      <4>1. x > stream[e].cursor /\ x \notin {b[i] : i \in 1 .. Len(b)} /\ stream[e].cursor \in Nat
        BY <1>2, <1>5, <3>3
      <4>2. x \in Matching(e.filter) OBVIOUS
      <4>3. Len(b) = p BY <1>1, <1>2, <1>7, <4>1, <4>2, NextBatchIs
      <4> QED BY <3>3, <4>3
    <3> QED BY <1>9, <3>1, <3>2, <3>3
  <2>6. Exact(e, t)
    <3>1. Exact(e, s) /\ s.batch = << >> BY <1>1, <1>2
    <3> QED BY <2>3, <2>4, <2>5, <3>1 DEF Exact
  <2>7. \A d \in Exports : d # e => stream'[d] = stream[d] BY <1>1, <2>1
  <2> QED BY <1>1, <1>3, <2>6, <2>7, StreamMoves
<1>10. CASE ~s.short /\ stream' = [stream EXCEPT ![e].batch = b, ![e].short = Len(b) < p]
  <2>1. PICK short : short = (Len(b) < PageSize(e)) OBVIOUS
  <2>2. t = [s EXCEPT !.batch = b, !.short = short] BY <1>1, <1>2, <1>3, <1>5, <1>10, <2>1
  <2>3. Exact(e, t) BY <1>1, <1>2, <1>10, <2>1, <2>2, ExactFetched
  <2>4. \A d \in Exports : d # e => stream'[d] = stream[d] BY <1>1, <1>10
  <2> QED BY <1>1, <1>3, <2>3, <2>4, StreamMoves
<1> QED BY <1>4, <1>8, <1>9, <1>10

LEMMA WriteExacts == ASSUME ExportInv, SlotInv, NEW e \in Exports, WriteRow(e) PROVE ExportInv'
<1>1. /\ DOMAIN stream = Exports /\ LogSound /\ UNCHANGED store
      /\ stream[e].batch # << >> /\ stream[e].st = "open" /\ Exact(e, stream[e])
  BY DEF SlotInv, StreamsSound, ExportInv, WriteRow
<1>2. PICK s, h : s = stream[e] /\ h = Head(s.batch) OBVIOUS
<1>3. PICK t : t = stream'[e] OBVIOUS
<1>4. DOMAIN s = {"st", "cursor", "batch", "short", "lines", "list", "gone", "start"}
  BY <1>1, <1>2 DEF Exact
<1>5. PICK l : l = [seq |-> h, anchor |-> FindAnchor(s.list, h)] OBVIOUS
<1>6. \/ Finish(e, "cancelled")
      \/ \E blocked \in BOOLEAN :
           stream' = [stream EXCEPT ![e].st = Running(blocked), ![e].batch = Tail(s.batch),
                                    ![e].cursor = h, ![e].lines = Append(s.lines, l)]
  BY <1>2, <1>5 DEF WriteRow
<1>7. CASE Finish(e, "cancelled")
  <2>1. stream' = [stream EXCEPT ![e].st = "cancelled"] BY <1>7 DEF Finish
  <2>2. t.st = "cancelled" BY <1>1, <1>2, <1>3, <1>4, <2>1
  <2>3. \A d \in Exports : d # e => stream'[d] = stream[d] BY <1>1, <2>1
  <2> QED BY <1>1, <1>3, <2>2, <2>3, StreamMoves
<1>8. ASSUME NEW blocked \in BOOLEAN,
             stream' = [stream EXCEPT ![e].st = Running(blocked), ![e].batch = Tail(s.batch),
                                      ![e].cursor = h, ![e].lines = Append(s.lines, l)]
      PROVE  ExportInv'
  <2>1. PICK st : st = Running(blocked) OBVIOUS
  <2>2. st # "done" BY <2>1 DEF Running
  <2>3. t = [s EXCEPT !.st = st, !.batch = Tail(s.batch), !.cursor = h, !.lines = Append(s.lines, l)]
    BY <1>1, <1>2, <1>3, <1>8, <2>1
  <2>4. Exact(e, t) BY <1>1, <1>2, <1>5, <2>2, <2>3, ExactWritten
  <2>5. \A d \in Exports : d # e => stream'[d] = stream[d] BY <1>1, <1>8
  <2> QED BY <1>1, <1>3, <2>4, <2>5, StreamMoves
<1> QED BY <1>6, <1>7, <1>8

(* A client reads on, or leaves. *)
LEMMA ClientExacts ==
  ASSUME ExportInv, SlotInv, NEW e \in Exports, Resume(e) \/ Disconnect(e) PROVE ExportInv'
<1>1. /\ DOMAIN stream = Exports /\ UNCHANGED store /\ stream[e].st = "waiting"
      /\ Exact(e, stream[e])
  BY DEF SlotInv, StreamsSound, ExportInv, Resume, Resumable, Disconnect
<1>2. PICK s, t : s = stream[e] /\ t = stream'[e] OBVIOUS
<1>3. /\ stream' = [stream EXCEPT ![e].st = "open"] \/ stream' = [stream EXCEPT ![e].gone = TRUE]
  BY DEF Resume, Disconnect
<1>4. DOMAIN s = {"st", "cursor", "batch", "short", "lines", "list", "gone", "start"}
  BY <1>1, <1>2 DEF Exact
<1>5. t = [s EXCEPT !.st = "open"] \/ t = [s EXCEPT !.gone = TRUE] BY <1>1, <1>2, <1>3
<1>6. /\ DOMAIN t = DOMAIN s /\ t.st # "done" /\ t.cursor = s.cursor /\ t.batch = s.batch
      /\ t.short = s.short /\ t.lines = s.lines /\ t.list = s.list /\ t.start = s.start
  BY <1>1, <1>2, <1>4, <1>5
<1>7. Exact(e, t) BY <1>1, <1>2, <1>6, ExactSame
<1>8. \A d \in Exports : d # e => stream'[d] = stream[d] BY <1>1, <1>3
<1> QED BY <1>1, <1>2, <1>7, <1>8, StreamMoves

LEMMA ExportInvInit == UiInit => ExportInv
<1> SUFFICES ASSUME UiInit PROVE ExportInv OBVIOUS
<1>1. /\ top \in 0 .. 1 /\ rows = 1 .. top /\ anchors = {}
      /\ stream = [e \in Exports |-> NewStream]
  BY DEF UiInit, ApiInit
<1>2. LogSound
  <2>1. top \in 0 .. MaxSeq BY <1>1, Params
  <2> QED BY <1>1, <2>1, FS_EmptySet DEF LogSound
<1>3. \A e \in Exports : stream[e].st = "new" BY <1>1 DEF NewStream
<1> QED BY <1>2, <1>3 DEF ExportInv

LEMMA ExportInvStep == ASSUME ExportInv, SlotInv, [UiNext]_vars PROVE ExportInv'
<1>1. CASE UNCHANGED stream /\ (LogMoves \/ Anchor \/ UNCHANGED store)
  <2>1. LogSound' /\ top \in Nat /\ top' \in Nat /\ top <= top' /\ rows' \cap (1 .. top) \subseteq rows
    BY <1>1, LogSoundStep DEF ExportInv
  <2>2. ASSUME NEW e \in Exports, stream'[e].st \in {"open", "waiting", "done"}
        PROVE  Exact(e, stream[e])'
    <3>1. PICK s : s = stream[e] OBVIOUS
    <3>2. Exact(e, s) BY <1>1, <2>2, <3>1 DEF ExportInv
    <3>3. Exact(e, s)' BY <2>1, <3>2, ExactStays
    <3> QED BY <1>1, <3>1, <3>3
  <2> QED BY <2>1, <2>2 DEF ExportInv
<1>2. CASE Serve
  <2>1. CASE LogMoves \/ Anchor
    <3>1. UNCHANGED stream BY <2>1 DEF LogMoves, AppendRow, Prune, CloseStore, Anchor
    <3> QED BY <1>1, <2>1, <3>1
  <2>2. CASE \E e \in Exports : Export(e) \/ Streaming(e) \/ Disconnect(e)
    BY <2>2, ExportExacts, FetchExacts, WriteExacts, ClientExacts DEF Streaming
  <2> QED BY <1>2, <2>1, <2>2 DEF Serve
<1>3. CASE Browse \/ UNCHANGED vars
  <2>1. UNCHANGED apiVars
    BY <1>3 DEF Browse, OnFilters, FollowLink, ClearFocus, PageBack, PageOn, LastPage,
         JumpToOffset, Load, Ask, Run, RunEmpty, Refresh, Navigate, ServerAnswers,
         NetworkFails, Answered, Delivered, vars
  <2> QED BY <1>1, <2>1 DEF apiVars
<1> QED BY <1>2, <1>3 DEF UiNext

LEMMA ExportIsExact ==
  ASSUME ExportInv, NEW e \in Exports, NEW s, s = stream[e], s.st = "done"
  PROVE  LET out  == {s.lines[i].seq : i \in DOMAIN s.lines}
             kept == {x \in s.start \cap Matching(e.filter) :
                        Len(s.lines) = e.cap => x <= s.cursor}
         IN  /\ kept \subseteq out
             /\ Len(s.lines) <= e.cap
             /\ \A i \in DOMAIN s.lines :
                  LET l == s.lines[i] IN
                  /\ i > 1 => s.lines[i - 1].seq < l.seq
                  /\ At(l.seq) \in e.filter.from .. e.filter.to
                  /\ e.filter.kind \in {"any", KindOf[l.seq]}
                  /\ LET cover == {a \in ToSet(s.list) : a.first <= l.seq /\ l.seq <= a.last}
                     IN  IF cover = {} THEN l.anchor = NoAnchor ELSE l.anchor \in cover
<1> DEFINE T == [seq : 1 .. top, anchor : ToSet(s.list) \cup {NoAnchor}]
<1>1. Exact(e, s) /\ top \in Nat BY Params DEF ExportInv, LogSound
<1>2. s.batch = << >> /\ s.lines \in Seq(T) /\ s.start \subseteq 1 .. top /\ s.cursor \in Nat
      /\ Ordered(s.list)
  BY <1>1 DEF Exact
<1>3. PICK n : n = Len(s.lines) OBVIOUS
<1>4. \A l \in T : l.seq \in Nat BY <1>1
<1> HIDE DEF T
<1>5. n \in Nat /\ DOMAIN s.lines = 1 .. n /\ \A i \in 1 .. n : s.lines[i] \in T BY <1>2, <1>3
<1>6. Carried(s) = {s.lines[i].seq : i \in 1 .. n} BY <1>2, <1>3 DEF Carried
<1>7. ASSUME NEW x \in s.start \cap Matching(e.filter), Len(s.lines) = e.cap => x <= s.cursor
      PROVE  x \in Carried(s)
  <2> SUFFICES ASSUME x \notin Carried(s) PROVE FALSE OBVIOUS
  <2>1. x > s.cursor BY <1>1 DEF Exact
  <2>2. Len(s.lines) = e.cap \/ s.start \cap Matching(e.filter) \subseteq Carried(s)
    BY <1>1 DEF Exact
  <2>3. x \in Nat BY <1>1, <1>2
  <2> QED BY <1>2, <1>7, <2>1, <2>2, <2>3
<1>8. Len(s.lines) <= e.cap
  <2>1. Len(s.lines) + Len(s.batch) <= e.cap BY <1>1 DEF Exact
  <2>2. Len(s.batch) = 0 BY <1>2
  <2>3. e.cap \in Nat BY ApiAssumption DEF ApiAssumption
  <2> QED BY <1>3, <1>5, <2>1, <2>2, <2>3
<1>9. ASSUME NEW i \in 1 .. n
      PROVE  LET l == s.lines[i] IN
             /\ i > 1 => s.lines[i - 1].seq < l.seq
             /\ At(l.seq) \in e.filter.from .. e.filter.to
             /\ e.filter.kind \in {"any", KindOf[l.seq]}
             /\ LET cover == {a \in ToSet(s.list) : a.first <= l.seq /\ l.seq <= a.last}
                IN  IF cover = {} THEN l.anchor = NoAnchor ELSE l.anchor \in cover
  <2>1. PICK l : l = s.lines[i] OBVIOUS
  <2>2. l.seq \in Nat /\ l.seq \in Carried(s) BY <1>4, <1>5, <1>6, <2>1
  <2>3. i > 1 => s.lines[i - 1].seq < l.seq
    <3>1. \A j \in 2 .. n : s.lines[j - 1].seq < s.lines[j].seq BY <1>1, <1>3 DEF Exact
    <3>2. i > 1 => i \in 2 .. n BY <1>5
    <3> QED BY <2>1, <3>1, <3>2
  <2>4. At(l.seq) \in e.filter.from .. e.filter.to /\ e.filter.kind \in {"any", KindOf[l.seq]}
    BY <1>1, <2>2 DEF Exact
  <2>5. l.anchor = FindAnchor(s.list, l.seq) BY <1>1, <1>3, <2>1 DEF Exact
  <2>6. PICK cover : cover = {a \in ToSet(s.list) : a.first <= l.seq /\ l.seq <= a.last} OBVIOUS
  <2>7. IF cover = {} THEN l.anchor = NoAnchor ELSE l.anchor \in cover
    BY <1>2, <2>2, <2>5, <2>6, FindAnchorIs
  <2> QED BY <2>1, <2>3, <2>4, <2>6, <2>7
<1> QED BY <1>5, <1>6, <1>7, <1>8, <1>9

(* Whatever is added, pruned and anchored while a client reads, an export    *)
(* that ends holds what ExportInv says of it.                                *)
THEOREM ExportsInductive == UiSpec => [](SlotInv /\ ExportInv)
<1>1. SlotInv /\ ExportInv /\ [UiNext]_vars => (SlotInv /\ ExportInv)'
  BY SlotInvStep, ExportInvStep
<1> QED BY <1>1, SlotInvInit, ExportInvInit, PTL DEF UiSpec

(* An export that ends leaves out no row of its filter that was there from   *)
(* its start to its end, in order and up to its cap, and each row carries an *)
(* anchor that covers it, if one did when the export began (ui/export.ts,    *)
(* streamExport, findAnchor).                                                *)
THEOREM ExportAlwaysExact == UiSpec => []ExportExact
<1>1. ExportInv => ExportExact BY ExportIsExact DEF ExportExact
<1> QED BY <1>1, ExportsInductive, PTL
=============================================================================
