------------------------------ MODULE AuditApi ------------------------------
(***************************************************************************)
(* The HTTP side of the audit plugin: what ui/routes.ts answers and what   *)
(* ui/export.ts streams, over a log that grows, is pruned, is anchored and *)
(* is closed meanwhile.                                                    *)
(*                                                                         *)
(* An event is its sequence; KindOf says what the filters tell apart,      *)
(* and two events share a millisecond.  A                                  *)
(* handler runs to completion up to its first await.  The only one with    *)
(* awaits between reads of the log is the export, whose steps run while    *)
(* `thread' names it: nothing else moves until it waits for its client.    *)
(*                                                                         *)
(* A request is its route and the defects it has; Checks lists what each   *)
(* handler tests, in its order.                                            *)
(***************************************************************************)
EXTENDS Integers, Sequences, FiniteSets, SequencesExt, FiniteSetsExt, TLC

CONSTANTS
  KindOf,      (* the value of a filtered column, for each sequence        *)
  MaxSeq,      (* bound on the events                                      *)
  PageLen,     (* PAGE_SIZE of the event table                             *)
  BatchLen,    (* BATCH_SIZE of an export                                  *)
  MaxStreams,  (* MAX_CONCURRENT_EXPORTS                                   *)
  Exports,     (* the export requests that may be made                     *)
  Policies,    (* combinations of bind, gatewayAuth and the two opt-ins    *)
  MaxAnchors   (* bound on the checkpoints                                 *)

ASSUME ApiAssumption ==
  /\ {MaxSeq, PageLen, BatchLen, MaxStreams} \subseteq Nat \ {0}
  /\ DOMAIN KindOf = 1 .. MaxSeq
  /\ MaxAnchors \in Nat /\ IsFiniteSet(Exports)
  /\ \A e, d \in Exports : e.id # 0 /\ (e.id = d.id => e = d)
  /\ \A e \in Exports : {e.cap, e.filter.from, e.filter.to} \subseteq Nat

VARIABLES
  rows,      (* audit_events: the sequences that are left                   *)
  top,       (* the last sequence given out                                *)
  anchors,   (* active checkpoints with a DE transaction                   *)
  closed,    (* retention's stop() has closed the store                    *)
  policy,    (* AuditUiContext: bind, requireGatewayAuth, opt-ins          *)
  slots,     (* ConcurrencyState.exports                                   *)
  stream,    (* the export requests and their streams                      *)
  thread     (* the export whose code is running, or 0                     *)

store   == <<rows, top, anchors, closed, policy>>
apiVars == <<store, slots, stream, thread>>

-----------------------------------------------------------------------------
(* AuditStore.query and count. *)

NoFilter == [kind |-> "any", from |-> 0, to |-> MaxSeq]
At(s) == (s + 1) \div 2

\* buildWhere, with the export's inclusive upper bound as createdBefore + 1
Matching(f) ==
  {s \in rows : /\ f.kind \in {"any", KindOf[s]}
                       /\ At(s) >= f.from
                       /\ At(s) < f.to + 1}

\* ORDER BY: the place of a row is the number of rows before it
Ascending(S)  == [i \in 1 .. Cardinality(S) |->
                    CHOOSE s \in S : Cardinality({x \in S : x < s}) = i - 1]
\* mutant: pages oldest first
OldestFirst(S) == Ascending(S)

Descending(S) == [i \in 1 .. Cardinality(S) |->
                    CHOOSE s \in S : Cardinality({x \in S : x > s}) = i - 1]
Slice(q, offset, limit) == SubSeq(q, offset + 1, IF Len(q) < offset + limit THEN Len(q) ELSE offset + limit)

-----------------------------------------------------------------------------
(* Who is answered, and what each handler checks, in its order. *)

\* readable without the loopback gate
Ungated == {"trees", "checkpoints", "health"}

GateBlocked(optIn) == policy.nonLoopback /\ ~policy.auth /\ ~optIn

Denied(route) ==
  /\ route \notin Ungated
  /\ GateBlocked(IF route = "verify" THEN policy.allowVerify
                                     ELSE policy.allowExport)

EventsChecks    == <<"long">>
EventChecks     == <<"noId", "missing">>
VerifyChecks    == <<"body", "times">>
ExportChecks    == <<"busy", "format", "times", "limit", "long">>
ReportChecks    == <<"period", "tz", "window", "knobs", "format">>
CronChecks      == <<"noId", "last", "format">>
SessionChecks   == <<"noId", "long", "limit">>
AnomalyChecks   == <<"tz", "window", "knobs">>
ProofChecks     == <<"noId", "long", "missing">>
CheckProofCheck == <<"body", "shape">>
ChainChecks     == <<"noId", "long">>
SpendChecks     == <<"by", "tz", "window", "limit">>
InventoryChecks == <<"kind">>
StatusChecks    == <<"unconfigured">>

Checks ==
  [events |-> EventsChecks, event |-> EventChecks, verify |-> VerifyChecks,
   export |-> ExportChecks, report |-> ReportChecks, cron |-> CronChecks,
   session |-> SessionChecks, anomalies |-> AnomalyChecks,
   proof |-> ProofChecks, checkProof |-> CheckProofCheck,
   chain |-> ChainChecks, spend |-> SpendChecks,
   inventory |-> InventoryChecks, status |-> StatusChecks,
   trees |-> << >>, checkpoints |-> << >>, health |-> << >>]

\* a validated proof: its strings, its arrays, at most 256 siblings
CodeOf(defect) ==
  CASE defect = "missing" -> 404
    [] defect \in {"busy", "unconfigured"} -> 503
    [] OTHER -> 400

\* the answer of the /api/audit route to a request with these defects
Answer(route, defects) ==
  LET found == {i \in DOMAIN Checks[route] : Checks[route][i] \in defects}
  IN  IF "origin" \in defects \/ Denied(route) THEN 403
      ELSE IF found # {} THEN CodeOf(Checks[route][Min(found)])
      ELSE IF closed THEN 500
      ELSE 200

-----------------------------------------------------------------------------
(* GET /api/events: one page, newest first.                     *)

\* mutant: the focused row counts as one before itself
FocusOffsetFrom(focus) ==
  (Cardinality({s \in rows : s >= focus}) \div PageLen) * PageLen

\* the page with the focused sequence on it
FocusOffset(focus) ==
  (Cardinality({s \in rows : s > focus}) \div PageLen) * PageLen

\* focus 0 is a request without focusSeq; with one the filters are dropped
EventsPage(kind, offset, focus) ==
  LET used == IF focus = 0 THEN kind ELSE "any"
      from == IF focus = 0 THEN offset ELSE FocusOffset(focus)
      hits == Descending(Matching([NoFilter EXCEPT !.kind = used]))
      hit  == Slice(hits, from, PageLen)
  IN  [st |-> "ok", page |-> hit, kind |-> used, total |-> Len(hits), offset |-> from,
       log |-> rows]

-----------------------------------------------------------------------------
(* The log. *)

AppendRow ==
  /\ thread = 0 /\ ~closed /\ top < MaxSeq
  /\ rows' = rows \cup {top + 1}
  /\ top' = top + 1
  /\ UNCHANGED <<anchors, closed, policy, slots, stream, thread>>

LastAnchored == Max({a.last : a \in anchors} \cup {0})

Anchor ==
  /\ thread = 0 /\ ~closed /\ LastAnchored < top
  /\ Cardinality(anchors) < MaxAnchors
  /\ anchors' = anchors \cup {[first |-> LastAnchored + 1, last |-> top]}
  /\ UNCHANGED <<rows, top, closed, policy, slots, stream, thread>>

\* the oldest rows go, and the checkpoints that start among them
Prune ==
  /\ thread = 0 /\ ~closed
  /\ \E s \in rows :
       /\ rows' = {x \in rows : x > s}
       /\ anchors' = {a \in anchors : a.first > s}
  /\ UNCHANGED <<top, closed, policy, slots, stream, thread>>

CloseStore ==
  /\ thread = 0 /\ ~closed
  /\ closed' = TRUE
  /\ UNCHANGED <<rows, top, anchors, policy, slots, stream, thread>>

-----------------------------------------------------------------------------
(* GET /api/export.  A stream keeps the rows it has queried and not yet     *)
(* written (batch), whether that query came back short, the lines written   *)
(* with the anchor each one carries, and the anchors it read at its start;  *)
(* start and lost are ghosts: the rows at its start and those deleted       *)
(* since.                                                                   *)

NoAnchor  == [first |-> 0, last |-> 0]
NewStream == [st |-> "new"]

IndexAnchors ==
  LET firsts == Ascending({a.first : a \in anchors})
  IN  [i \in DOMAIN firsts |-> CHOOSE a \in anchors : a.first = firsts[i]]

\* the rightmost anchor that starts at or before s, by binary search
Rightmost(list, s) ==
  LET search[r \in (1 .. Len(list) + 1) \X (0 .. Len(list))] ==
        LET lo  == r[1]
            hi  == r[2]
            mid == (lo + hi) \div 2
        IN  IF lo > hi THEN hi
            ELSE IF list[mid].first <= s THEN search[<<mid + 1, hi>>]
            ELSE search[<<lo, mid - 1>>]
  IN  search[<<1, Len(list)>>]

\* from there backwards, the first that covers s
FindAnchor(list, s) ==
  LET covering == {i \in 1 .. Rightmost(list, s) : list[i].last >= s}
  IN  IF covering = {} THEN NoAnchor ELSE list[Max(covering)]

\* write returned false: the thread goes on elsewhere until the client reads
Await(e, blocked) == thread' = IF blocked THEN 0 ELSE e.id
Running(blocked)  == IF blocked THEN "waiting" ELSE "open"

\* a csv starts with its header line
Export(e) ==
  /\ thread = 0 /\ stream[e].st = "new"
  /\ \E defects \in SUBSET {"format"}, blocked \in BOOLEAN :
       LET busy == IF slots >= MaxStreams THEN {"busy"} ELSE {}
           code == Answer("export", defects \cup busy)
       IN  /\ blocked => e.csv
           /\ IF code \in {200, 500}
              THEN /\ slots' = slots + 1
                   /\ Await(e, blocked)
                   /\ stream' = [stream EXCEPT ![e] =
                        [st |-> Running(blocked), cursor |-> 0,
                         batch |-> << >>, short |-> FALSE, lines |-> << >>,
                         list |-> IF closed THEN << >> ELSE IndexAnchors,
                         gone |-> FALSE, start |-> rows]]
              ELSE /\ stream' = [stream EXCEPT ![e] = [st |-> "refused", code |-> code]]
                   /\ UNCHANGED <<slots, thread>>
  /\ UNCHANGED store

\* the end of pipeExportToResponse and of the handler's try
Finish(e, st) ==
  /\ stream' = [stream EXCEPT ![e].st = st]
  /\ slots' = slots - 1
  /\ thread' = 0

PageSize(e) == IF e.cap - Len(stream[e].lines) < BatchLen
               THEN e.cap - Len(stream[e].lines) ELSE BatchLen

\* mutant: the next batch by offset
NextByOffset(e) ==
  Slice(Ascending(Matching(e.filter)), Len(stream[e].lines), PageSize(e))

NextBatch(e) ==
  LET s == stream[e]
  IN  Slice(Ascending({x \in Matching(e.filter) : x > s.cursor}), 0, PageSize(e))

FetchBatch(e) ==
  LET s == stream[e] IN
  /\ thread = e.id /\ s.batch = << >>
  /\ IF s.gone THEN Finish(e, "cancelled")
     ELSE IF s.short \/ PageSize(e) = 0 THEN Finish(e, "done")
     ELSE IF closed THEN Finish(e, "failed")
     ELSE IF NextBatch(e) = << >> THEN Finish(e, "done")
     ELSE /\ stream' = [stream EXCEPT ![e].batch = NextBatch(e),
                                      ![e].short = Len(NextBatch(e)) < PageSize(e)]
          /\ UNCHANGED <<slots, thread>>
  /\ UNCHANGED store

WriteRow(e) ==
  LET s == stream[e] IN
  /\ thread = e.id /\ s.batch # << >>
  /\ IF s.gone THEN Finish(e, "cancelled")
     ELSE \E blocked \in BOOLEAN :
            /\ stream' = [stream EXCEPT
                 ![e].st     = Running(blocked),
                 ![e].batch  = Tail(s.batch),
                 ![e].cursor = Head(s.batch),
                 ![e].lines  = Append(s.lines, [seq |-> Head(s.batch),
                                   anchor |-> FindAnchor(s.list, Head(s.batch))])]
            /\ Await(e, blocked)
            /\ UNCHANGED slots
  /\ UNCHANGED store

\* mutant: only a drain resolves it
ResumableByDrain(e) == stream[e].st = "waiting" /\ ~stream[e].gone

\* the response drains, or it closes: both resolve waitForDrain
Resumable(e) == stream[e].st = "waiting"

Resume(e) ==
  /\ thread = 0 /\ Resumable(e)
  /\ stream' = [stream EXCEPT ![e].st = "open"]
  /\ thread' = e.id
  /\ UNCHANGED <<store, slots>>

Disconnect(e) ==
  /\ thread = 0 /\ stream[e].st = "waiting" /\ ~stream[e].gone
  /\ stream' = [stream EXCEPT ![e].gone = TRUE]
  /\ UNCHANGED <<store, slots, thread>>

-----------------------------------------------------------------------------

ApiInit ==
  /\ top \in 0 .. 1 /\ rows = 1 .. top
  /\ anchors = {}
  /\ closed = FALSE
  /\ policy \in Policies
  /\ slots = 0 /\ thread = 0
  /\ stream = [e \in Exports |-> NewStream]

LogMoves == AppendRow \/ Prune \/ CloseStore

Streaming(e) == FetchBatch(e) \/ WriteRow(e) \/ Resume(e)

\* the code between awaits runs; a client reads on or leaves
ApiFairness == \A e \in Exports : WF_apiVars(Streaming(e))

-----------------------------------------------------------------------------
(* Properties. *)

Ended(e) == stream[e].st \in {"done", "cancelled", "failed"}

Under == {e \in Exports : stream[e].st \in {"open", "waiting"}}

\* What an export delivers is what the log held: its lines ascend, match its
\* filter, and leave out no matching row that was there from its start to its
\* end, up to its cap; each line carries an anchor that covers it whenever one
\* was there at the start.  (streamExport, "concurrent retention DELETEs behind
\* the cursor can't make us skip rows")
ExportExact ==
  \A e \in Exports : stream[e].st = "done" =>
    LET s    == stream[e]
        out  == {s.lines[i].seq : i \in DOMAIN s.lines}
        kept == {x \in s.start \cap Matching(e.filter) :
                   Len(s.lines) = e.cap => x <= s.cursor}
    IN  /\ kept \subseteq out
        /\ Len(s.lines) <= e.cap
        /\ \A i \in DOMAIN s.lines :
             LET l == s.lines[i] IN
             /\ i > 1 => s.lines[i - 1].seq < l.seq
             /\ At(l.seq) \in e.filter.from .. e.filter.to
             /\ e.filter.kind \in {"any", KindOf[l.seq]}
             /\ LET cover == {a \in ToSet(s.list) : a.first <= l.seq /\ l.seq <= a.last}
                IN  IF cover = {} THEN l.anchor = NoAnchor ELSE l.anchor \in cover

\* ConcurrencyState.exports is the number of streams under way, and never more
\* than MAX_CONCURRENT_EXPORTS, although the check and the count are undone in
\* another call.
SlotsCounted == slots = Cardinality(Under) /\ slots <= MaxStreams

\* A slot is held exactly while a stream is under way, whichever way it ends
\* (ConcurrencyState.exports), and no stream is under way for ever: a client
\* that disconnects does not wedge the loop.
SlotsFreed ==
  /\ []SlotsCounted
  /\ \A e \in Exports : e \in Under ~> Ended(e)

-----------------------------------------------------------------------------
(* The invariant behind ExportExact. *)

\* Checkpoints follow one another.
LogSound ==
  /\ top \in 0 .. MaxSeq /\ rows \subseteq 1 .. top
  /\ IsFiniteSet(anchors)
  /\ \A a \in anchors : a \in [first : 1 .. top, last : 1 .. top] /\ a.first <= a.last
  /\ \A a, b \in anchors : a.first = b.first => a = b

Ordered(list) ==
  /\ list \in Seq([first : Nat, last : Nat])
  /\ \A i, j \in 1 .. Len(list) : i < j => list[i].first < list[j].first

Carried(s) == {s.lines[i].seq : i \in 1 .. Len(s.lines)} \cup {s.batch[i] : i \in 1 .. Len(s.batch)}

\* What a stream has written ends at its cursor, what it has fetched begins after
\* it, and both follow the order of the log and the filter and keep to the cap. A
\* row of its start that is left and is in neither comes after both, unless the
\* last batch came back short.
Exact(e, s) ==
  /\ DOMAIN s = {"st", "cursor", "batch", "short", "lines", "list", "gone", "start"}
  /\ s.cursor \in Nat /\ s.batch \in Seq(1 .. top)
  /\ s.lines \in Seq([seq : 1 .. top, anchor : ToSet(s.list) \cup {NoAnchor}])
  /\ s.cursor = IF s.lines = << >> THEN 0 ELSE s.lines[Len(s.lines)].seq
  /\ \A i \in 2 .. Len(s.lines) : s.lines[i - 1].seq < s.lines[i].seq
  /\ \A i \in 1 .. Len(s.batch) : s.batch[i] > s.cursor
  /\ \A i, j \in 1 .. Len(s.batch) : i < j => s.batch[i] < s.batch[j]
  /\ \A x \in Carried(s) : /\ At(x) \in e.filter.from .. e.filter.to
                          /\ e.filter.kind \in {"any", KindOf[x]}
  /\ Len(s.lines) + Len(s.batch) <= e.cap
  /\ s.start \subseteq 1 .. top
  /\ \A x \in (s.start \cap Matching(e.filter)) \ Carried(s) :
       ~s.short /\ x > s.cursor /\ \A i \in 1 .. Len(s.batch) : x > s.batch[i]
  /\ Ordered(s.list)
  /\ \A i \in 1 .. Len(s.lines) : s.lines[i].anchor = FindAnchor(s.list, s.lines[i].seq)
  /\ s.st = "done" => /\ s.batch = << >>
                      /\ \/ Len(s.lines) = e.cap
                         \/ s.start \cap Matching(e.filter) \subseteq Carried(s)

ExportInv ==
  LogSound /\ \A e \in Exports : stream[e].st \in {"open", "waiting", "done"} => Exact(e, stream[e])
=============================================================================
