------------------------------ MODULE ControlUi ------------------------------
(***************************************************************************)
(* The browser side (control-ui) on top of AuditApi: one page at a time,   *)
(* the event table with its filters, offsets and focused row, the          *)
(* dashboard with its timer, or a view that loads a report; or else        *)
(* clients that export, which share nothing with a page but the log.       *)
(* A load is a flight: the server answers it when it gets to it, and the   *)
(* answer arrives when the network brings it.  Two flights of a page may   *)
(* arrive in either order, and no page guards against that: the older      *)
(* answer then stays (`overtaken' remembers that it happened).             *)
(***************************************************************************)
EXTENDS AuditApi

CONSTANTS
  Pages,       (* pages that are opened: "table", "status", names of views *)
  Inputs,      (* what a view's fields may hold beside "none" and "bad"    *)
  Focuses,     (* sequences a link may focus                               *)
  MaxLoads,    (* bound on the loads                                       *)
  MaxLost      (* bound on the loads that fail in the network              *)

VARIABLES
  open,      (* the page that is open, or "exports"                        *)
  table,     (* the event table: kind, offset, focus, pending, total       *)
  shown,     (* the rows the table shows                                   *)
  result,    (* the load whose answer the page shows, or 0                 *)
  sent,      (* the page's last load, or 0                                 *)
  error,     (* whether the page shows an error                            *)
  loading,   (* whether it says it is loading                              *)
  overtaken, (* ghost: an answer arrived after that of a later load        *)
  flights,   (* loads under way, with the answer once there is one         *)
  walk,      (* ghost: the rows at the start of a walk with Next, and seen *)
  loads, lost

page       == <<result, sent, error, loading, overtaken, flights>>
clientVars == <<open, table, shown, page, walk, loads, lost>>
vars       == <<apiVars, clientVars>>

-----------------------------------------------------------------------------
(* What each view asks and how: what an empty field does (it is asked with, *)
(* its button is disabled, an error), whether the result is emptied first,  *)
(* and whether the hash of the page may run it again while it loads.        *)

SessionView   == [route |-> "session",   empty |-> "button", clears |-> FALSE, hash |-> TRUE]
CronView      == [route |-> "cron",      empty |-> "button", clears |-> FALSE, hash |-> TRUE]
ReportView    == [route |-> "report",    empty |-> "asks",   clears |-> FALSE, hash |-> TRUE]
InventoryView == [route |-> "inventory", empty |-> "asks",   clears |-> FALSE, hash |-> TRUE]
AnomaliesView == [route |-> "anomalies", empty |-> "asks",   clears |-> FALSE, hash |-> FALSE]
SpendView     == [route |-> "spend",     empty |-> "asks",   clears |-> FALSE, hash |-> FALSE]
TreesView     == [route |-> "trees",     empty |-> "asks",   clears |-> FALSE, hash |-> FALSE]
ProofView     == [route |-> "proof",     empty |-> "button", clears |-> TRUE,  hash |-> FALSE]
VerifyView    == [route |-> "verify",    empty |-> "error",  clears |-> TRUE,  hash |-> FALSE]

ViewOf ==
  [session |-> SessionView, cron |-> CronView, report |-> ReportView,
   anomalies |-> AnomaliesView, spend |-> SpendView, inventory |-> InventoryView,
   trees |-> TreesView, verify |-> VerifyView, proof |-> ProofView]

NoReply == [st |-> "none"]
Failed  == [st |-> "failed"]

\* what the table asks; a view asks with what its fields hold
Asked(input) == [input |-> input, offset |-> 0, focus |-> 0]

\* fetchJson: the page asks and says that it loads
Ask(ask) ==
  /\ loads < MaxLoads
  /\ loads' = loads + 1
  /\ sent' = loads + 1
  /\ loading' = TRUE
  /\ flights' = flights \cup {[id |-> loads + 1, ask |-> ask, reply |-> NoReply]}
  /\ UNCHANGED <<apiVars, open, overtaken, lost>>

-----------------------------------------------------------------------------
(* The event table. *)

NoWalk   == [on |-> FALSE, start |-> {}, seen |-> {}]
NewTable == [kind |-> "any", offset |-> 0, focus |-> 0, pending |-> FALSE, total |-> 0]
NoPage   == [st |-> "ok", page |-> << >>, kind |-> "any", total |-> 0, offset |-> 0, log |-> {}]

LastPageOffset == IF table.total = 0 THEN 0 ELSE ((table.total - 1) \div PageLen) * PageLen

AskOf(t) == [input |-> t.kind, offset |-> t.offset,
             focus |-> IF t.pending THEN t.focus ELSE 0]

\* load(), up to its await
Load(t) ==
  /\ open = "table"
  /\ Ask(AskOf(t))
  /\ table' = t
  /\ error' = FALSE
  /\ UNCHANGED <<shown, result>>

OnFilters(k) ==
  /\ Load([table EXCEPT !.kind = k, !.offset = 0, !.focus = 0, !.pending = FALSE])
  /\ walk' = NoWalk

\* the hash changes to a link with focusSeq, or loses it
FollowLink(s) ==
  /\ s # table.focus
  /\ Load([table EXCEPT !.focus = s, !.pending = s # 0,
                        !.kind = IF s # 0 THEN "any" ELSE @])
  /\ walk' = NoWalk

ClearFocus ==
  /\ open = "table" /\ table.focus # 0
  /\ table' = [table EXCEPT !.focus = 0, !.pending = FALSE]
  /\ UNCHANGED <<apiVars, open, shown, page, walk, loads, lost>>

JumpToOffset(target) ==
  LET next == Max({0, Min({target, LastPageOffset})}) IN
  /\ next # table.offset
  /\ Load([table EXCEPT !.offset = next])

\* the buttons are disabled while the table says that it loads
PageBack ==
  /\ ~loading /\ table.offset # 0
  /\ \E target \in {0, table.offset - PageLen} : JumpToOffset(target)
  /\ walk' = NoWalk

HasNext == table.offset + Len(shown.page) < table.total

PageOn ==
  /\ ~loading /\ HasNext
  /\ JumpToOffset(table.offset + PageLen)
  /\ walk' = IF flights = {} THEN walk ELSE NoWalk

LastPage ==
  /\ ~loading /\ HasNext
  /\ JumpToOffset(LastPageOffset)
  /\ walk' = NoWalk

\* mutant: it keeps its own
AdoptTotal(t, r) == [t EXCEPT !.total = r.total, !.pending = FALSE]

\* the table takes over the offset the server computed
Adopt(t, r) == [t EXCEPT !.total = r.total, !.offset = r.offset, !.pending = FALSE]

\* a walk begins with the first page and goes on with Next
Walked(f) ==
  IF flights # {f} \/ f.id # sent \/ f.ask.focus # 0 THEN NoWalk
  ELSE IF f.reply.offset = 0
       THEN [on |-> TRUE, start |-> f.reply.log, seen |-> ToSet(f.reply.page)]
  ELSE [walk EXCEPT !.seen = @ \cup ToSet(f.reply.page)]

-----------------------------------------------------------------------------
(* The other pages. *)

Empty(input, how) == input = "none" /\ ViewOf[open].empty = how

\* run() with what its fields hold: from its button, or from the hash
Run(input) ==
  /\ open \in DOMAIN ViewOf
  /\ loading => ViewOf[open].hash
  /\ ~Empty(input, "button") /\ ~Empty(input, "error")
  /\ Ask(Asked(input))
  /\ result' = IF ViewOf[open].clears THEN 0 ELSE result
  /\ error' = FALSE
  /\ UNCHANGED <<table, shown, walk>>

RunEmpty ==
  /\ open \in DOMAIN ViewOf
  /\ ~loading /\ ~error /\ Empty("none", "error")
  /\ error' = TRUE
  /\ UNCHANGED <<apiVars, open, table, shown, result, sent, loading, overtaken,
                 flights, walk, loads, lost>>

\* the dashboard's timer asks again whatever is under way, and keeps its error
Refresh ==
  /\ open = "status"
  /\ Ask(Asked("none"))
  /\ UNCHANGED <<table, shown, result, error, walk>>

\* another page: its component starts anew, the old one's answers are lost
Navigate(v) ==
  /\ open # "exports" /\ open # v
  /\ loads < MaxLoads
  /\ open' = v
  /\ table' = NewTable /\ shown' = NoPage /\ walk' = NoWalk
  /\ result' = 0 /\ error' = FALSE /\ overtaken' = FALSE
  /\ LET asks == v \in {"table", "status"} \/ ViewOf[v].empty = "asks"
         ask  == IF v = "table" THEN AskOf(NewTable) ELSE Asked("none")
     IN  IF asks
         THEN /\ sent' = loads + 1 /\ loading' = TRUE
              /\ flights' = {[id |-> loads + 1, ask |-> ask, reply |-> NoReply]}
         ELSE sent' = 0 /\ loading' = FALSE /\ flights' = {}
  /\ loads' = loads + 1
  /\ UNCHANGED <<apiVars, lost>>

-----------------------------------------------------------------------------
(* Answers. *)

RouteOf(v) == CASE v = "table" -> "events" [] v = "status" -> "status"
                [] OTHER -> ViewOf[v].route

Reply(f) ==
  LET route   == RouteOf(open)
      defects == IF open # "table" /\ f.ask.input = "bad" THEN ToSet(Checks[route]) ELSE {}
  IN  IF Answer(route, defects) # 200 THEN Failed
      ELSE IF open = "table" THEN EventsPage(f.ask.input, f.ask.offset, f.ask.focus)
      ELSE [st |-> "ok"]

Answered(f, reply) ==
  /\ flights' = (flights \ {f}) \cup {[f EXCEPT !.reply = reply]}
  /\ UNCHANGED <<apiVars, open, table, shown, result, sent, error, loading,
                 overtaken, walk, loads>>

ServerAnswers(f) ==
  /\ thread = 0 /\ f.reply = NoReply
  /\ Answered(f, Reply(f))
  /\ UNCHANGED lost

NetworkFails(f) ==
  /\ lost < MaxLost /\ f.reply # Failed
  /\ Answered(f, Failed)
  /\ lost' = lost + 1

\* the rest of load(), run() or refresh(), after its await
Delivered(f) ==
  LET ok == f.reply.st = "ok" IN
  /\ f.reply # NoReply
  /\ flights' = flights \ {f}
  /\ loading' = FALSE
  /\ overtaken' = IF f.id = sent THEN FALSE
                  ELSE overtaken \/ ~\E g \in flights : g.id = sent
  /\ error' = IF ok THEN error /\ open # "status" ELSE TRUE
  /\ result' = IF ok THEN f.id ELSE result
  /\ IF open = "table"
     THEN /\ table' = IF ok THEN Adopt(table, f.reply) ELSE [table EXCEPT !.pending = FALSE]
          /\ shown' = IF ok THEN [f.reply EXCEPT !.log = {}] ELSE shown
          /\ walk'  = IF ok THEN Walked(f) ELSE NoWalk
     ELSE UNCHANGED <<table, shown, walk>>
  /\ UNCHANGED <<apiVars, open, sent, loads, lost>>

-----------------------------------------------------------------------------

\* the table is opened, perhaps by a link that focuses a row; or clients export
UiInit ==
  /\ ApiInit
  /\ open \in {"table", "exports"}
  /\ \E s \in Focuses \cup {0} :
       LET t == [NewTable EXCEPT !.focus = s, !.pending = s # 0]
           first == open = "table"
       IN  /\ first \/ s = 0
           /\ table = t
           /\ flights = IF first THEN {[id |-> 1, ask |-> AskOf(t), reply |-> NoReply]} ELSE {}
           /\ sent = IF first THEN 1 ELSE 0
           /\ loads = IF first THEN 1 ELSE 0
           /\ loading = first
  /\ shown = NoPage /\ result = 0 /\ error = FALSE
  /\ overtaken = FALSE /\ walk = NoWalk /\ lost = 0

Serve ==
  \/ LogMoves
  \/ open = "exports" /\ Anchor
  \/ open = "exports" /\ \E e \in Exports : Export(e) \/ Streaming(e) \/ Disconnect(e)

Browse ==
  \/ \E k \in ToSet(KindOf) \cup {"any"} : OnFilters(k)
  \/ \E s \in Focuses \cup {0} : FollowLink(s)
  \/ ClearFocus \/ PageBack \/ PageOn \/ LastPage
  \/ \E input \in Inputs \cup {"none", "bad"} : Run(input)
  \/ RunEmpty \/ Refresh
  \/ \E v \in Pages : Navigate(v)
  \/ \E f \in flights : ServerAnswers(f) \/ NetworkFails(f) \/ Delivered(f)

UiNext == (Serve /\ UNCHANGED clientVars) \/ Browse

UiSpec == UiInit /\ [][UiNext]_vars /\ ApiFairness

-----------------------------------------------------------------------------
(* Properties. *)

\* A page that neither loads nor shows an error shows the answer to the last
\* thing it asked, unless an older answer arrived later; and then the table's
\* rows are those at its offset under its filter (event-table.ts, "adopt it so
\* Prev/Next continue from that page").
ShownAnswersLast ==
  open # "exports" /\ flights = {} /\ ~error /\ ~overtaken =>
    /\ result \in {0, sent}
    /\ result = 0 => sent = 0
    /\ open = "table" => /\ shown.kind = table.kind
                         /\ shown.offset = table.offset
                         /\ shown.total = table.total

\* A link to a row that is still in the log is answered with the page the row is
\* on (event-table.ts, "the focused row is guaranteed to be on the page the
\* server lands on").
FocusLands ==
  \A f \in flights : open = "table" /\ f.reply.st = "ok" /\ f.ask.focus \in f.reply.log =>
    f.ask.focus \in ToSet(f.reply.page)

OfKind(k, S) == {x \in S : k \in {"any", KindOf[x]}}

\* Whoever walks the table with Next from the first page to the last has seen
\* every row of the filter that was there all along, although rows were added
\* and pruned meanwhile.
WalkComplete ==
  walk.on /\ flights = {} /\ ~HasNext =>
    OfKind(table.kind, walk.start \cap rows) \subseteq walk.seen

-----------------------------------------------------------------------------
(* The invariant behind these three. *)

\* The types that the answers and the table have, and one flight to a load.
TableSound ==
  /\ top \in 0 .. MaxSeq /\ rows \subseteq 1 .. top
  /\ loads \in Nat /\ sent \in 0 .. loads
  /\ DOMAIN table = DOMAIN NewTable /\ {table.offset, table.total} \subseteq Nat
  /\ DOMAIN walk = DOMAIN NoWalk
  /\ \A f \in flights : /\ DOMAIN f = {"id", "ask", "reply"}
                         /\ f.id \in 1 .. loads /\ f.ask.offset \in Nat
  /\ \A f, g \in flights : f.id = g.id => f = g

Full(reply) ==
  /\ Len(reply.page) \in 0 .. PageLen
  /\ Len(reply.page) < PageLen => reply.offset + Len(reply.page) >= reply.total

\* The last flight of the table asks under the filter the table shows, and the
\* rows of an answer are at the offset it tells, all of them when they are few.
AsksAsShown ==
  /\ table.pending => table.kind = "any"
  /\ \A f \in flights : open = "table" =>
       /\ f.id = sent => /\ f.ask.input = table.kind
                         /\ f.ask.focus # 0 => table.kind = "any"
       /\ f.reply.st = "ok" =>
            /\ DOMAIN f.reply = DOMAIN NoPage /\ {f.reply.offset, f.reply.total} \subseteq Nat
            /\ f.reply.kind = IF f.ask.focus = 0 THEN f.ask.input ELSE "any"
            /\ f.ask.focus = 0 => f.reply.offset = f.ask.offset
            /\ f.reply.log \subseteq 1 .. top
            /\ Full(f.reply)

\* Once the last load has been answered, its answer is shown.
LastShown ==
  /\ sent = 0 => result = 0 /\ flights = {} /\ open # "table"
  /\ sent # 0 /\ ~error /\ ~overtaken /\ (\A f \in flights : f.id # sent) =>
       /\ result = sent
       /\ open = "table" => /\ shown.kind = table.kind
                            /\ shown.offset = table.offset
                            /\ shown.total = table.total

\* the rows of the filter before x
Newer(k, x) == Cardinality({y \in OfKind(k, rows) : y > x})
Unseen      == OfKind(table.kind, walk.start) \ walk.seen

\* Of a set of rows those that are left lie beyond a page of an answer: there are
\* none when the answer tells of no page after it.
Beyond(S, k, reply) ==
  /\ \A x \in S \cap rows : Newer(k, x) >= reply.offset + Len(reply.page)
  /\ reply.offset + Len(reply.page) >= reply.total => S \cap rows = {}

\* So does what a walk has not seen lie beyond the page the table shows, and what
\* it will not have seen beyond the page on its way.
WalkSound ==
  /\ \A f \in flights : open = "table" /\ f.reply.st = "ok" /\ f.ask.focus = 0 /\ f.ask.offset = 0 =>
       Beyond(OfKind(f.ask.input, f.reply.log) \ ToSet(f.reply.page), f.ask.input, f.reply)
  /\ walk.on =>
       /\ open = "table" /\ ~table.pending /\ walk.start \subseteq 1 .. top
       /\ flights = {} => /\ DOMAIN shown = DOMAIN NoPage
                          /\ shown.offset = table.offset /\ shown.total = table.total
                          /\ Full(shown) /\ Beyond(Unseen, table.kind, shown)
       /\ \A f \in flights :
            /\ flights = {f} /\ f.id = sent /\ f.ask.focus = 0
            /\ f.reply = NoReply => \A x \in Unseen \cap rows : Newer(table.kind, x) >= f.ask.offset
            /\ f.reply.st = "ok" => Beyond(Unseen \ ToSet(f.reply.page), table.kind, f.reply)

UiInv == TableSound /\ AsksAsShown /\ LastShown /\ WalkSound /\ FocusLands
=============================================================================
