------------------------------- MODULE Reports -------------------------------
(***************************************************************************)
(* The reports, as functions of the log: the daily and weekly projection,  *)
(* LLM spend, the anomaly detectors, the rollup of a cron job, and the     *)
(* timeline of a session.  Nothing is kept between two reports, so what    *)
(* can go wrong is what they say of a log that the hooks (module Hooks)    *)
(* have written, over windows that begin and end anywhere (TimeWindow).    *)
(***************************************************************************)
EXTENDS Hooks, TimeWindow, FiniteSets, FiniteSetsExt

CONSTANTS
  DupWindow,        (* duplicateOutboundWindowSec                            *)
  DenialWindow, DenialThreshold,
  Lookback,         (* firstSeenLookbackDays                                 *)
  FetchCap,         (* DUP_FETCH_CAP                                         *)
  CronLast,         (* executions a cron rollup has                          *)
  SessionLimit,     (* rows a session report has                             *)
  SpendLimit        (* buckets a spend rollup has                            *)

(* The offset is known of every day a report of these moments looks at. *)
ASSUME ReportsAssumption ==
  /\ DupWindow \in Nat \ {0} /\ DenialWindow \in Nat \ {0} /\ DenialThreshold \in Nat \ {0}
  /\ Lookback \in Nat /\ FetchCap \in Nat
  /\ CronLast \in Nat /\ SessionLimit \in Nat /\ SpendLimit \in Nat
  /\ \A t \in Instants :
       t >= 168 /\ t \div 24 - 400 - Lookback .. t \div 24 + 30 \subseteq DOMAIN Offset

(***************************************************************************)
(* AuditStore: what is counted.                                            *)
(***************************************************************************)

(* Mutant: a window that holds both its ends. *)
HoldsBothEnds(w, t) == w.from <= t /\ t <= w.to

Holds(w, t) == w.from <= t /\ t < w.to

InWindow(w) == {i \in DOMAIN log : Holds(w, log[i].at)}

OfType(w, type) == {i \in InWindow(w) : log[i].type = type}

(* GROUP BY: how many rows have each key. *)
CountBy(rows, Key(_)) ==
  [k \in {Key(i) : i \in rows} |-> Cardinality({i \in rows : Key(i) = k})]

Total(counts) == MapThenSumSet(LAMBDA k : counts[k], DOMAIN counts)

Cost(rows) == MapThenSumSet(LAMBDA i : log[i].cost, rows)

ActivityByCategory(w) == CountBy(InWindow(w), LAMBDA i : log[i].category)

CronByEventType(w) ==
  CountBy({i \in InWindow(w) : log[i].category = "cron"}, LAMBDA i : log[i].type)

ToolInvocations(w) ==
  CountBy({i \in OfType(w, "tool.invoked") : log[i].tool # None}, LAMBDA i : log[i].tool)

DistinctToolNames(w) == {log[i].tool : i \in OfType(w, "tool.invoked")} \ {None}

(* A model stands for itself and its provider. *)
LlmUsage(w) == CountBy(OfType(w, "prompt.response"), LAMBDA i : log[i].model)

MessagesByChannel(w) == CountBy(OfType(w, "message.sent"), LAMBDA i : log[i].peer)

(* A call without a session is in a bucket too; days are days of UTC. *)
SpendBucket(i, groupBy) ==
  CASE groupBy = "model"   -> log[i].model
    [] groupBy = "session" -> log[i].session
    [] groupBy = "day"     -> DayOf(log[i].at, "utc")

(***************************************************************************)
(* The spend rollup: the costliest buckets, and the totals of those.       *)
(***************************************************************************)
SpendRollup(w, groupBy) ==
  LET calls   == OfType(w, "prompt.response")
      in(b)   == {i \in calls : SpendBucket(i, groupBy) = b}
      buckets == {SpendBucket(i, groupBy) : i \in calls}
      shown   == IF Cardinality(buckets) <= SpendLimit THEN buckets
                 ELSE CHOOSE top \in SUBSET buckets :
                        /\ Cardinality(top) = SpendLimit
                        /\ \A b \in top, c \in buckets \ top : Cost(in(b)) >= Cost(in(c))
  IN  [truncated |-> Cardinality(buckets) > SpendLimit,
       calls     |-> Cardinality(UNION {in(b) : b \in shown}),
       cost      |-> Cost(UNION {in(b) : b \in shown})]

(***************************************************************************)
(* Detectors.                                                              *)
(***************************************************************************)

(* Mutant: only the gap to the event before is looked at. *)
ExtendsByGap(first, before, i, span) == log[i].at - log[before].at <= span

Extends(first, before, i, span) ==
  /\ log[i].at - log[before].at <= span
  /\ log[i].at - log[first].at <= span

(* The walk detectors and timeline make over rows in order: a row joins the *)
(* group that is open, or closes it and opens the next.  A group has a name *)
(* in the row that opened it; joins has the triples of that one, the row    *)
(* before, and a row that may join.                                         *)
Opener(rows, joins) ==
  LET opener[i \in rows] ==
        LET earlier == {j \in rows : j < i}
        IN  IF earlier # {} /\ <<opener[Max(earlier)], Max(earlier), i>> \in joins
              THEN opener[Max(earlier)]
              ELSE i
  IN  opener

Groups(rows, joins) ==
  LET opener == Opener(rows, joins)
  IN  {{i \in rows : opener[i] = first} : first \in {opener[i] : i \in rows}}

Clusters(rows, span) ==
  Groups(rows, {x \in rows \X rows \X rows : Extends(x[1], x[2], x[3], span)})

Fetched(rows) == {i \in rows : Cardinality({j \in rows : j < i}) < FetchCap}

DuplicateOutbound(rows) ==
  LET key(i) == <<log[i].peer, log[i].body>>
  IN  {c \in UNION {Clusters({i \in rows : key(i) = k}, DupWindow) : k \in {key(i) : i \in rows}} :
         Cardinality(c) >= 2}

DenialSpikes(rows) ==
  {c \in Clusters({i \in rows : log[i].type = "tool.denied"}, DenialWindow) : Cardinality(c) >= DenialThreshold}

(* The flag is for what the scan found, or did not finish. *)
InstallEvents(rows) ==
  {[row |-> i, elevated |-> log[i].scan \notin {"ok", None}] :
     i \in {j \in rows : log[j].type = "system.install"}}

(* Called in the window, and not on the days before it. *)
FirstSeenTools(w) ==
  LET anchor == FloorToTzDay(w.from, w.tz)
      prior  == Window("since", SubtractCalendarDays(anchor, Lookback, w.tz), w.from, w.tz)
  IN  {t \in DOMAIN ToolInvocations(w) : t \notin DistinctToolNames(prior)}

(* buildProjection.  Its footer, the last row of the log, is left out. *)
Projection(w) ==
  LET messages == Fetched(OfType(w, "message.sent"))
  IN  [byCategory |-> ActivityByCategory(w),
       cron       |-> CronByEventType(w),
       tools      |-> ToolInvocations(w),
       llm        |-> LlmUsage(w),
       cost       |-> Cost(OfType(w, "prompt.response")),
       outbound   |-> MessagesByChannel(w),
       duplicates |-> DuplicateOutbound(messages),
       truncated  |-> Cardinality(messages) >= FetchCap,
       firstSeen  |-> FirstSeenTools(w)]

(* buildAnomalyView.  What it says of the tree is in SmtService. *)
AnomalyView(w) ==
  LET rows == Fetched(InWindow(w))
  IN  [duplicates |-> DuplicateOutbound({i \in rows : log[i].type = "message.sent"}),
       firstSeen  |-> FirstSeenTools(w),
       denials    |-> DenialSpikes(rows),
       installs   |-> InstallEvents(rows),
       capped     |-> Cardinality(rows) >= FetchCap]

(***************************************************************************)
(* The rollup of a cron job.                                               *)
(***************************************************************************)

(* Mutant: the next run of the session to end is taken for this one. *)
AgentEndsOfSession(c) ==
  {i \in DOMAIN log : /\ i > c /\ log[i].type = "agent.end"
                      /\ log[i].session = log[c].session}

(* A run without an id, or a session, has no end that could be told: null  *)
(* equals nothing.                                                          *)
AgentEnds(c) ==
  {i \in DOMAIN log : /\ i > c /\ log[i].type = "agent.end"
                      /\ log[c].session # None /\ log[i].session = log[c].session
                      /\ log[c].run # None /\ log[i].run = log[c].run}

(* What the session did from the start to the end, both included. *)
CountDuring(c, e, type) ==
  Cardinality({i \in DOMAIN log : /\ log[i].type = type /\ log[i].session = log[c].session
                                  /\ log[c].at <= log[i].at /\ log[i].at <= log[e].at})

(* Nothing is counted for a run that has not ended. *)
CronRow(c) ==
  IF AgentEnds(c) = {}
    THEN [execution |-> c, status |-> "incomplete", tools |-> 0, llm |-> 0, sent |-> 0]
    ELSE LET e == Min(AgentEnds(c))
         IN  [execution |-> c,
              status    |-> IF log[e].ok = TRUE THEN "ok" ELSE "failed",
              tools     |-> CountDuring(c, e, "tool.invoked"),
              llm       |-> CountDuring(c, e, "prompt.response"),
              sent      |-> CountDuring(c, e, "message.sent")]

Executions(job) == {i \in DOMAIN log : log[i].type = "cron.executed" /\ log[i].job = job}

(* The newest of them. *)
CronRollup(job) ==
  LET shown == {c \in Executions(job) : Cardinality({d \in Executions(job) : d > c}) < CronLast}
  IN  [rows |-> {CronRow(c) : c \in shown}, truncated |-> Cardinality(Executions(job)) > CronLast]

(***************************************************************************)
(* The report on a session.                                                *)
(***************************************************************************)
RowsOf(s) == {i \in DOMAIN log : log[i].session = s}

(* The last rows of the session. *)
SessionRows(s) == {i \in RowsOf(s) : Cardinality({j \in RowsOf(s) : j > i}) < SessionLimit}

DedupTypes == {"prompt.response", "message.sending", "message.sent"}

(* Mutant: rows of these types follow each other, so they are one exchange. *)
CanCollapseByType(first, i) ==
  {log[i].type, log[first].type} \subseteq DedupTypes /\ log[i].body # NoBody

CanCollapse(first, i) ==
  /\ {log[i].type, log[first].type} \subseteq DedupTypes
  /\ log[i].body = log[first].body /\ log[i].body # NoBody

(* An entry is the rows it stands for. *)
Timeline(s) ==
  LET rows == SessionRows(s)
  IN  Groups(rows, {x \in rows \X rows \X rows : CanCollapse(x[1], x[3])})

ToolsUsed(s) ==
  LET rows == {i \in SessionRows(s) : log[i].category = "tool"}
      of(t) == {i \in rows : log[i].tool = t}
  IN  [t \in {log[i].tool : i \in rows} |->
        [calls  |-> Cardinality({i \in of(t) : log[i].type = "tool.invoked"}),
         errors |-> Cardinality({i \in of(t) : log[i].type = "tool.result" /\ log[i].error})]]

SessionLlm(s) ==
  CountBy({i \in SessionRows(s) : log[i].type = "prompt.response"}, LAMBDA i : log[i].model)

(* The sends of each body, whose hash is the one of the whole. *)
OutboundMessages(s) ==
  LET sent == {i \in SessionRows(s) : log[i].type = "message.sent"}
  IN  {{i \in sent : log[i].body = b} : b \in {log[i].body : i \in sent}}

(* From the rows shown, or else from the first execution there is. *)
SessionJob(s) ==
  LET shown == {i \in SessionRows(s) : log[i].job # None}
      first == {i \in RowsOf(s) : log[i].type = "cron.executed"}
  IN  IF shown # {} THEN log[Min(shown)].job
      ELSE IF first # {} THEN log[Min(first)].job ELSE None

(* The row as the query gives it to the proof: its body cut to a preview.   *)
(* The tree has the hash of the row as it was appended, and every row.      *)
Preview(i) == [log[i] EXCEPT !.body = <<log[i].body[1], "", "">>]

ProofsVerified(s) == {i \in SessionRows(s) : log[i] = Preview(i)}

SessionReport(s) ==
  [timeline  |-> Timeline(s),
   tools     |-> ToolsUsed(s),
   llm       |-> SessionLlm(s),
   outbound  |-> OutboundMessages(s),
   job       |-> SessionJob(s),
   verified  |-> ProofsVerified(s),
   truncated |-> Cardinality(RowsOf(s)) > Cardinality(SessionRows(s))]

(***************************************************************************)
(* Properties.                                                             *)
(***************************************************************************)
DailyWindows  == {Today(t, tz) : t \in Instants, tz \in Zones}
WeeklyWindows == {ThisWeek(t, tz) : t \in Instants, tz \in Zones}
Windows       == DailyWindows \cup WeeklyWindows

SinceWindows ==
  {ParseSince(s[1], s[2], now, "local") : s \in {r \in {1, 3} \X {0, 1} : ValidSince(r[1], r[2])}}

(* What a report says of a time that is over, it says for ever: a daily or  *)
(* weekly report made once its window has ended, its findings, and the row  *)
(* of a cron run that ended before this moment.                             *)
ReportFinal ==
  [][/\ \A w \in Windows :
          w.to <= now /\ log' # log => Projection(w)' = Projection(w) /\ AnomalyView(w)' = AnomalyView(w)
     /\ \A c \in {i \in DOMAIN log : log[i].type = "cron.executed"} :
          AgentEnds(c) # {} /\ log[Min(AgentEnds(c))].at < now => CronRow(c)' = CronRow(c)]_hookVars

(* The week of a Thursday has the number it should: the clocks of January  *)
(* 1st are not ahead of those of that Thursday, or they are and the year    *)
(* does not begin with a Friday.  Otherwise isoWeek is one too high.        *)
Numbered(thursday, start) ==
  LET later == Offset[thursday] - Offset[start]
  IN  \/ later \in 0 .. 23
      \/ later \in -23 .. -1 /\ (thursday - start) % 7 # 6

WeeksNumbered ==
  \A t \in Instants :
    LET thursday == Thursday(t, "local")
    IN  Numbered(thursday, YearStart(YearOf(thursday)))

(* Each row of a weekly report is in the report of exactly one of its seven *)
(* days, across a change of the clocks too; spend comes to the same total   *)
(* however it is grouped; and the day and the week of now, which a report   *)
(* is made over by default, exist and hold now.                             *)
TotalsAgree ==
  /\ \A w \in WeeklyWindows :
       LET monday == DayOf(w.from, w.tz)
       IN  \A i \in DOMAIN log :
             Cardinality({k \in 0..6 : Holds(ParseDate(monday + k, w.tz), log[i].at)})
               = IF Holds(w, log[i].at) THEN 1 ELSE 0
  /\ \A w \in Windows, groupBy \in {"model", "session", "day"} :
       LET spend == SpendRollup(w, groupBy)
       IN  ~spend.truncated => /\ spend.calls = Total(LlmUsage(w))
                               /\ spend.cost = Cost(OfType(w, "prompt.response"))
  /\ \A tz \in Zones :
       /\ ValidWeek(IsoWeekYear(now, tz), IsoWeek(now, tz), tz)
       /\ \A w \in {Today(now, tz), ThisWeek(now, tz)} : w.from <= now /\ now < w.to

(* A finding tells the truth: one body to one peer, or denials, all within  *)
(* the detector's window, and no event in two findings.  And what comes in  *)
(* a burst is noticed: of two equal sends in the window at least one is in  *)
(* a finding, and where one event less than twice the threshold fall in     *)
(* the window there is a spike.                                             *)
Within(rows, span) == \A i, j \in rows : log[j].at - log[i].at <= span

Disjoint(findings) ==
  \A c, d \in findings : c # d => c \cap d = {}

BurstsNoticed ==
  \A w \in Windows \cup SinceWindows :
    LET found == AnomalyView(w)
    IN  ~found.capped =>
          /\ Disjoint(found.duplicates) /\ Disjoint(found.denials)
          /\ \A c \in found.duplicates :
               /\ Within(c, DupWindow)
               /\ \A i, j \in c : log[i].peer = log[j].peer /\ log[i].body = log[j].body
          /\ \A c \in found.denials : Within(c, DenialWindow)
          /\ \A i, j \in OfType(w, "message.sent") :
               i < j /\ Within({i, j}, DupWindow) /\ log[i].peer = log[j].peer /\ log[i].body = log[j].body
                 => \E c \in found.duplicates : {i, j} \cap c # {}
          /\ \A burst \in SUBSET OfType(w, "tool.denied") :
               Cardinality(burst) = 2 * DenialThreshold - 1 /\ Within(burst, DenialWindow)
                 => \E c \in found.denials : c \cap burst # {}

(* A row of a cron rollup is true of its run: it has ended, and well or     *)
(* badly, exactly if the row says so; and what it counts is what the run    *)
(* did, unless something else went on in its session before the moment of   *)
(* its end was over.                                                        *)
Outcome(r) ==
  IF RunId[r] # None /\ Context[r].id # None /\ runs[r].phase \in {"ok", "failed"}
    THEN runs[r].phase ELSE "incomplete"

Alone(c, r) ==
  \A i \in DOMAIN log :
    /\ log[i].type \in {"tool.invoked", "prompt.response", "message.sent"}
    /\ log[i].session = log[c].session
    /\ log[c].at <= log[i].at /\ (\E e \in AgentEnds(c) : log[i].at <= log[e].at)
    => log[i].by = r

CronRowsTrue ==
  \A job \in {Job[r] : r \in Runs} \ {None} : \A row \in CronRollup(job).rows :
    LET r == log[row.execution].by
    IN  /\ row.status = Outcome(r)
        /\ row.status # "incomplete" /\ Alone(row.execution, r) =>
             /\ row.tools = runs[r].tools /\ row.llm = runs[r].llm
             /\ Context[r].conversation = Context[r].id => row.sent = runs[r].sent

(* The report on a session leaves nothing out and adds nothing: its entries *)
(* are the session's last rows, each once and in order; those folded into   *)
(* one entry have its body; each send is under its body; rows are missing   *)
(* only if it says so; a session that a cron began has its job, however few *)
(* rows are shown; and a row whose body fits the preview is proved.         *)
SessionFaithful ==
  \A s \in {Context[r].id : r \in Runs} \cup {Context[r].conversation : r \in Runs} :
    LET report == SessionReport(s)
        sent   == {i \in SessionRows(s) : log[i].type = "message.sent"}
    IN  /\ UNION report.timeline = SessionRows(s)
        /\ \A c, d \in report.timeline :
             c # d => (\A i \in c, j \in d : i < j) \/ (\A i \in c, j \in d : j < i)
        /\ \A entry \in report.timeline : \A i, j \in entry : log[i].body = log[j].body
        /\ UNION report.outbound = sent
        /\ report.truncated = (RowsOf(s) # SessionRows(s))
        /\ report.job = None => \A i \in RowsOf(s) : log[i].job = None
        /\ \A i \in SessionRows(s) : log[i].body[2] = "" /\ log[i].body[3] = "" => i \in report.verified
=============================================================================
