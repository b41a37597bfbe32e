-------------------------------- MODULE Hooks --------------------------------
(***************************************************************************)
(* The hooks openclaw calls, and the rows they append to the audit log.    *)
(* The limiter is below its threshold, so an append is a row at once       *)
(* (module RateLimiter has the rest); the clock does not go back.          *)
(*                                                                         *)
(* Of a row's metadata the model keeps what a report reads.  A body is the *)
(* part of a text that a preview shows, what is stored beyond it, and what *)
(* lies beyond the cap on a row.                                           *)
(***************************************************************************)
EXTENDS Integers, Sequences

CONSTANTS
  Runs,           (* agent runs                                              *)
  Job,            (* the jobId of a run, None for one that no cron started   *)
  RunId,          (* the runId openclaw gives of a run, None if it gives none *)
  Context,        (* the session of a run: [id, key, conversation]           *)
  Tools, Models, Peers, Bodies,
  Digest,         (* hashDocument of a body                                  *)
  Uses,           (* bound: the hooks and options of one behaviour           *)
  Instants,       (* bound: the moments at which hooks are called            *)
  MaxRows         (* bound: rows                                             *)

None   == "none"
NoBody == <<"", "", "">>

(* A runId is a UUID: no two runs have the same. *)
ASSUME HooksAssumption ==
  /\ Instants \subseteq Int /\ Instants # {}
  /\ MaxRows \in Nat
  /\ None \notin Runs
  /\ \A r, s \in Runs : RunId[r] = RunId[s] /\ RunId[r] # None => r = s
  /\ NoBody \notin Bodies /\ \A b \in Bodies : b = <<b[1], b[2], b[3]>>
  /\ \A b, c \in Bodies : Digest[b] = Digest[c] => b = c

VARIABLES
  log,            (* audit_events, in the order of their sequence            *)
  now,
  runs,           (* history: what became of each run, and what it did       *)
  uses            (* the hooks of this behaviour, and the options it has     *)

hookVars == <<log, now, runs, uses>>

(* Hooks whose row no report looks into: its type, its category, and which  *)
(* identifier of the context becomes its session.                           *)
Plain(type, category, session) == [type |-> type, category |-> category, session |-> session]

PromptHooks ==
  [before_prompt_build |-> Plain("prompt.build", "prompt", "id"),
   llm_input           |-> Plain("prompt.input", "prompt", "id"),
   tool_result_persist |-> Plain("tool.persisted", "tool", "key")]

MessageHooks ==
  [message_received     |-> Plain("message.received", "message", "conversation"),
   inbound_claim        |-> Plain("message.claimed", "message", "conversation"),
   before_dispatch      |-> Plain("message.dispatched", "message", "conversation"),
   before_message_write |-> Plain("message.write", "message", "key")]

SessionHooks ==
  [before_compaction |-> Plain("agent.compaction_start", "agent", "id"),
   after_compaction  |-> Plain("agent.compaction_end", "agent", "id"),
   before_reset      |-> Plain("agent.reset", "agent", "id"),
   session_start     |-> Plain("session.start", "system", "id"),
   session_end       |-> Plain("session.end", "system", "id")]

(* Of a subagent: the session of the one that asked for it. *)
SubagentHooks ==
  [subagent_spawning        |-> Plain("agent.subagent_spawning", "agent", "key"),
   subagent_spawned         |-> Plain("agent.subagent_spawned", "agent", "key"),
   subagent_delivery_target |-> Plain("agent.subagent_delivery", "agent", "key"),
   subagent_ended           |-> Plain("agent.subagent_ended", "agent", "key")]

GatewayHooks == [gateway_start |-> Plain("gateway.start", "gateway", None)]

Fresh == [phase |-> "new", tools |-> 0, llm |-> 0, sent |-> 0]

Going(r) == runs[r].phase = "going"

(***************************************************************************)
(* safeAppend: the caps and the redaction, then the limiter.               *)
(***************************************************************************)
Insert(type, category, session) ==
  [type |-> type, category |-> category, session |-> session, at |-> now,
   by |-> None,   \* history: the run that made the call, if it was at work
   run |-> None, job |-> None, ok |-> FALSE, tool |-> None, error |-> FALSE,
   model |-> None, cost |-> 0, peer |-> None, scan |-> None, body |-> NoBody]

Redacted(row) ==
  IF "redact" \in uses /\ row.body # NoBody /\ row.category \in {"prompt", "message"}
    THEN [row EXCEPT !.body = <<Digest[row.body], "", "">>]
    ELSE row

ApplyFieldCaps(row) ==
  IF row.body[3] = "" THEN row ELSE [row EXCEPT !.body[3] = "[truncated]"]

(* Each of a hook's rows. *)
SafeAppend(inserts) ==
  /\ Len(log) + Len(inserts) <= MaxRows
  /\ log' = log \o [i \in 1..Len(inserts) |-> ApplyFieldCaps(Redacted(inserts[i]))]

Once(insert) == <<insert>>
If(condition, insert) == IF condition THEN <<insert>> ELSE <<>>

(***************************************************************************)
(* The hooks reports look into.                                            *)
(***************************************************************************)
BeforeModelResolve(r) ==
  /\ "run" \in uses /\ runs[r].phase = "new"
  /\ runs' = [runs EXCEPT ![r].phase = "going"]
  /\ LET cron == [Insert("cron.executed", "cron", Context[r].id) EXCEPT !.run = RunId[r], !.job = Job[r], !.by = r]
     IN  SafeAppend(Once(Insert("prompt.model_resolve", "prompt", Context[r].id))
                       \o If(Job[r] # None, cron))
  /\ UNCHANGED <<now, uses>>

AgentEnd(r, success) ==
  /\ "run" \in uses /\ Going(r)
  /\ runs' = [runs EXCEPT ![r].phase = IF success THEN "ok" ELSE "failed"]
  /\ LET ids(row) == [row EXCEPT !.run = RunId[r], !.job = Job[r]]
         end    == [ids(Insert("agent.end", "agent", Context[r].id)) EXCEPT !.ok = success]
         failed == ids(Insert("cron.failed", "cron", Context[r].id))
     IN  SafeAppend(Once(end) \o If(Job[r] # None /\ ~success, failed))
  /\ UNCHANGED <<now, uses>>

(* The arguments are scanned too, and a finding has a row of its own. *)
BeforeToolCall(r, tool, risky) ==
  /\ "tool" \in uses /\ Going(r)
  /\ runs' = [runs EXCEPT ![r].tools = @ + 1]
  /\ SafeAppend(Once([Insert("tool.invoked", "tool", Context[r].id) EXCEPT !.tool = tool, !.by = r])
                   \o If("scan" \in uses /\ risky,
                         [Insert("security.scan_result", "security", Context[r].id) EXCEPT !.tool = tool]))
  /\ UNCHANGED <<now, uses>>

(* What the engine refused comes back as an error with a known beginning. *)
AfterToolCall(r, tool, outcome) ==
  /\ outcome \in uses /\ Going(r)
  /\ SafeAppend(Once([Insert(IF outcome = "denied" THEN "tool.denied" ELSE "tool.result", "tool", Context[r].id)
                           EXCEPT !.tool = tool, !.error = outcome = "error"]))
  /\ UNCHANGED <<now, runs, uses>>

LlmOutput(r, model, body) ==
  /\ "llm" \in uses /\ Going(r)
  /\ runs' = [runs EXCEPT ![r].llm = @ + 1]
  /\ SafeAppend(Once([Insert("prompt.response", "prompt", Context[r].id)
                           EXCEPT !.model = model, !.body = body, !.by = r]))
  /\ UNCHANGED <<now, uses>>

(* The diagnostic event of the same call has its cost, and no session. *)
ModelUsage(r, model) ==
  /\ "usage" \in uses /\ Going(r)
  /\ SafeAppend(Once([Insert("prompt.response", "prompt", None) EXCEPT !.model = model, !.cost = 1]))
  /\ UNCHANGED <<now, runs, uses>>

(* A delivery may come after the run has ended. *)
MessageSending(r, peer, body) ==
  /\ "sending" \in uses /\ runs[r].phase # "new"
  /\ SafeAppend(Once([Insert("message.sending", "message", Context[r].conversation)
                           EXCEPT !.peer = peer, !.body = body]))
  /\ UNCHANGED <<now, runs, uses>>

MessageSent(r, peer, body) ==
  /\ "sent" \in uses /\ runs[r].phase # "new"
  /\ runs' = IF Going(r) THEN [runs EXCEPT ![r].sent = @ + 1] ELSE runs
  /\ SafeAppend(Once([Insert("message.sent", "message", Context[r].conversation)
                        EXCEPT !.peer = peer, !.body = body, !.by = IF Going(r) THEN r ELSE None]))
  /\ UNCHANGED <<now, uses>>

BeforeInstall(scan) ==
  /\ "install" \in uses
  /\ SafeAppend(Once([Insert("system.install", "system", None) EXCEPT !.scan = scan]))
  /\ UNCHANGED <<now, runs, uses>>

PlainHook(r, plain) ==
  /\ plain.type \in uses
  /\ SafeAppend(Once(Insert(plain.type, plain.category,
                                IF plain.session = None THEN None ELSE Context[r][plain.session])))
  /\ UNCHANGED <<now, runs, uses>>

(***************************************************************************)
(* The host goes down, and comes up again without the runs it had.         *)
(***************************************************************************)
GatewayCrash ==
  /\ "crash" \in uses /\ \E r \in Runs : Going(r)
  /\ runs' = [r \in Runs |-> IF Going(r) THEN [runs[r] EXCEPT !.phase = "lost"] ELSE runs[r]]
  /\ UNCHANGED <<log, now, uses>>

Tick ==
  /\ \E t \in Instants : t > now /\ now' = t /\ \A u \in Instants : u > now => t <= u
  /\ UNCHANGED <<log, runs, uses>>

HooksInit ==
  /\ log = <<>> /\ now \in Instants /\ \A t \in Instants : now <= t
  /\ runs = [r \in Runs |-> Fresh]
  /\ uses \in Uses

HooksNext ==
  \/ \E r \in Runs : BeforeModelResolve(r)
  \/ \E r \in Runs, success \in BOOLEAN : AgentEnd(r, success)
  \/ \E r \in Runs, tool \in Tools, risky \in BOOLEAN : BeforeToolCall(r, tool, risky)
  \/ \E r \in Runs, tool \in Tools, outcome \in {"denied", "done", "error"} : AfterToolCall(r, tool, outcome)
  \/ \E r \in Runs, model \in Models, body \in Bodies \cup {NoBody} : LlmOutput(r, model, body)
  \/ \E r \in Runs, model \in Models : ModelUsage(r, model)
  \/ \E r \in Runs, peer \in Peers, body \in Bodies : MessageSending(r, peer, body)
  \/ \E r \in Runs, peer \in Peers, body \in Bodies : MessageSent(r, peer, body)
  \/ \E scan \in {"ok", "failed", None} : BeforeInstall(scan)
  \/ \E r \in Runs, hook \in DOMAIN PromptHooks : PlainHook(r, PromptHooks[hook])
  \/ \E r \in Runs, hook \in DOMAIN MessageHooks : PlainHook(r, MessageHooks[hook])
  \/ \E r \in Runs, hook \in DOMAIN SessionHooks : PlainHook(r, SessionHooks[hook])
  \/ \E r \in Runs, hook \in DOMAIN SubagentHooks : PlainHook(r, SubagentHooks[hook])
  \/ \E r \in Runs, hook \in DOMAIN GatewayHooks : PlainHook(r, GatewayHooks[hook])
  \/ GatewayCrash
  \/ Tick

HooksSpec == HooksInit /\ [][HooksNext]_hookVars
=============================================================================
