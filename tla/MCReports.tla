------------------------------ MODULE MCReports ------------------------------
(* Reports for TLC: two runs of one cron job in one session, about midnight *)
(* after the Sunday (29 March 2026) that has 23 hours in the local zone.    *)
EXTENDS Reports

Sunday == 20541

MCOffset   == [d \in Sunday - 420 .. Sunday + 40 |-> IF d <= Sunday THEN 1 ELSE 2]
MCInstants == {Midnight(Sunday + 1, "local") + h : h \in {-1, 0, 1, 2}}

MCRuns    == {"r1", "r2"}
MCJob     == [r \in MCRuns |-> "j"]
MCRunId   == [r1 |-> "id1", r2 |-> None]
MCContext == [r1 |-> [id |-> "s", key |-> "k", conversation |-> "s"],
              r2 |-> [id |-> "s", key |-> "k", conversation |-> "c"]]

Short == <<"hi", "", "">>
Long  == <<"so", "long", "winded">>
MCBodies == {Short, Long}
MCDigest == [b \in MCBodies |-> IF b = Short THEN "#1" ELSE "#2"]

MCUses == {{"run", "tool", "crash"},
           {"run", "llm", "usage"},
           {"run", "sent"},
           {"run", "sending", "sent", "redact"},
           {"run", "denied"},
           {"run", "tool", "scan", "done", "error"},
           {"install"},
           {"gateway.start", "prompt.build"},
           {"message.received"},
           {"agent.reset", "agent.subagent_spawned"}}

ASSUME WeeksNumbered
==============================================================================
