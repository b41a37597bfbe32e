----------------------------- MODULE GatewayStop -----------------------------
(***************************************************************************)
(* The gateway.stop event on top of the limiter: GatewayStopCapture's hook *)
(* path goes through the limiter, its signal path writes to the store past *)
(* it, and tryClaim lets only the first of them act.  Retention's stop()   *)
(* takes the signal listeners away before it flushes and closes.           *)
(***************************************************************************)
EXTENDS RateLimiter

CONSTANTS
  StopType,     (* the event type gateway.stop     *)
  Signals       (* SIGTERM, SIGINT                 *)

ASSUME StopAssumption == StopType \in Types

VARIABLES
  claimed,      (* GatewayStopCapture.recorded     *)
  armed,        (* signals with a listener         *)
  direct        (* events written past the limiter *)

stopVars == <<claimed, armed, direct>>
allVars  == <<vars, stopVars>>

StopInit == Init /\ claimed = FALSE /\ armed = Signals /\ direct = {}

(* Mutant: the hook checks the claim without making it. *)
StopHookUnclaimed ==
  /\ ~claimed
  /\ AppendInsert(StopType)
  /\ UNCHANGED stopVars

(* The gateway_stop hook. *)
StopHook ==
  /\ ~claimed /\ claimed' = TRUE
  /\ AppendInsert(StopType)
  /\ UNCHANGED <<armed, direct>>

(* captureSignal: each listener runs once. *)
WriteDirectly(x) ==
  /\ Len(kinds) < MaxEvents
  /\ StoreAll(<<x>>)
  /\ kinds' = Append(kinds, x.type)
  /\ direct' = direct \cup (x.covers \ lost')
  /\ UNCHANGED <<buffer, windowEvents, stale, draining, process>>

CaptureSignal(sig) ==
  /\ process # "gone" /\ sig \in armed
  /\ armed' = armed \ {sig}
  /\ IF claimed THEN UNCHANGED <<vars, claimed, direct>>
                ELSE claimed' = TRUE /\ WriteDirectly(Raw(StopType))

(* detachSignalListeners, then the flush. *)
StopRetention == FlushAndClose /\ armed' = {} /\ UNCHANGED <<claimed, direct>>

Unrelated ==
  /\ (\E t \in Types \ {StopType} : AppendInsert(t)) \/ DrainBuffer \/ SecondPasses \/ ProcessEnds
  /\ UNCHANGED stopVars

StopNext == StopHook \/ (\E sig \in Signals : CaptureSignal(sig)) \/ StopRetention \/ Unrelated

StopSpec == StopInit /\ [][StopNext]_allVars

(* Timers fire while the process runs, and the clock advances. *)
FairStopSpec ==
  /\ StopSpec
  /\ WF_allVars(DrainBuffer /\ UNCHANGED stopVars)
  /\ WF_allVars(SecondPasses /\ UNCHANGED stopVars)

-----------------------------------------------------------------------------
(* Properties. *)

(* However hook, signals, flush and process end race, gateway.stop gets at  *)
(* most one row.                                                            *)
AtMostOneStop == Cardinality({i \in DOMAIN rows : rows[i].type = StopType}) <= 1

(* The way to the log is a stream that loses no event silently: every event *)
(* is pending, recorded or accounted lost, oldest first.                    *)
Stream == INSTANCE EventStream WITH
  arrived <- Len(kinds), pending <- Covered(buffer), recorded <- Covered(rows), lost <- lost,
  urgent <- direct
IsStream == Stream!Spec

(* The inductive invariant: of all events at most one is a gateway.stop,    *)
(* and none before the claim.                                               *)
OneStop ==
  \A i, j \in DOMAIN kinds :
    kinds[i] = StopType /\ kinds[j] = StopType => i = j /\ claimed

StopInv == LimiterInv /\ OneStop /\ claimed \in BOOLEAN
=============================================================================
