---------------------------- MODULE ReportPusher ----------------------------
(***************************************************************************)
(* The digest pusher: a tick asks whether the last completed day, and then *)
(* the last completed week, has been reported, and posts it if not, with   *)
(* one delayed retry.  The markers are set when the webhook answers and    *)
(* saved to service_health when the tick ends.  A stop closes the store    *)
(* and aborts the pusher in either order; a reload registers the plugin    *)
(* anew, in the same process, while a tick of the old one may be waiting.  *)
(***************************************************************************)
EXTENDS Integers, FiniteSets

CONSTANTS
  WeekLen,       (* days in a week                          *)
  MaxDay,        (* bound: the clock stops at this day      *)
  MaxInst,       (* bound: registrations                    *)
  MaxFailures,   (* bound: posts that fail                  *)
  MaxMishaps     (* bound: crashes and steps back in time   *)

ASSUME PusherAssumption ==
  /\ WeekLen \in Nat \ {0} /\ MaxDay \in Nat /\ WeekLen <= MaxDay /\ MaxInst \in Nat
  /\ MaxFailures \in Nat /\ MaxMishaps \in Nat

VARIABLES
  today,         (* the day the clock shows                             *)
  pushers,       (* one ReportPusherService per registration            *)
  row,           (* the service_health row: markers and errors, or NoRow *)
  received,      (* history: posts the webhook got, by kind and period  *)
  base,          (* history: the periods a fresh install counts as done *)
  excuses,       (* history: what may make the webhook get one twice    *)
  failures, mishaps

vars == <<today, pushers, row, received, base, excuses, failures, mishaps>>

Kinds == {"daily", "weekly"}
None  == -1      (* no marker *)
NoRow == [mark |-> [k \in Kinds |-> None], err |-> [k \in Kinds |-> FALSE]]

(* dayMostRecentlyCompleted, weekMostRecentlyCompleted *)
Done(k) == IF k = "daily" THEN today - 1 ELSE today \div WeekLen - 1

(* One service object.  at is the phase its tick is in, step where the post *)
(* of that phase stands: on its way, received, or waiting for the retry.    *)
Fresh == [life |-> "new", open |-> TRUE, aborted |-> FALSE,
          mark |-> NoRow.mark, err |-> NoRow.err,
          at |-> "idle", step |-> "sent", attempt |-> 0, target |-> None]

Init ==
  /\ today = WeekLen /\ row = NoRow
  /\ pushers = [i \in 1 .. MaxInst |-> Fresh]
  /\ received = [k \in Kinds |-> [p \in 0 .. MaxDay |-> 0]]
  /\ base = [k \in Kinds |-> None]
  /\ excuses = 0 /\ failures = 0 /\ mishaps = 0

(***************************************************************************)
(* One tick, from await to await.                                          *)
(***************************************************************************)
(* fireDaily, fireWeekly up to the first await.  On a closed store building *)
(* the projection throws; after an abort no attempt is made.                *)
Due(s, k)    == s.mark[k] # Done(k)
Posts(s, k)  == Due(s, k) /\ s.open /\ ~s.aborted
Throws(s, k) == Due(s, k) /\ ~s.open
Enter(s, at, target) ==
  [s EXCEPT !.at = at, !.step = "sent", !.attempt = 0, !.target = target]
Send(s, k)   == Enter(s, k, Done(k))
Pass(s, k)   == [s EXCEPT !.err[k] = @ \/ Throws(s, k)]
EndTick(s)   == Enter(s, "idle", None)

Weekly(s) == IF Posts(s, "weekly") THEN Send(s, "weekly") ELSE EndTick(Pass(s, "weekly"))
Daily(s)  == IF Posts(s, "daily")  THEN Send(s, "daily")  ELSE Weekly(Pass(s, "daily"))

(* The phase is over, whatever its outcome: the other phase is not affected. *)
Leave(s) == IF s.at = "daily" THEN Weekly(s) ELSE EndTick(s)

(* Mutant: the markers are saved by start() alone. *)
CommitAtStart(i, s) ==
  /\ pushers' = [pushers EXCEPT ![i] = s]
  /\ row' = IF pushers[i].life = "new" THEN [mark |-> s.mark, err |-> s.err] ELSE row

(* Store the state of object i.  A tick that ends saves the markers, if the *)
(* store still takes them (persist).                                        *)
Commit(i, s) ==
  /\ pushers' = [pushers EXCEPT ![i] = s]
  /\ row' = IF s.at = "idle" /\ s.open THEN [mark |-> s.mark, err |-> s.err] ELSE row

Tick(i) ==
  LET s == pushers[i]
  IN  /\ s.life = "started" /\ ~s.aborted /\ s.at = "idle"
      /\ Commit(i, Daily(s))
      /\ UNCHANGED <<today, received, base, excuses, failures, mishaps>>

(* The post reaches the webhook. *)
Receive(i) ==
  LET s == pushers[i]
  IN  /\ s.life = "started" /\ s.at # "idle" /\ s.step = "sent"
      /\ received' = [received EXCEPT ![s.at][s.target] = @ + 1]
      /\ pushers' = [pushers EXCEPT ![i].step = "received"]
      /\ UNCHANGED <<today, row, base, excuses, failures, mishaps>>

(* Mutant: the marker is set to what is due when the answer comes. *)
MarkedNow(s) == [s EXCEPT !.mark[s.at] = Done(s.at), !.err[s.at] = FALSE]

Marked(s) == [s EXCEPT !.mark[s.at] = s.target, !.err[s.at] = FALSE]

Answer(i) ==
  LET s == pushers[i]
  IN  /\ s.life = "started" /\ s.at # "idle" /\ s.step = "received"
      /\ Commit(i, Leave(Marked(s)))
      /\ UNCHANGED <<today, received, base, excuses, failures, mishaps>>

(* No answer, or a bad one, whether or not the webhook got the post: the    *)
(* first time wait and retry, unless aborted; the second time give up.      *)
Fail(i) ==
  LET s == pushers[i]
  IN  /\ s.life = "started" /\ s.at # "idle" /\ s.step \in {"sent", "received"}
      /\ failures < MaxFailures /\ failures' = failures + 1
      /\ excuses' = IF s.step = "received" THEN excuses + 1 ELSE excuses
      /\ Commit(i, IF s.attempt = 1 THEN Leave([s EXCEPT !.err[s.at] = TRUE])
                   ELSE IF s.aborted THEN Leave(s)
                   ELSE [s EXCEPT !.step = "wait"])
      /\ UNCHANGED <<today, received, base, mishaps>>

Retry(i) ==
  LET s == pushers[i]
  IN  /\ s.life = "started" /\ s.at # "idle" /\ s.step = "wait"
      /\ pushers' = [pushers EXCEPT ![i].step = "sent", ![i].attempt = 1]
      /\ UNCHANGED <<today, row, received, base, excuses, failures, mishaps>>

(***************************************************************************)
(* Life cycle.                                                             *)
(***************************************************************************)
(* Mutant: start() does not restore the saved markers. *)
RestoredFresh(k) == Done(k)

(* restoreState: the saved marker, or, on a fresh install, the last completed period. *)
Restored(k) == IF row.mark[k] = None THEN Done(k) ELSE row.mark[k]

(* register() on a new api, once the previous registration is stopped, and  *)
(* start(): restore, fall back, persist, set the timer.                     *)
Start(i) ==
  LET s == [Fresh EXCEPT !.life = "started", !.mark = [k \in Kinds |-> Restored(k)],
                         !.err = row.err]
  IN  /\ pushers[i].life = "new"
      /\ \A j \in 1 .. i - 1 : pushers[j].life = "dead" \/ (pushers[j].aborted /\ ~pushers[j].open)
      /\ Commit(i, s)
      /\ base' = [k \in Kinds |-> IF row.mark[k] = None THEN Done(k) ELSE base[k]]
      /\ UNCHANGED <<today, received, excuses, failures, mishaps>>

(* retention's stop() closes the store.  What a tick in flight does from    *)
(* then on is not saved.                                                    *)
CloseStore(i) ==
  /\ pushers[i].life = "started" /\ pushers[i].open
  /\ pushers' = [pushers EXCEPT ![i].open = FALSE]
  /\ excuses' = IF pushers[i].at = "idle" THEN excuses ELSE excuses + 1
  /\ UNCHANGED <<today, row, received, base, failures, mishaps>>

(* stop(): no more ticks, and a pending retry is cancelled. *)
Stop(i) ==
  LET s == [pushers[i] EXCEPT !.aborted = TRUE]
  IN  /\ pushers[i].life = "started" /\ ~pushers[i].aborted
      /\ IF s.at # "idle" /\ s.step = "wait" THEN Commit(i, Leave(s))
         ELSE pushers' = [pushers EXCEPT ![i] = s] /\ UNCHANGED row
      /\ UNCHANGED <<today, received, base, excuses, failures, mishaps>>

(* The process dies: every object started in it is gone. *)
Crash ==
  /\ mishaps < MaxMishaps /\ mishaps' = mishaps + 1
  /\ \E i \in 1 .. MaxInst : pushers[i].life = "started"
  /\ excuses' = IF \E i \in 1 .. MaxInst : pushers[i].life = "started" /\ pushers[i].at # "idle"
                THEN excuses + 1 ELSE excuses
  /\ pushers' = [i \in 1 .. MaxInst |->
                   IF pushers[i].life = "started" THEN [Fresh EXCEPT !.life = "dead"] ELSE pushers[i]]
  /\ UNCHANGED <<today, row, received, base, failures>>

NextDay ==
  /\ today < MaxDay /\ today' = today + 1
  /\ UNCHANGED <<pushers, row, received, base, excuses, failures, mishaps>>

(* The clock is set back a day. *)
ClockBack ==
  /\ mishaps < MaxMishaps /\ mishaps' = mishaps + 1
  /\ today > WeekLen /\ today' = today - 1
  /\ excuses' = excuses + 1
  /\ UNCHANGED <<pushers, row, received, base, failures>>

Next ==
  \/ \E i \in 1 .. MaxInst :
       Tick(i) \/ Receive(i) \/ Answer(i) \/ Fail(i) \/ Retry(i) \/ Start(i) \/ CloseStore(i) \/ Stop(i)
  \/ Crash \/ NextDay \/ ClockBack

Spec == Init /\ [][Next]_vars

(* Timers fire and the webhook answers; nothing forces the clock, a failure *)
(* or the life cycle.                                                       *)
Progress == \E i \in 1 .. MaxInst : Tick(i) \/ Receive(i) \/ Answer(i) \/ Retry(i)

-----------------------------------------------------------------------------
(* Properties. *)

Services ==
  [life : {"new", "started", "dead"}, open : BOOLEAN, aborted : BOOLEAN,
   mark : [Kinds -> Int], err : [Kinds -> BOOLEAN], at : Kinds \cup {"idle"},
   step : {"sent", "received", "wait"}, attempt : {0, 1}, target : Int]

TypeOK ==
  /\ today \in WeekLen .. MaxDay /\ excuses \in Nat
  /\ failures \in 0 .. MaxFailures /\ mishaps \in 0 .. MaxMishaps
  /\ row \in [mark : [Kinds -> Int], err : [Kinds -> BOOLEAN]]
  /\ received \in [Kinds -> [0 .. MaxDay -> Nat]]
  /\ base \in [Kinds -> Int]
  /\ pushers \in [1 .. MaxInst -> Services]

(* The webhook gets a period again only if an answer to it was lost, or the *)
(* process or the store went away under a tick, or the clock went back:     *)
(* ticks, retries and restarts alone never repeat a report.                 *)
RepeatsExplained == \A k \in Kinds, p \in 0 .. MaxDay : received[k][p] <= 1 + excuses

(* What a marker may say. *)
Claimable(k) == {None, base[k]} \cup {p \in 0 .. MaxDay : received[k][p] > 0}

(* A saved marker never claims a report that was not delivered: it names a  *)
(* period the webhook got, or the one a fresh install started from.         *)
MarkHonest == \A k \in Kinds : row.mark[k] \in Claimable(k)

(* While some registration keeps running, the last completed day and week   *)
(* end up delivered, whatever failed before.                                *)
Running(i) == pushers[i].life = "started" /\ pushers[i].open /\ ~pushers[i].aborted
Reported   == \A k \in Kinds : base[k] = Done(k) \/ received[k][Done(k)] > 0
AllReported == <>[](\E i \in 1 .. MaxInst : Running(i)) => <>[]Reported

-----------------------------------------------------------------------------
(* The inductive invariant. *)

(* What a service holds in memory it may save: its markers are as honest as *)
(* the saved ones as long as the store is open to it, and the post it waits *)
(* for is one of a period that is over.                                     *)
Honest(s) ==
  /\ s.life = "new" => s.open
  /\ s.at # "idle" => s.target \in 0 .. MaxDay
  /\ s.life = "started" /\ s.at # "idle" /\ s.step = "received" => received[s.at][s.target] > 0
  /\ s.life = "started" /\ s.open => \A k \in Kinds : s.mark[k] \in Claimable(k)

(* Registrations come one after the other. *)
InTurn ==
  \A i, j \in 1 .. MaxInst : j < i /\ pushers[j].life = "new" => pushers[i].life = "new"

IInv ==
  /\ TypeOK /\ MarkHonest /\ InTurn
  /\ \A i \in 1 .. MaxInst : Honest(pushers[i])

-----------------------------------------------------------------------------
(* The accounting behind RepeatsExplained. *)

(* Service s is to deliver period p (again): its post is on its way or waits. *)
Flies(s, k, p) == s.life = "started" /\ s.at = k /\ s.target = p /\ s.step # "received"
Flying(k, p)   == {i \in 1 .. MaxInst : Flies(pushers[i], k, p)}

(* What the webhook got of a period, and is going to get. *)
Posted(k, p) == received[k][p] + Cardinality(Flying(k, p))

(* Only one registration has the store open. *)
Open(i)  == pushers[i].life = "started" /\ pushers[i].open
OneOpen  == \A i, j \in 1 .. MaxInst : Open(i) /\ Open(j) => i = j

(* What it marks is saved, but for the tick it is in. *)
Saved == \A i \in 1 .. MaxInst : Open(i) /\ pushers[i].at = "idle" => row.mark = pushers[i].mark

(* It will not ask for period p again: it has marked it, and is not about   *)
(* to mark another.                                                         *)
Settled(s, k, p) == s.mark[k] = p /\ ~(s.at = k /\ s.target # p)

(* A period to come has had no more posts than there are excuses; neither   *)
(* has the last completed one, but for the post its service is about, while *)
(* that service, or the next one that reads the saved markers, would ask    *)
(* for it; any other may have had one more.                                 *)
Accounted ==
  \A k \in Kinds, p \in 0 .. MaxDay :
    /\ Posted(k, p) <= excuses + (IF p > Done(k) THEN 0 ELSE 1)
    /\ \A i \in 1 .. MaxInst :
         Open(i) /\ Done(k) = p /\ ~Settled(pushers[i], k, p) =>
           Posted(k, p) <= excuses + (IF pushers[i].at = k /\ pushers[i].target = p THEN 1 ELSE 0)
    /\ (\A i \in 1 .. MaxInst : ~Open(i)) /\ Done(k) = p /\ row.mark[k] \notin {None, p} =>
         Posted(k, p) <= excuses

PInv == IInv /\ OneOpen /\ Saved /\ Accounted
=============================================================================
