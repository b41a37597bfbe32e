------------------------ MODULE ReportPusher_proofs ------------------------
(* Theorems about ReportPusher: a saved marker is honest, for any number of *)
(* days, registrations, failed posts, crashes and steps back in time.       *)
EXTENDS ReportPusher, FiniteSetTheorems, TLAPS

(* The last completed period is one the webhook can be asked to take. *)
LEMMA DoneInRange ==
  ASSUME NEW k \in Kinds, today \in WeekLen .. MaxDay
  PROVE  Done(k) \in 0 .. MaxDay
<1> USE PusherAssumption
<1>1. CASE k = "daily" BY <1>1 DEF Done
<1>2. CASE k = "weekly"
  <2>1. today \div WeekLen \in 1 .. today BY SMTT(30)
  <2> QED BY <1>2, <2>1 DEF Done
<1> QED BY <1>1, <1>2 DEF Kinds

(* What the code between two awaits does to a service: it keeps its markers *)
(* and its life, and leaves it idle or with a post on its way.              *)
Onward(s, t) ==
  /\ t \in Services
  /\ t.life = s.life /\ t.open = s.open /\ t.aborted = s.aborted /\ t.mark = s.mark
  /\ t.at = "idle" \/ (t.step = "sent" /\ t.target \in 0 .. MaxDay)

LEMMA EnterSets ==
  ASSUME NEW s \in Services, NEW at \in Kinds \cup {"idle"}, NEW n \in Int
  PROVE  /\ Enter(s, at, n) \in Services
         /\ Enter(s, at, n).life = s.life /\ Enter(s, at, n).open = s.open
         /\ Enter(s, at, n).aborted = s.aborted /\ Enter(s, at, n).mark = s.mark
         /\ Enter(s, at, n).at = at /\ Enter(s, at, n).step = "sent"
         /\ Enter(s, at, n).target = n
<1> DEFINE half == [s EXCEPT !.at = at, !.step = "sent"]
<1>1. half \in Services BY DEF Services
<1>2. [half EXCEPT !.attempt = 0, !.target = n] \in Services BY <1>1 DEF Services
<1>3. Enter(s, at, n) \in Services BY <1>2 DEF Enter
<1>4. /\ Enter(s, at, n).life = s.life /\ Enter(s, at, n).open = s.open
      /\ Enter(s, at, n).aborted = s.aborted /\ Enter(s, at, n).mark = s.mark
      /\ Enter(s, at, n).at = at /\ Enter(s, at, n).step = "sent"
      /\ Enter(s, at, n).target = n
  BY DEF Services, Enter
<1> QED BY <1>3, <1>4

LEMMA SendOnward ==
  ASSUME NEW s \in Services, NEW k \in Kinds, today \in WeekLen .. MaxDay
  PROVE  Onward(s, Send(s, k))
<1>1. Done(k) \in 0 .. MaxDay /\ Done(k) \in Int BY DoneInRange, PusherAssumption
<1> QED BY <1>1, EnterSets DEF Onward, Send

LEMMA EndOnward ==
  ASSUME NEW s \in Services
  PROVE  Onward(s, EndTick(s))
<1>1. None \in Int BY DEF None
<1> QED BY <1>1, EnterSets DEF Onward, EndTick

LEMMA PassKeeps ==
  ASSUME NEW s \in Services, NEW k \in Kinds
  PROVE  /\ Pass(s, k) \in Services
         /\ Pass(s, k).life = s.life /\ Pass(s, k).open = s.open
         /\ Pass(s, k).aborted = s.aborted /\ Pass(s, k).mark = s.mark
BY DEF Pass, Services, Throws, Due

LEMMA WeeklyOnward ==
  ASSUME NEW s \in Services, today \in WeekLen .. MaxDay
  PROVE  Onward(s, Weekly(s))
<1>1. "weekly" \in Kinds BY DEF Kinds
<1>2. CASE Posts(s, "weekly") BY <1>1, <1>2, SendOnward DEF Weekly
<1>3. CASE ~Posts(s, "weekly")
  <2>1. Onward(Pass(s, "weekly"), EndTick(Pass(s, "weekly"))) BY <1>1, PassKeeps, EndOnward
  <2> QED BY <1>1, <1>3, <2>1, PassKeeps DEF Weekly, Onward
<1> QED BY <1>2, <1>3

LEMMA DailyOnward ==
  ASSUME NEW s \in Services, today \in WeekLen .. MaxDay
  PROVE  Onward(s, Daily(s))
<1>1. "daily" \in Kinds BY DEF Kinds
<1>2. CASE Posts(s, "daily") BY <1>1, <1>2, SendOnward DEF Daily
<1>3. CASE ~Posts(s, "daily")
  <2>1. Onward(Pass(s, "daily"), Weekly(Pass(s, "daily"))) BY <1>1, PassKeeps, WeeklyOnward
  <2> QED BY <1>1, <1>3, <2>1, PassKeeps DEF Daily, Onward
<1> QED BY <1>2, <1>3

LEMMA LeaveOnward ==
  ASSUME NEW s \in Services, today \in WeekLen .. MaxDay
  PROVE  Onward(s, Leave(s))
BY WeeklyOnward, EndOnward DEF Leave

(* A service that goes on from an honest one is honest. *)
LEMMA OnwardHonest ==
  ASSUME NEW s, NEW t, Onward(s, t), s.life = "started",
         s.open => \A k \in Kinds : s.mark[k] \in Claimable(k)
  PROVE  Honest(t)
BY DEF Onward, Honest

(* Storing an honest service object keeps the invariant, and what it saves  *)
(* is honest.                                                               *)
LEMMA CommitStep ==
  ASSUME IInv, NEW i \in 1 .. MaxInst, NEW s \in Services, Commit(i, s),
         s.life = "started", pushers[i].life = "started", Honest(s),
         today' \in WeekLen .. MaxDay, excuses' \in Nat, failures' \in 0 .. MaxFailures,
         mishaps' \in 0 .. MaxMishaps, UNCHANGED <<received, base>>
  PROVE  IInv'
<1>1. pushers' = [pushers EXCEPT ![i] = s] /\ pushers \in [1 .. MaxInst -> Services]
  BY DEF Commit, IInv, TypeOK
<1>2. pushers' \in [1 .. MaxInst -> Services] BY <1>1
<1>3. row' \in [mark : [Kinds -> Int], err : [Kinds -> BOOLEAN]]
  BY DEF Commit, IInv, TypeOK, Services
<1>4. TypeOK' BY <1>2, <1>3 DEF IInv, TypeOK
<1>5. MarkHonest'
  <2>1. CASE s.at = "idle" /\ s.open
    <3>1. row'.mark = s.mark BY <2>1 DEF Commit
    <3> QED BY <2>1, <3>1 DEF Honest, MarkHonest, Claimable
  <2>2. CASE ~(s.at = "idle" /\ s.open)
    BY <2>2 DEF Commit, IInv, MarkHonest, Claimable
  <2> QED BY <2>1, <2>2
<1>6. InTurn' BY <1>1 DEF IInv, InTurn
<1>7. \A j \in 1 .. MaxInst : Honest(pushers[j])'
  BY <1>1 DEF IInv, Honest, Claimable
<1> QED BY <1>4, <1>5, <1>6, <1>7 DEF IInv

LEMMA FreshService == Fresh \in Services
BY DEF Fresh, Services, NoRow, None

LEMMA IInvInit == Init => IInv
<1> SUFFICES ASSUME Init PROVE IInv OBVIOUS
<1> USE PusherAssumption
<1>1. Fresh \in Services BY FreshService
<1>2. NoRow \in [mark : [Kinds -> Int], err : [Kinds -> BOOLEAN]] BY DEF NoRow, None
<1>3. TypeOK BY <1>1, <1>2 DEF Init, TypeOK, None
<1>4. MarkHonest BY DEF Init, MarkHonest, Claimable, NoRow
<1>5. Honest(Fresh) BY DEF Honest, Fresh
<1> QED BY <1>3, <1>4, <1>5 DEF IInv, Init, InTurn

(* One lemma per action. *)
LEMMA TickStep == ASSUME IInv, NEW i \in 1 .. MaxInst, Tick(i) PROVE IInv'
<1> DEFINE s == pushers[i]
<1>1. s \in Services /\ Honest(s) /\ s.life = "started" /\ today \in WeekLen .. MaxDay
  BY DEF IInv, TypeOK, Tick
<1>2. Onward(s, Daily(s)) BY <1>1, DailyOnward
<1>3. Honest(Daily(s)) BY <1>1, <1>2, OnwardHonest DEF Honest
<1>4. Daily(s) \in Services /\ Daily(s).life = "started" BY <1>1, <1>2 DEF Onward
<1>5. /\ Commit(i, Daily(s)) /\ UNCHANGED <<received, base>>
      /\ today' = today /\ excuses' = excuses /\ failures' = failures /\ mishaps' = mishaps
  BY DEF Tick
<1> QED BY <1>1, <1>3, <1>4, <1>5, CommitStep DEF IInv, TypeOK

LEMMA ReceiveStep == ASSUME IInv, NEW i \in 1 .. MaxInst, Receive(i) PROVE IInv'
<1> DEFINE s == pushers[i]
<1> USE PusherAssumption
<1>1. /\ s \in Services /\ s.at \in Kinds /\ s.target \in 0 .. MaxDay /\ s.life = "started"
      /\ pushers \in [1 .. MaxInst -> Services]
      /\ received \in [Kinds -> [0 .. MaxDay -> Nat]]
  BY DEF IInv, TypeOK, Receive, Honest, Services
<1>2. /\ received' = [received EXCEPT ![s.at][s.target] = @ + 1]
      /\ pushers' = [pushers EXCEPT ![i].step = "received"]
      /\ UNCHANGED <<today, row, base, excuses, failures, mishaps>>
  BY DEF Receive
<1>3. received' \in [Kinds -> [0 .. MaxDay -> Nat]] BY <1>1, <1>2
<1>4. received'[s.at][s.target] > 0 BY <1>1, <1>2
<1>5. \A k \in Kinds, p \in 0 .. MaxDay : received[k][p] > 0 => received'[k][p] > 0
  BY <1>1, <1>2
<1>6. pushers'[i] = [s EXCEPT !.step = "received"] BY <1>1, <1>2
<1>7. pushers'[i] \in Services /\ \A j \in 1 .. MaxInst \ {i} : pushers'[j] = pushers[j]
  BY <1>1, <1>2, <1>6 DEF Services
<1>8. pushers' \in [1 .. MaxInst -> Services] BY <1>1, <1>2, <1>7
<1>9. TypeOK' BY <1>2, <1>3, <1>8 DEF IInv, TypeOK
<1>10. \A k \in Kinds : Claimable(k) \subseteq Claimable(k)' BY <1>2, <1>5 DEF Claimable
<1>11. MarkHonest' BY <1>2, <1>10 DEF IInv, MarkHonest
<1>12. /\ pushers'[i].life = s.life /\ pushers'[i].open = s.open /\ pushers'[i].mark = s.mark
       /\ pushers'[i].at = s.at /\ pushers'[i].target = s.target
  BY <1>1, <1>6 DEF Services
<1>13. InTurn' BY <1>7, <1>12 DEF IInv, InTurn
<1>14. Honest(pushers[i])' BY <1>1, <1>4, <1>10, <1>12 DEF IInv, Honest
<1>15. ASSUME NEW j \in 1 .. MaxInst \ {i} PROVE Honest(pushers[j])'
  <2>1. pushers[j] \in Services /\ Honest(pushers[j]) BY <1>1 DEF IInv
  <2> QED BY <1>5, <1>7, <1>10, <2>1 DEF Honest, Services
<1> QED BY <1>9, <1>11, <1>13, <1>14, <1>15 DEF IInv

LEMMA AnswerStep == ASSUME IInv, NEW i \in 1 .. MaxInst, Answer(i) PROVE IInv'
<1> DEFINE s == pushers[i]
           t == Marked(s)
<1> USE PusherAssumption
<1>1. /\ s \in Services /\ Honest(s) /\ s.life = "started" /\ today \in WeekLen .. MaxDay
      /\ s.at \in Kinds /\ s.target \in 0 .. MaxDay /\ received[s.at][s.target] > 0
  BY DEF IInv, TypeOK, Answer, Honest, Services
<1>2. /\ t \in Services /\ t.life = s.life /\ t.open = s.open
      /\ \A k \in Kinds : t.mark[k] = IF k = s.at THEN s.target ELSE s.mark[k]
  BY <1>1 DEF Marked, Services
<1>3. t.life = "started" /\ (t.open => \A k \in Kinds : t.mark[k] \in Claimable(k))
  BY <1>1, <1>2 DEF Honest, Claimable
<1>4. Onward(t, Leave(t)) BY <1>1, <1>2, LeaveOnward
<1>5. Honest(Leave(t)) BY <1>3, <1>4, OnwardHonest
<1>6. Leave(t) \in Services /\ Leave(t).life = "started" BY <1>1, <1>2, <1>4 DEF Onward
<1>7. /\ Commit(i, Leave(t)) /\ UNCHANGED <<received, base>>
      /\ today' = today /\ excuses' = excuses /\ failures' = failures /\ mishaps' = mishaps
  BY DEF Answer
<1> QED BY <1>1, <1>5, <1>6, <1>7, CommitStep DEF IInv, TypeOK

LEMMA FailStep == ASSUME IInv, NEW i \in 1 .. MaxInst, Fail(i) PROVE IInv'
<1> DEFINE s == pushers[i]
           e == [s EXCEPT !.err[s.at] = TRUE]
           w == [s EXCEPT !.step = "wait"]
<1> USE PusherAssumption
<1>1. /\ s \in Services /\ Honest(s) /\ s.life = "started" /\ s.at \in Kinds
      /\ today \in WeekLen .. MaxDay
  BY DEF IInv, TypeOK, Fail, Services
<1>2. /\ UNCHANGED <<received, base>> /\ today' = today /\ mishaps' = mishaps
      /\ excuses' \in Nat /\ failures' \in 0 .. MaxFailures
  BY DEF Fail, IInv, TypeOK
<1>3. Commit(i, Leave(e)) \/ Commit(i, Leave(s)) \/ Commit(i, w) BY DEF Fail
<1>4. /\ e \in Services /\ e.life = s.life /\ e.open = s.open /\ e.mark = s.mark
  BY <1>1 DEF Services
<1>5. Honest(Leave(e)) /\ Leave(e) \in Services /\ Leave(e).life = "started"
  <2>1. Onward(e, Leave(e)) BY <1>1, <1>4, LeaveOnward
  <2> QED BY <1>1, <1>4, <2>1, OnwardHonest DEF Honest, Onward
<1>6. Honest(Leave(s)) /\ Leave(s) \in Services /\ Leave(s).life = "started"
  <2>1. Onward(s, Leave(s)) BY <1>1, LeaveOnward
  <2> QED BY <1>1, <2>1, OnwardHonest DEF Honest, Onward
<1>7. Honest(w) /\ w \in Services /\ w.life = "started"
  BY <1>1 DEF Services, Honest
<1> HIDE DEF e, w
<1> QED BY <1>1, <1>2, <1>3, <1>5, <1>6, <1>7, CommitStep DEF IInv, TypeOK

(* A service changes and saves nothing. *)
LEMMA ChangeStep ==
  ASSUME IInv, NEW i \in 1 .. MaxInst, NEW s \in Services,
         pushers' = [pushers EXCEPT ![i] = s],
         s.life = "started", pushers[i].life = "started", Honest(s),
         excuses' \in Nat, UNCHANGED <<today, row, received, base, failures, mishaps>>
  PROVE  IInv'
<1>1. pushers \in [1 .. MaxInst -> Services] BY DEF IInv, TypeOK
<1>2. TypeOK' BY <1>1 DEF IInv, TypeOK
<1>3. MarkHonest' BY DEF IInv, MarkHonest, Claimable
<1>4. InTurn' BY <1>1 DEF IInv, InTurn
<1>5. \A j \in 1 .. MaxInst : Honest(pushers[j])' BY <1>1 DEF IInv, Honest, Claimable
<1> QED BY <1>2, <1>3, <1>4, <1>5 DEF IInv

LEMMA RetryStep == ASSUME IInv, NEW i \in 1 .. MaxInst, Retry(i) PROVE IInv'
<1> DEFINE s == pushers[i]
           t == [s EXCEPT !.step = "sent", !.attempt = 1]
<1>1. /\ s \in Services /\ Honest(s) /\ s.life = "started"
      /\ pushers \in [1 .. MaxInst -> Services]
  BY DEF IInv, TypeOK, Retry
<1>2. pushers' = [pushers EXCEPT ![i] = t] BY <1>1 DEF Retry
<1>3. t \in Services /\ t.life = "started" BY <1>1 DEF Services
<1>4. Honest(t) BY <1>1 DEF Services, Honest
<1> HIDE DEF t
<1> QED BY <1>1, <1>2, <1>3, <1>4, ChangeStep DEF Retry, IInv, TypeOK

LEMMA CloseStoreStep == ASSUME IInv, NEW i \in 1 .. MaxInst, CloseStore(i) PROVE IInv'
<1> DEFINE s == pushers[i]
           t == [s EXCEPT !.open = FALSE]
<1>1. /\ s \in Services /\ Honest(s) /\ s.life = "started"
      /\ pushers \in [1 .. MaxInst -> Services]
  BY DEF IInv, TypeOK, CloseStore
<1>2. pushers' = [pushers EXCEPT ![i] = t] BY <1>1 DEF CloseStore
<1>3. t \in Services /\ t.life = "started" BY <1>1 DEF Services
<1>4. Honest(t) BY <1>1 DEF Services, Honest
<1>5. excuses' \in Nat BY DEF CloseStore, IInv, TypeOK
<1> HIDE DEF t
<1> QED BY <1>1, <1>2, <1>3, <1>4, <1>5, ChangeStep DEF CloseStore

LEMMA StopStep == ASSUME IInv, NEW i \in 1 .. MaxInst, Stop(i) PROVE IInv'
<1> DEFINE s == pushers[i]
           t == [s EXCEPT !.aborted = TRUE]
<1>1. /\ s \in Services /\ Honest(s) /\ s.life = "started" /\ today \in WeekLen .. MaxDay
      /\ pushers \in [1 .. MaxInst -> Services]
  BY DEF IInv, TypeOK, Stop
<1>2. t \in Services /\ t.life = "started" /\ t.open = s.open /\ t.mark = s.mark
  BY <1>1 DEF Services
<1>3. Honest(t) BY <1>1 DEF Services, Honest
<1>4. Honest(Leave(t)) /\ Leave(t) \in Services /\ Leave(t).life = "started"
  <2>1. Onward(t, Leave(t)) BY <1>1, <1>2, LeaveOnward
  <2> QED BY <1>2, <1>3, <2>1, OnwardHonest DEF Honest, Onward
<1>5. Commit(i, Leave(t)) \/ (pushers' = [pushers EXCEPT ![i] = t] /\ UNCHANGED row)
  BY DEF Stop
<1>6. UNCHANGED <<today, received, base, excuses, failures, mishaps>> BY DEF Stop
<1> HIDE DEF t
<1>7. CASE Commit(i, Leave(t))
  BY <1>1, <1>4, <1>6, <1>7, CommitStep DEF IInv, TypeOK
<1>8. CASE pushers' = [pushers EXCEPT ![i] = t] /\ UNCHANGED row
  BY <1>1, <1>2, <1>3, <1>6, <1>8, ChangeStep DEF IInv, TypeOK
<1> QED BY <1>5, <1>7, <1>8

(* A registration that starts is the only one that may save: those before   *)
(* it are dead or cut off from the store, those after it have not begun.    *)
(* So the markers of a fresh install may be set anew.                       *)
LEMMA StartStep == ASSUME IInv, NEW i \in 1 .. MaxInst, Start(i) PROVE IInv'
<1> DEFINE s == [Fresh EXCEPT !.life = "started", !.mark = [k \in Kinds |-> Restored(k)],
                              !.err = row.err]
<1> USE PusherAssumption
<1>1. /\ pushers \in [1 .. MaxInst -> Services] /\ today \in WeekLen .. MaxDay
      /\ row \in [mark : [Kinds -> Int], err : [Kinds -> BOOLEAN]] /\ base \in [Kinds -> Int]
  BY DEF IInv, TypeOK
<1>2. /\ Commit(i, s) /\ pushers[i].life = "new"
      /\ \A j \in 1 .. i - 1 : pushers[j].life = "dead" \/ (pushers[j].aborted /\ ~pushers[j].open)
      /\ base' = [k \in Kinds |-> IF row.mark[k] = None THEN Done(k) ELSE base[k]]
      /\ UNCHANGED <<today, received, excuses, failures, mishaps>>
  BY DEF Start
<1>3. \A k \in Kinds : Done(k) \in 0 .. MaxDay BY <1>1, DoneInRange
<1>4. [k \in Kinds |-> Restored(k)] \in [Kinds -> Int] BY <1>1, <1>3 DEF Restored
<1>5. /\ s.life = "started" /\ s.open = TRUE /\ s.at = "idle" /\ s.err = row.err
      /\ s.mark = [k \in Kinds |-> Restored(k)]
  BY DEF Fresh
<1>6. [Fresh EXCEPT !.life = "started"] \in Services BY FreshService DEF Services
<1>7. s \in Services BY <1>1, <1>4, <1>6 DEF Services
<1> HIDE DEF s
<1>8. /\ pushers' = [pushers EXCEPT ![i] = s]
      /\ row' = [mark |-> s.mark, err |-> s.err]
  BY <1>2, <1>5 DEF Commit
<1>9. base' \in [Kinds -> Int] BY <1>1, <1>2, <1>3
<1>10. TypeOK'
  <2>1. pushers' \in [1 .. MaxInst -> Services] BY <1>1, <1>7, <1>8
  <2>2. row' \in [mark : [Kinds -> Int], err : [Kinds -> BOOLEAN]]
    BY <1>1, <1>4, <1>5, <1>8
  <2> QED BY <1>2, <1>9, <2>1, <2>2 DEF IInv, TypeOK
<1>11. \A k \in Kinds : s.mark[k] \in Claimable(k)'
  <2> TAKE k \in Kinds
  <2>1. s.mark[k] = Restored(k) BY <1>5
  <2>2. CASE row.mark[k] = None
    BY <1>2, <2>1, <2>2 DEF Restored, Claimable
  <2>3. CASE row.mark[k] # None
    <3>1. base'[k] = base[k] /\ s.mark[k] = row.mark[k] BY <1>2, <2>1, <2>3 DEF Restored
    <3> QED BY <1>2, <3>1 DEF IInv, MarkHonest, Claimable
  <2> QED BY <2>2, <2>3
<1>12. MarkHonest' BY <1>8, <1>11 DEF MarkHonest
<1>13. \A j \in 1 .. MaxInst : j > i => pushers[j].life = "new" BY <1>2 DEF IInv, InTurn
<1>14. InTurn'
  <2>1. \A j \in 1 .. MaxInst : j < i => pushers[j].life # "new"
    <3> SUFFICES ASSUME NEW j \in 1 .. MaxInst, j < i PROVE pushers[j].life # "new"
      OBVIOUS
    <3>1. j \in 1 .. i - 1 OBVIOUS
    <3> QED BY <1>2, <3>1 DEF IInv, Honest
  <2> QED BY <1>1, <1>5, <1>8, <1>13, <2>1 DEF IInv, InTurn
<1>15. Honest(pushers[i])'
  <2>1. pushers'[i] = s BY <1>1, <1>8
  <2> QED BY <1>5, <1>11, <2>1 DEF Honest
<1>16. ASSUME NEW j \in 1 .. MaxInst \ {i} PROVE Honest(pushers[j])'
  <2>1. pushers'[j] = pushers[j] /\ Honest(pushers[j]) BY <1>1, <1>8 DEF IInv
  <2>2. ~(pushers[j].life = "started" /\ pushers[j].open)
    <3>1. CASE j < i
      <4>1. j \in 1 .. i - 1 BY <3>1
      <4> QED BY <1>2, <4>1
    <3>2. CASE j > i BY <1>13, <3>2
    <3> QED BY <3>1, <3>2
  <2> QED BY <1>2, <2>1, <2>2 DEF Honest
<1> QED BY <1>10, <1>12, <1>14, <1>15, <1>16 DEF IInv

LEMMA CrashStep == ASSUME IInv, Crash PROVE IInv'
<1> DEFINE Gone == [Fresh EXCEPT !.life = "dead"]
<1> USE PusherAssumption
<1>1. /\ pushers \in [1 .. MaxInst -> Services]
      /\ pushers' = [i \in 1 .. MaxInst |->
                       IF pushers[i].life = "started" THEN Gone ELSE pushers[i]]
      /\ UNCHANGED <<today, row, received, base, failures>>
      /\ excuses' \in Nat /\ mishaps' \in 0 .. MaxMishaps
  BY DEF IInv, TypeOK, Crash
<1>4. Gone \in Services /\ Gone.life = "dead" /\ Gone.at = "idle"
  BY FreshService DEF Services, Fresh
<1> HIDE DEF Gone
<1>5. TypeOK' BY <1>1, <1>4 DEF IInv, TypeOK
<1>6. MarkHonest' BY <1>1 DEF IInv, MarkHonest, Claimable
<1>7. \A i \in 1 .. MaxInst : pushers'[i].life = "new" <=> pushers[i].life = "new"
  BY <1>1, <1>4
<1>8. InTurn' BY <1>7 DEF IInv, InTurn
<1>9. ASSUME NEW i \in 1 .. MaxInst PROVE Honest(pushers[i])'
  <2>1. CASE pushers[i].life = "started"
    BY <1>1, <1>4, <2>1 DEF Honest
  <2>2. CASE pushers[i].life # "started"
    BY <1>1, <2>2 DEF Honest, IInv
  <2> QED BY <2>1, <2>2
<1> QED BY <1>5, <1>6, <1>8, <1>9 DEF IInv

LEMMA ClockStep == ASSUME IInv, NextDay \/ ClockBack PROVE IInv'
<1> USE PusherAssumption
<1>1. UNCHANGED <<pushers, row, received, base, failures>> BY DEF NextDay, ClockBack
<1>2. TypeOK'
  <2>1. today' \in WeekLen .. MaxDay /\ excuses' \in Nat /\ mishaps' \in 0 .. MaxMishaps
    BY DEF IInv, TypeOK, NextDay, ClockBack
  <2> QED BY <1>1, <2>1 DEF IInv, TypeOK
<1> QED BY <1>1, <1>2 DEF IInv, MarkHonest, InTurn, Honest, Claimable

LEMMA IInvStep == IInv /\ [Next]_vars => IInv'
<1> SUFFICES ASSUME IInv, [Next]_vars PROVE IInv' OBVIOUS
<1>1. ASSUME NEW i \in 1 .. MaxInst,
             Tick(i) \/ Receive(i) \/ Answer(i) \/ Fail(i) \/ Retry(i)
               \/ Start(i) \/ CloseStore(i) \/ Stop(i)
      PROVE  IInv'
  BY <1>1, TickStep, ReceiveStep, AnswerStep, FailStep, RetryStep, StartStep, CloseStoreStep,
     StopStep
<1>2. CASE Crash BY <1>2, CrashStep
<1>3. CASE NextDay \/ ClockBack BY <1>3, ClockStep
<1>4. CASE UNCHANGED vars
  BY <1>4 DEF vars, IInv, TypeOK, MarkHonest, InTurn, Honest, Claimable
<1> QED BY <1>1, <1>2, <1>3, <1>4 DEF Next

(* The inductive invariant: what services hold in memory, and what is saved. *)
THEOREM Inductive == Spec => []IInv
BY IInvInit, IInvStep, PTL DEF Spec

(* A saved marker names a period the webhook got, or the one the install    *)
(* began with: no crash, failed post, reload or change of the clock makes   *)
(* the pusher skip a report it believes sent.                               *)
THEOREM SavedMarkersAreHonest == Spec => []MarkHonest
<1>1. IInv => MarkHonest BY DEF IInv
<1> QED BY <1>1, Inductive, PTL

(***************************************************************************)
(* No report is repeated without an excuse.                                *)
(***************************************************************************)
Fl(s, k, p) == IF Flies(s, k, p) THEN 1 ELSE 0

LEMMA PostedType ==
  ASSUME TypeOK, NEW k \in Kinds, NEW p \in 0 .. MaxDay
  PROVE  /\ received[k][p] \in Nat /\ IsFiniteSet(Flying(k, p)) /\ Cardinality(Flying(k, p)) \in Nat
         /\ Posted(k, p) = received[k][p] + Cardinality(Flying(k, p)) /\ Posted(k, p) \in Nat
<1>1. received[k][p] \in Nat BY DEF TypeOK
<1>2. IsFiniteSet(1 .. MaxInst) BY FS_Interval, PusherAssumption
<1>3. Flying(k, p) \subseteq 1 .. MaxInst BY DEF Flying
<1>4. IsFiniteSet(Flying(k, p)) /\ Cardinality(Flying(k, p)) \in Nat
  BY <1>2, <1>3, FS_Subset, FS_CardinalityType
<1> QED BY <1>1, <1>4 DEF Posted

(* What is due of a period moves with the one service that moves. *)
LEMMA FlyingMoves ==
  ASSUME TypeOK, NEW i \in 1 .. MaxInst, NEW t, pushers' = [pushers EXCEPT ![i] = t],
         NEW k \in Kinds, NEW p \in 0 .. MaxDay
  PROVE  /\ Cardinality(Flying(k, p)') =
              Cardinality(Flying(k, p)) - Fl(pushers[i], k, p) + Fl(t, k, p)
         /\ Cardinality(Flying(k, p)') \in Nat
<1> DEFINE F == Flying(k, p)
<1>1. IsFiniteSet(F) /\ Cardinality(F) \in Nat BY PostedType
<1>2. pushers'[i] = t /\ \A j \in 1 .. MaxInst : j # i => pushers'[j] = pushers[j]
  BY DEF TypeOK
<1>3. i \in F <=> Flies(pushers[i], k, p) BY DEF Flying
<1>4. i \in F' <=> Flies(t, k, p) BY <1>2 DEF Flying
<1>5. \A j : j # i => (j \in F' <=> j \in F) BY <1>2 DEF Flying
<1> HIDE DEF F
<1>6. CASE Flies(pushers[i], k, p) /\ Flies(t, k, p)
  <2>1. F' = F BY <1>3, <1>4, <1>5, <1>6
  <2> QED BY <1>1, <1>6, <2>1 DEF Fl, F
<1>7. CASE ~Flies(pushers[i], k, p) /\ ~Flies(t, k, p)
  <2>1. F' = F BY <1>3, <1>4, <1>5, <1>7
  <2> QED BY <1>1, <1>7, <2>1 DEF Fl, F
<1>8. CASE ~Flies(pushers[i], k, p) /\ Flies(t, k, p)
  <2>1. F' = F \cup {i} /\ i \notin F BY <1>3, <1>4, <1>5, <1>8
  <2>2. Cardinality(F \cup {i}) = Cardinality(F) + 1 BY <1>1, <2>1, FS_AddElement
  <2> QED BY <1>1, <1>8, <2>1, <2>2 DEF Fl, F
<1>9. CASE Flies(pushers[i], k, p) /\ ~Flies(t, k, p)
  <2>1. F' = F \ {i} /\ i \in F BY <1>3, <1>4, <1>5, <1>9
  <2>2. /\ Cardinality(F \ {i}) = Cardinality(F) - 1 /\ IsFiniteSet(F \ {i})
        /\ Cardinality(F \ {i}) \in Nat
    BY <1>1, <2>1, FS_RemoveElement, FS_CardinalityType
  <2> QED BY <1>1, <1>9, <2>1, <2>2 DEF Fl, F
<1> QED BY <1>6, <1>7, <1>8, <1>9

LEMMA PostedMoves ==
  ASSUME TypeOK, NEW i \in 1 .. MaxInst, NEW t, pushers' = [pushers EXCEPT ![i] = t],
         received' = received, NEW k \in Kinds, NEW p \in 0 .. MaxDay
  PROVE  /\ Posted(k, p)' = Posted(k, p) - Fl(pushers[i], k, p) + Fl(t, k, p)
         /\ Posted(k, p) \in Nat /\ Posted(k, p)' \in Nat
<1>1. Fl(pushers[i], k, p) \in {0, 1} /\ Fl(t, k, p) \in {0, 1} BY DEF Fl
<1>2. /\ received[k][p] \in Nat /\ Cardinality(Flying(k, p)) \in Nat
      /\ Posted(k, p) = received[k][p] + Cardinality(Flying(k, p))
  BY PostedType
<1>3. Posted(k, p)' = received[k][p] + Cardinality(Flying(k, p)') BY DEF Posted
<1>4. /\ Cardinality(Flying(k, p)') =
           Cardinality(Flying(k, p)) - Fl(pushers[i], k, p) + Fl(t, k, p)
      /\ Cardinality(Flying(k, p)') \in Nat
  BY FlyingMoves
<1> QED BY <1>1, <1>2, <1>3, <1>4

(* What of Accounted concerns one service, and the saved markers. *)
Bounded(k, p)  == Posted(k, p) <= excuses + (IF p > Done(k) THEN 0 ELSE 1)
BoundedBy(s, k, p) ==
  Done(k) = p /\ ~Settled(s, k, p) =>
    Posted(k, p) <= excuses + (IF s.at = k /\ s.target = p THEN 1 ELSE 0)
BoundedByRow(k, p) == Done(k) = p /\ row.mark[k] \notin {None, p} => Posted(k, p) <= excuses

LEMMA AccountedIs ==
  Accounted <=>
    \A k \in Kinds, p \in 0 .. MaxDay :
      /\ Bounded(k, p)
      /\ \A i \in 1 .. MaxInst : Open(i) => BoundedBy(pushers[i], k, p)
      /\ (\A i \in 1 .. MaxInst : ~Open(i)) => BoundedByRow(k, p)
BY DEF Accounted, Bounded, BoundedBy, BoundedByRow

(* A service that moves and keeps its store as it is. *)
LEMMA MoveAccounted ==
  ASSUME PInv, NEW i \in 1 .. MaxInst, NEW t, t.life = "started", pushers[i].life = "started",
         t.open = pushers[i].open, pushers' = [pushers EXCEPT ![i] = t],
         today' = today, excuses' \in {excuses, excuses + 1},
         ~t.open => row' = row,
         t.open /\ t.at = "idle" => row'.mark = t.mark,
         \A k \in Kinds, p \in 0 .. MaxDay :
           /\ Posted(k, p) \in Nat /\ Posted(k, p)' \in Nat
           /\ Bounded(k, p)' /\ (t.open => BoundedBy(pushers[i], k, p)')
           /\ ~t.open => Posted(k, p)' <= Posted(k, p) + (excuses' - excuses)
  PROVE  OneOpen' /\ Saved' /\ Accounted'
<1>1. /\ OneOpen /\ Saved /\ Accounted /\ TypeOK /\ today \in WeekLen .. MaxDay /\ excuses \in Nat
      /\ excuses' \in Nat
  BY DEF PInv, IInv, TypeOK
<1>2. pushers'[i] = t /\ \A j \in 1 .. MaxInst : j # i => pushers'[j] = pushers[j]
  BY <1>1 DEF TypeOK
<1>3. \A j \in 1 .. MaxInst : Open(j)' <=> Open(j) BY <1>2 DEF Open
<1>4. OneOpen' BY <1>1, <1>3 DEF OneOpen
<1>5. \A j \in 1 .. MaxInst : Open(j) /\ j # i => ~Open(i) /\ ~t.open
  BY <1>1 DEF OneOpen, Open
<1>6. Saved'
  <2>1. SUFFICES ASSUME NEW j \in 1 .. MaxInst, Open(j)', pushers'[j].at = "idle"
                 PROVE  row'.mark = pushers'[j].mark
    BY DEF Saved
  <2>2. CASE j = i BY <1>2, <2>1, <2>2 DEF Open
  <2>3. CASE j # i
    <3>1. Open(j) /\ ~t.open /\ pushers'[j] = pushers[j] BY <1>2, <1>3, <1>5, <2>1, <2>3
    <3> QED BY <1>1, <2>1, <3>1 DEF Saved
  <2> QED BY <2>2, <2>3
<1>7. ASSUME NEW k \in Kinds, NEW p \in 0 .. MaxDay
      PROVE  /\ \A j \in 1 .. MaxInst : Open(j)' => BoundedBy(pushers[j], k, p)'
             /\ (\A j \in 1 .. MaxInst : ~Open(j)') => BoundedByRow(k, p)'
  <2>1. Done(k)' = Done(k) BY DEF Done
  <2>2. /\ Posted(k, p) \in Nat /\ Posted(k, p)' \in Nat
        /\ ~t.open => Posted(k, p)' <= Posted(k, p) + (excuses' - excuses)
    OBVIOUS
  <2>3. ASSUME NEW j \in 1 .. MaxInst, Open(j)' PROVE BoundedBy(pushers[j], k, p)'
    <3>1. CASE j = i BY <1>2, <2>3, <3>1 DEF Open
    <3>2. CASE j # i
      <4>1. Open(j) /\ ~t.open /\ pushers'[j] = pushers[j] BY <1>2, <1>3, <1>5, <2>3, <3>2
      <4>2. BoundedBy(pushers[j], k, p) BY <1>1, <4>1, AccountedIs
      <4>3. PICK u : u = pushers[j] OBVIOUS
      <4>4. BoundedBy(u, k, p) <=> BoundedBy(pushers[j], k, p) BY <4>3
      <4>5. BoundedBy(u, k, p)' <=> BoundedBy(pushers[j], k, p)' BY <4>1, <4>3
      <4>6. BoundedBy(u, k, p)' BY <1>1, <2>1, <2>2, <4>1, <4>2, <4>4 DEF BoundedBy, Settled
      <4> QED BY <4>5, <4>6
    <3> QED BY <3>1, <3>2
  <2>4. ASSUME \A j \in 1 .. MaxInst : ~Open(j)' PROVE BoundedByRow(k, p)'
    <3>1. (\A j \in 1 .. MaxInst : ~Open(j)) /\ ~t.open /\ row' = row
      BY <1>2, <1>3, <2>4 DEF Open
    <3>2. BoundedByRow(k, p) BY <1>1, <3>1, AccountedIs
    <3> QED BY <1>1, <2>1, <2>2, <3>1, <3>2 DEF BoundedByRow
  <2> QED BY <2>3, <2>4
<1>8. \A k \in Kinds, p \in 0 .. MaxDay : Bounded(k, p)' OBVIOUS
<1>9. Accounted' BY <1>7, <1>8 DEF Accounted, Bounded, BoundedBy, BoundedByRow
<1> QED BY <1>4, <1>6, <1>9

(* A service that goes on with what it is about. *)
LEMMA StayAccounted ==
  ASSUME PInv, NEW i \in 1 .. MaxInst, NEW t, t.life = "started", pushers[i].life = "started",
         pushers' = [pushers EXCEPT ![i] = t],
         t.open = pushers[i].open, t.at = pushers[i].at, t.mark = pushers[i].mark,
         t.target = pushers[i].target,
         UNCHANGED <<today, row, received>>, excuses' \in {excuses, excuses + 1},
         \A k \in Kinds, p \in 0 .. MaxDay :
           Fl(t, k, p) <= Fl(pushers[i], k, p) + (excuses' - excuses)
  PROVE  OneOpen' /\ Saved' /\ Accounted'
<1>1. TypeOK /\ Accounted /\ Saved /\ excuses \in Nat BY DEF PInv, IInv, TypeOK
<1>2. pushers'[i] = t BY <1>1 DEF TypeOK
<1>3. ASSUME NEW k \in Kinds, NEW p \in 0 .. MaxDay
      PROVE  /\ Posted(k, p) \in Nat /\ Posted(k, p)' \in Nat
             /\ Bounded(k, p)' /\ (t.open => BoundedBy(pushers[i], k, p)')
             /\ Posted(k, p)' <= Posted(k, p) + (excuses' - excuses)
  <2>1. /\ Posted(k, p)' = Posted(k, p) - Fl(pushers[i], k, p) + Fl(t, k, p)
        /\ Posted(k, p) \in Nat /\ Posted(k, p)' \in Nat
    BY <1>1, PostedMoves
  <2>2. Fl(pushers[i], k, p) \in {0, 1} /\ Fl(t, k, p) \in {0, 1} BY DEF Fl
  <2>3. Posted(k, p)' <= Posted(k, p) + (excuses' - excuses) BY <1>1, <2>1, <2>2
  <2>4. Done(k)' = Done(k) BY DEF Done
  <2>5. Bounded(k, p) /\ (t.open => BoundedBy(pushers[i], k, p))
    BY <1>1, AccountedIs DEF Open
  <2>6. Bounded(k, p)' BY <1>1, <2>1, <2>3, <2>4, <2>5 DEF Bounded
  <2>7. t.open => BoundedBy(pushers[i], k, p)'
    BY <1>1, <1>2, <2>1, <2>3, <2>4, <2>5 DEF BoundedBy, Settled
  <2> QED BY <2>1, <2>3, <2>6, <2>7
<1>4. t.open /\ t.at = "idle" => row'.mark = t.mark BY <1>1 DEF Saved, Open
<1> QED BY <1>3, <1>4, MoveAccounted

(* What the code between two awaits leaves a service with: nothing to do,   *)
(* or a post of the last completed period, which it had not marked.         *)
Sends(t, k) == t.open /\ t.step = "sent" /\ t.target = Done(k) /\ t.mark[k] # Done(k)

LEMMA EndIdle == ASSUME NEW s \in Services PROVE EndTick(s).at = "idle"
<1>1. None \in Int BY DEF None
<1>2. Enter(s, "idle", None).at = "idle" BY <1>1, EnterSets
<1> QED BY <1>2 DEF EndTick

LEMMA LeaveSends ==
  ASSUME NEW s \in Services, today \in WeekLen .. MaxDay,
         NEW t, t = Leave(s) \/ (s.at = "idle" /\ t = Daily(s))
  PROVE  /\ t \in Services /\ t.life = s.life /\ t.open = s.open /\ t.mark = s.mark
         /\ t.at = "idle" \/ (t.at \in Kinds /\ t.at # s.at /\ Sends(t, t.at))
<1>1. Onward(s, t) BY LeaveOnward, DailyOnward
<1>2. ASSUME NEW u \in Services, u.open = s.open, u.mark = s.mark, NEW k \in Kinds, Posts(u, k)
      PROVE  Send(u, k).at = k /\ Sends(Send(u, k), k)
  <2>1. Done(k) \in Int BY DoneInRange, PusherAssumption
  <2> QED BY <1>2, <2>1, EnterSets DEF Send, Sends, Posts, Due
<1>3. ASSUME NEW u \in Services, u.open = s.open, u.mark = s.mark
      PROVE  Weekly(u).at = "idle" \/ (Weekly(u).at = "weekly" /\ Sends(Weekly(u), "weekly"))
  <2>1. "weekly" \in Kinds BY DEF Kinds
  <2>2. CASE Posts(u, "weekly") BY <1>2, <1>3, <2>1, <2>2 DEF Weekly
  <2>3. CASE ~Posts(u, "weekly")
    <3>1. Onward(Pass(u, "weekly"), EndTick(Pass(u, "weekly"))) BY <1>3, <2>1, PassKeeps, EndOnward
    <3>2. EndTick(Pass(u, "weekly")).at = "idle" BY <1>3, <2>1, PassKeeps, EndIdle
    <3> QED BY <2>3, <3>2 DEF Weekly
  <2> QED BY <2>2, <2>3
<1>4. CASE t = Leave(s)
  <2>1. CASE s.at = "daily"
    <3>1. t = Weekly(s) BY <1>4, <2>1 DEF Leave
    <3>2. t.at = "idle" \/ (t.at = "weekly" /\ Sends(t, "weekly")) BY <1>3, <3>1
    <3> QED BY <1>1, <2>1, <3>2 DEF Kinds, Onward
  <2>2. CASE s.at # "daily"
    <3>1. t = EndTick(s) BY <1>4, <2>2 DEF Leave
    <3> QED BY <1>1, <3>1, EndIdle DEF Onward
  <2> QED BY <2>1, <2>2
<1>5. CASE s.at = "idle" /\ t = Daily(s)
  <2>1. "daily" \in Kinds /\ "idle" \notin Kinds BY DEF Kinds
  <2>2. CASE Posts(s, "daily")
    <3>1. t.at = "daily" /\ Sends(t, "daily") BY <1>2, <1>5, <2>1, <2>2 DEF Daily
    <3> QED BY <1>1, <1>5, <2>1, <3>1 DEF Onward
  <2>3. CASE ~Posts(s, "daily")
    <3>1. t.at = "idle" \/ (t.at = "weekly" /\ Sends(t, "weekly"))
      BY <1>3, <1>5, <2>1, <2>3, PassKeeps DEF Daily
    <3> QED BY <1>1, <1>5, <3>1 DEF Onward, Kinds
  <2> QED BY <2>2, <2>3
<1> QED BY <1>4, <1>5

(* A service that is done with a phase, or begins a tick: u is the service  *)
(* with the outcome noted.                                                  *)
LEMMA LeaveAccounted ==
  ASSUME PInv, NEW i \in 1 .. MaxInst, NEW s, s = pushers[i], s.life = "started",
         NEW u \in Services, u.life = s.life, u.open = s.open, u.at = s.at,
         \A k \in Kinds : k # s.at => u.mark[k] = s.mark[k],
         NEW t, t = Leave(u) \/ (u.at = "idle" /\ t = Daily(u)), Commit(i, t),
         UNCHANGED <<today, received>>, excuses' \in {excuses, excuses + 1},
         \/ u.mark = s.mark /\ (s.at = "idle" \/ s.step # "received" \/ excuses' = excuses + 1)
         \/ s.at \in Kinds /\ u.mark[s.at] = s.target
  PROVE  OneOpen' /\ Saved' /\ Accounted'
<1>1. TypeOK /\ Accounted /\ excuses \in Nat /\ today \in WeekLen .. MaxDay BY DEF PInv, IInv, TypeOK
<1>2. /\ t \in Services /\ t.life = "started" /\ t.open = s.open /\ t.mark = u.mark
      /\ t.at = "idle" \/ (t.at \in Kinds /\ t.at # s.at /\ Sends(t, t.at))
  BY <1>1, LeaveSends
<1>3. /\ pushers' = [pushers EXCEPT ![i] = t] /\ pushers'[i] = t
      /\ t.open /\ t.at = "idle" => row'.mark = t.mark
      /\ ~t.open => row' = row
  BY <1>1 DEF Commit, TypeOK
<1>4. ASSUME NEW k \in Kinds, NEW p \in 0 .. MaxDay
      PROVE  /\ Posted(k, p) \in Nat /\ Posted(k, p)' \in Nat
             /\ Bounded(k, p)' /\ (t.open => BoundedBy(pushers[i], k, p)')
             /\ ~t.open => Posted(k, p)' <= Posted(k, p) + (excuses' - excuses)
  <2>1. /\ Posted(k, p)' = Posted(k, p) - Fl(s, k, p) + Fl(t, k, p)
        /\ Posted(k, p) \in Nat /\ Posted(k, p)' \in Nat
    BY <1>1, <1>3, PostedMoves
  <2>2. Fl(s, k, p) \in {0, 1} /\ Fl(t, k, p) \in {0, 1} BY DEF Fl
  <2>3. Done(k)' = Done(k) /\ "idle" \notin Kinds BY DEF Done, Kinds
  <2>4. Bounded(k, p) /\ (t.open => BoundedBy(s, k, p))
    BY <1>1, <1>2, AccountedIs DEF Open
  <2>5. CASE t.at = k /\ t.target = p
    <3>1. /\ t.open /\ p = Done(k) /\ k # s.at /\ s.mark[k] # p /\ t.mark[k] # p
      BY <1>2, <2>3, <2>5 DEF Sends
    <3>2. Posted(k, p) <= excuses BY <1>1, <2>4, <3>1 DEF BoundedBy, Settled
    <3>3. Posted(k, p)' <= excuses' + 1 BY <1>1, <2>1, <2>2, <3>2
    <3>4. Bounded(k, p)' BY <2>3, <3>1, <3>3 DEF Bounded
    <3>5. BoundedBy(t, k, p)' BY <2>5, <3>3 DEF BoundedBy
    <3>6. BoundedBy(pushers[i], k, p)' BY <1>3, <3>5
    <3>7. ~t.open => Posted(k, p)' <= Posted(k, p) + (excuses' - excuses) BY <3>1
    <3> QED BY <2>1, <3>4, <3>6, <3>7
  <2>6. CASE ~(t.at = k /\ t.target = p)
    <3>1. Fl(t, k, p) = 0 BY <2>6 DEF Fl, Flies
    <3>2. Posted(k, p)' <= Posted(k, p) + (excuses' - excuses) BY <1>1, <2>1, <2>2, <3>1
    <3>3. Bounded(k, p)' BY <1>1, <2>1, <2>3, <2>4, <3>2 DEF Bounded
    <3>4. ASSUME t.open, Done(k) = p, ~Settled(t, k, p) PROVE Posted(k, p)' <= excuses'
      <4>1. t.at = k => t.target = p BY <1>2, <2>3, <3>4 DEF Sends
      <4>2. t.at # k /\ t.mark[k] # p BY <2>6, <3>4, <4>1 DEF Settled
      <4>3. CASE k # s.at
        <5>1. s.mark[k] # p BY <1>2, <4>2, <4>3
        <5>2. Posted(k, p) <= excuses BY <1>1, <2>4, <3>4, <4>3, <5>1 DEF BoundedBy, Settled
        <5> QED BY <1>1, <2>1, <2>2, <3>1, <5>2
      <4>4. CASE k = s.at /\ s.target # p
        <5>1. Posted(k, p) <= excuses BY <1>1, <2>4, <3>4, <4>4 DEF BoundedBy, Settled
        <5> QED BY <1>1, <2>1, <2>2, <3>1, <5>1
      <4>5. CASE k = s.at /\ s.target = p
        <5>1. u.mark = s.mark /\ (s.step # "received" \/ excuses' = excuses + 1)
          BY <1>2, <2>3, <4>2, <4>5
        <5>2. s.mark[k] # p BY <1>2, <4>2, <5>1
        <5>3. Posted(k, p) <= excuses + 1 BY <1>1, <2>4, <3>4, <4>5, <5>2 DEF BoundedBy, Settled
        <5>4. s.step # "received" => Fl(s, k, p) = 1 BY <4>5 DEF Fl, Flies
        <5> QED BY <1>1, <2>1, <2>2, <3>1, <5>1, <5>3, <5>4
      <4> QED BY <4>3, <4>4, <4>5
    <3>5. t.open => BoundedBy(t, k, p)' BY <1>1, <2>1, <2>3, <3>4 DEF BoundedBy, Settled
    <3>6. t.open => BoundedBy(pushers[i], k, p)' BY <1>3, <3>5
    <3> QED BY <2>1, <3>2, <3>3, <3>6
  <2> QED BY <2>5, <2>6
<1> QED BY <1>2, <1>3, <1>4, MoveAccounted

(* One lemma per action. *)
LEMMA TickAccounted ==
  ASSUME PInv, NEW i \in 1 .. MaxInst, Tick(i) PROVE OneOpen' /\ Saved' /\ Accounted'
<1> DEFINE s == pushers[i]
<1>1. s \in Services /\ s.life = "started" /\ s.at = "idle" /\ Commit(i, Daily(s))
      /\ UNCHANGED <<today, received, excuses>>
  BY DEF PInv, IInv, TypeOK, Tick
<1> HIDE DEF s
<1> QED BY <1>1, LeaveAccounted DEF s

LEMMA AnswerAccounted ==
  ASSUME PInv, NEW i \in 1 .. MaxInst, Answer(i) PROVE OneOpen' /\ Saved' /\ Accounted'
<1> DEFINE s == pushers[i]
<1>1. /\ s \in Services /\ s.life = "started" /\ s.at \in Kinds /\ Commit(i, Leave(Marked(s)))
      /\ UNCHANGED <<today, received, excuses>>
  BY DEF PInv, IInv, TypeOK, Answer, Services
<1>2. /\ Marked(s) \in Services /\ Marked(s).life = s.life /\ Marked(s).open = s.open
      /\ Marked(s).at = s.at /\ Marked(s).mark[s.at] = s.target
      /\ \A k \in Kinds : k # s.at => Marked(s).mark[k] = s.mark[k]
  BY <1>1 DEF Marked, Services
<1> HIDE DEF s
<1> QED BY <1>1, <1>2, LeaveAccounted DEF s

LEMMA FailAccounted ==
  ASSUME PInv, NEW i \in 1 .. MaxInst, Fail(i) PROVE OneOpen' /\ Saved' /\ Accounted'
<1> DEFINE s == pushers[i]
           e == [s EXCEPT !.err[s.at] = TRUE]
           w == [s EXCEPT !.step = "wait"]
<1>1. /\ s \in Services /\ s.life = "started" /\ s.at \in Kinds /\ s.step \in {"sent", "received"}
      /\ UNCHANGED <<today, received>>
      /\ excuses' = IF s.step = "received" THEN excuses + 1 ELSE excuses
  BY DEF PInv, IInv, TypeOK, Fail, Services
<1>2. Commit(i, Leave(e)) \/ Commit(i, Leave(s)) \/ Commit(i, w) BY DEF Fail
<1>3. /\ e \in Services /\ e.life = s.life /\ e.open = s.open /\ e.at = s.at /\ e.mark = s.mark
  BY <1>1 DEF Services
<1>4. /\ w \in Services /\ w.life = "started" /\ w.open = s.open /\ w.at = s.at
      /\ w.mark = s.mark /\ w.target = s.target /\ w.step = "wait"
  BY <1>1 DEF Services
<1>5. excuses \in Nat /\ excuses' \in {excuses, excuses + 1} BY <1>1 DEF PInv, IInv, TypeOK
<1> HIDE DEF s, e, w
<1>6. CASE Commit(i, Leave(e)) BY <1>1, <1>3, <1>5, <1>6, LeaveAccounted DEF s
<1>7. CASE Commit(i, Leave(s)) BY <1>1, <1>5, <1>7, LeaveAccounted DEF s
<1>8. CASE Commit(i, w)
  <2>1. pushers' = [pushers EXCEPT ![i] = w] /\ row' = row
    BY <1>1, <1>4, <1>8 DEF Commit, Kinds
  <2>2. \A k \in Kinds, p \in 0 .. MaxDay : Fl(w, k, p) <= Fl(s, k, p) + (excuses' - excuses)
    BY <1>1, <1>4, <1>5 DEF Fl, Flies
  <2> QED BY <1>1, <1>4, <1>5, <2>1, <2>2, StayAccounted DEF s
<1> QED BY <1>2, <1>6, <1>7, <1>8

LEMMA RetryAccounted ==
  ASSUME PInv, NEW i \in 1 .. MaxInst, Retry(i) PROVE OneOpen' /\ Saved' /\ Accounted'
<1> DEFINE s == pushers[i]
           t == [s EXCEPT !.step = "sent", !.attempt = 1]
<1>1. /\ s \in Services /\ s.life = "started" /\ s.step = "wait"
      /\ pushers \in [1 .. MaxInst -> Services] /\ excuses \in Nat
      /\ UNCHANGED <<today, row, received, excuses>>
  BY DEF PInv, IInv, TypeOK, Retry
<1>2. pushers' = [pushers EXCEPT ![i] = t] BY <1>1 DEF Retry
<1>3. /\ t.life = "started" /\ t.open = s.open /\ t.at = s.at
      /\ t.mark = s.mark /\ t.target = s.target
  BY <1>1 DEF Services
<1> HIDE DEF s, t
<1>4. \A k \in Kinds, p \in 0 .. MaxDay : Fl(t, k, p) <= Fl(s, k, p) + (excuses' - excuses)
  BY <1>1, <1>3 DEF Fl, Flies
<1> QED BY <1>1, <1>2, <1>3, <1>4, StayAccounted DEF s

LEMMA StopAccounted ==
  ASSUME PInv, NEW i \in 1 .. MaxInst, Stop(i) PROVE OneOpen' /\ Saved' /\ Accounted'
<1> DEFINE s == pushers[i]
           t == [s EXCEPT !.aborted = TRUE]
<1>1. /\ s \in Services /\ s.life = "started" /\ excuses \in Nat
      /\ UNCHANGED <<today, received, excuses>>
      /\ IF s.at # "idle" /\ s.step = "wait" THEN Commit(i, Leave(t))
         ELSE pushers' = [pushers EXCEPT ![i] = t] /\ UNCHANGED row
  BY DEF PInv, IInv, TypeOK, Stop
<1>2. /\ t \in Services /\ t.life = "started" /\ t.open = s.open /\ t.at = s.at
      /\ t.mark = s.mark /\ t.target = s.target /\ t.step = s.step
  BY <1>1 DEF Services
<1> HIDE DEF s, t
<1>3. CASE s.at # "idle" /\ s.step = "wait"
  BY <1>1, <1>2, <1>3, LeaveAccounted DEF s
<1>4. CASE ~(s.at # "idle" /\ s.step = "wait")
  <2>1. \A k \in Kinds, p \in 0 .. MaxDay : Fl(t, k, p) <= Fl(s, k, p) + (excuses' - excuses)
    BY <1>1, <1>2 DEF Fl, Flies
  <2> QED BY <1>1, <1>2, <1>4, <2>1, StayAccounted DEF s
<1> QED BY <1>3, <1>4

(* A post that arrives was due and is received: what is due stays the same. *)
LEMMA ReceiveAccounted ==
  ASSUME PInv, NEW i \in 1 .. MaxInst, Receive(i) PROVE OneOpen' /\ Saved' /\ Accounted'
<1> DEFINE s == pushers[i]
           t == [s EXCEPT !.step = "received"]
<1>1. /\ s \in Services /\ s.life = "started" /\ s.at \in Kinds /\ s.target \in 0 .. MaxDay
      /\ s.step = "sent" /\ TypeOK /\ Accounted /\ OneOpen /\ Saved
      /\ received \in [Kinds -> [0 .. MaxDay -> Nat]]
      /\ pushers \in [1 .. MaxInst -> Services]
  BY DEF PInv, IInv, TypeOK, Receive, Services, Honest
<1>2. /\ received' = [received EXCEPT ![s.at][s.target] = @ + 1]
      /\ pushers' = [pushers EXCEPT ![i] = t]
      /\ UNCHANGED <<today, row, excuses>>
  BY <1>1 DEF Receive
<1>3. /\ t.life = "started" /\ t.open = s.open /\ t.at = s.at
      /\ t.mark = s.mark /\ t.target = s.target /\ t.step = "received"
  BY <1>1 DEF Services
<1> HIDE DEF s, t
<1>4. ASSUME NEW k \in Kinds, NEW p \in 0 .. MaxDay PROVE Posted(k, p)' = Posted(k, p)
  <2>1. /\ Cardinality(Flying(k, p)') = Cardinality(Flying(k, p)) - Fl(s, k, p) + Fl(t, k, p)
        /\ Cardinality(Flying(k, p)') \in Nat
    BY <1>1, <1>2, FlyingMoves DEF s
  <2>2. received'[k][p] = received[k][p] + Fl(s, k, p)
    <3>1. received[k][p] \in Nat BY <1>1
    <3>2. CASE k = s.at /\ p = s.target
      <4>1. received'[k][p] = received[k][p] + 1 BY <1>1, <1>2, <3>2
      <4>2. Fl(s, k, p) = 1 BY <1>1, <3>2 DEF Fl, Flies
      <4> QED BY <4>1, <4>2
    <3>3. CASE ~(k = s.at /\ p = s.target)
      <4>1. received'[k][p] = received[k][p] BY <1>1, <1>2, <3>3
      <4>2. Fl(s, k, p) = 0 BY <3>3 DEF Fl, Flies
      <4> QED BY <3>1, <4>1, <4>2
    <3> QED BY <3>2, <3>3
  <2>3. Fl(t, k, p) = 0 /\ Fl(s, k, p) \in {0, 1} BY <1>3 DEF Fl, Flies
  <2>4. /\ Posted(k, p) = received[k][p] + Cardinality(Flying(k, p)) /\ received[k][p] \in Nat
        /\ Cardinality(Flying(k, p)) \in Nat
    BY <1>1, PostedType
  <2>5. Posted(k, p)' = received'[k][p] + Cardinality(Flying(k, p)') BY DEF Posted
  <2> QED BY <2>1, <2>2, <2>3, <2>4, <2>5
<1>5. pushers'[i] = t /\ \A j \in 1 .. MaxInst : j # i => pushers'[j] = pushers[j]
  BY <1>1, <1>2
<1>6. \A j \in 1 .. MaxInst :
        /\ pushers'[j].life = pushers[j].life /\ pushers'[j].open = pushers[j].open
        /\ pushers'[j].at = pushers[j].at /\ pushers'[j].mark = pushers[j].mark
        /\ pushers'[j].target = pushers[j].target
  BY <1>1, <1>3, <1>5 DEF s
<1>7. \A j \in 1 .. MaxInst : Open(j)' <=> Open(j) BY <1>6 DEF Open
<1>8. OneOpen' BY <1>1, <1>7 DEF OneOpen
<1>9. Saved' BY <1>1, <1>2, <1>6, <1>7 DEF Saved
<1>10. \A k \in Kinds : Done(k)' = Done(k) BY <1>2 DEF Done
<1>11. Accounted' BY <1>1, <1>2, <1>4, <1>6, <1>7, <1>10 DEF Accounted, Settled
<1> QED BY <1>8, <1>9, <1>11

(* The next registration goes on from the saved markers: those of the       *)
(* service that closed, unless a tick was under way.                        *)
LEMMA CloseAccounted ==
  ASSUME PInv, NEW i \in 1 .. MaxInst, CloseStore(i) PROVE OneOpen' /\ Saved' /\ Accounted'
<1> DEFINE s == pushers[i]
           t == [s EXCEPT !.open = FALSE]
<1>1. /\ s \in Services /\ Open(i) /\ TypeOK /\ Accounted /\ OneOpen /\ Saved /\ excuses \in Nat
      /\ pushers \in [1 .. MaxInst -> Services] /\ today \in WeekLen .. MaxDay
      /\ pushers' = [pushers EXCEPT ![i] = t] /\ UNCHANGED <<today, row, received>>
      /\ excuses' = IF s.at = "idle" THEN excuses ELSE excuses + 1
  BY DEF PInv, IInv, TypeOK, CloseStore, Open
<1>2. /\ t.open = FALSE /\ t.life = s.life /\ t.at = s.at /\ t.target = s.target /\ t.step = s.step
  BY <1>1 DEF Services
<1> HIDE DEF s, t
<1>3. pushers'[i] = t /\ \A j \in 1 .. MaxInst : j # i => pushers'[j] = pushers[j] BY <1>1
<1>4. \A j \in 1 .. MaxInst : ~Open(j)' BY <1>1, <1>2, <1>3 DEF Open, OneOpen
<1>5. ASSUME NEW k \in Kinds, NEW p \in 0 .. MaxDay
      PROVE  Bounded(k, p)' /\ BoundedByRow(k, p)'
  <2>1. /\ Posted(k, p)' = Posted(k, p) - Fl(s, k, p) + Fl(t, k, p) /\ Posted(k, p) \in Nat
    BY <1>1, PostedMoves DEF s
  <2>2. Fl(t, k, p) = Fl(s, k, p) /\ Fl(s, k, p) \in {0, 1} BY <1>2 DEF Fl, Flies
  <2>3. Posted(k, p)' = Posted(k, p) BY <2>1, <2>2
  <2>4. Done(k)' = Done(k) /\ Bounded(k, p) /\ BoundedBy(s, k, p) BY <1>1, AccountedIs DEF Done, s
  <2>5. Bounded(k, p)' BY <1>1, <2>1, <2>3, <2>4 DEF Bounded
  <2>6. ASSUME Done(k) = p, row.mark[k] \notin {None, p} PROVE Posted(k, p) <= excuses'
    <3>1. p \in Nat /\ Posted(k, p) <= excuses + 1 BY <2>4, <2>6, PusherAssumption DEF Bounded
    <3>2. CASE s.at # "idle" BY <1>1, <3>1, <3>2
    <3>3. CASE s.at = "idle"
      <4>1. s.mark[k] # p /\ s.at # k BY <1>1, <2>6, <3>3 DEF Saved, Kinds, s
      <4> QED BY <1>1, <2>4, <2>6, <3>3, <4>1 DEF BoundedBy, Settled
    <3> QED BY <3>2, <3>3
  <2>7. BoundedByRow(k, p)' BY <1>1, <2>3, <2>4, <2>6 DEF BoundedByRow
  <2> QED BY <2>5, <2>7
<1>6. OneOpen' /\ Saved' BY <1>4 DEF OneOpen, Saved
<1>7. Accounted' BY <1>4, <1>5 DEF Accounted, Bounded, BoundedByRow
<1> QED BY <1>6, <1>7

(* A registration asks for no period the saved markers settle. *)
LEMMA StartAccounted ==
  ASSUME PInv, NEW i \in 1 .. MaxInst, Start(i) PROVE OneOpen' /\ Saved' /\ Accounted'
<1> DEFINE t == [Fresh EXCEPT !.life = "started", !.mark = [k \in Kinds |-> Restored(k)],
                              !.err = row.err]
<1>1. /\ TypeOK /\ Accounted /\ InTurn /\ pushers[i].life = "new" /\ Commit(i, t)
      /\ \A j \in 1 .. i - 1 : pushers[j].life = "dead" \/ (pushers[j].aborted /\ ~pushers[j].open)
      /\ UNCHANGED <<today, received, excuses>> /\ today \in WeekLen .. MaxDay /\ excuses \in Nat
      /\ pushers \in [1 .. MaxInst -> Services]
  BY DEF PInv, IInv, TypeOK, Start
<1>2. /\ t.life = "started" /\ t.open = TRUE /\ t.at = "idle"
      /\ t.mark = [k \in Kinds |-> Restored(k)]
  BY DEF Fresh
<1> HIDE DEF t
<1>3. pushers' = [pushers EXCEPT ![i] = t] /\ row'.mark = t.mark BY <1>1, <1>2 DEF Commit
<1>4. pushers'[i] = t /\ \A j \in 1 .. MaxInst : j # i => pushers'[j] = pushers[j] BY <1>1, <1>3
<1>5. \A j \in 1 .. MaxInst : ~Open(j)
  <2>1. SUFFICES ASSUME NEW j \in 1 .. MaxInst PROVE ~Open(j) OBVIOUS
  <2>2. CASE j < i
    <3>1. j \in 1 .. i - 1 BY <2>2
    <3> QED BY <1>1, <3>1 DEF Open
  <2>3. CASE ~(j < i)
    <3>1. j = i \/ i < j BY <2>3
    <3>2. pushers[j].life = "new" BY <1>1, <3>1 DEF InTurn
    <3> QED BY <3>2 DEF Open
  <2> QED BY <2>2, <2>3
<1>6. \A j \in 1 .. MaxInst : Open(j)' <=> j = i BY <1>2, <1>4, <1>5 DEF Open
<1>7. ASSUME NEW k \in Kinds, NEW p \in 0 .. MaxDay
      PROVE  Bounded(k, p)' /\ BoundedBy(pushers[i], k, p)'
  <2>1. Posted(k, p)' = Posted(k, p) - Fl(pushers[i], k, p) + Fl(t, k, p) /\ Posted(k, p) \in Nat
    BY <1>1, <1>3, PostedMoves
  <2>2. Fl(t, k, p) = 0 /\ Fl(pushers[i], k, p) = 0 BY <1>1, <1>2 DEF Fl, Flies, Kinds
  <2>3. Posted(k, p)' = Posted(k, p) BY <2>1, <2>2
  <2>4. Done(k)' = Done(k) /\ Bounded(k, p) /\ BoundedByRow(k, p) BY <1>1, <1>5, AccountedIs DEF Done
  <2>5. Bounded(k, p)' BY <1>1, <2>3, <2>4 DEF Bounded
  <2>6. t.mark[k] = IF row.mark[k] = None THEN Done(k) ELSE row.mark[k] BY <1>2 DEF Restored
  <2>7. t.at # k BY <1>2 DEF Kinds
  <2>8. PICK u : u = t OBVIOUS
  <2>9. ASSUME Done(k) = p, ~Settled(u, k, p) PROVE Posted(k, p) <= excuses
    <3>1. u.mark[k] # p BY <2>7, <2>8, <2>9 DEF Settled
    <3>2. row.mark[k] # None /\ row.mark[k] # p BY <2>6, <2>8, <2>9, <3>1
    <3> QED BY <2>4, <2>9, <3>2 DEF BoundedByRow
  <2>10. u.at # k BY <2>7, <2>8
  <2>11. BoundedBy(u, k, p)'
    <3>1. SUFFICES ASSUME Done(k)' = p, ~Settled(u, k, p)'
                   PROVE  Posted(k, p)' <= excuses' + (IF u.at = k /\ u.target = p THEN 1 ELSE 0)
      BY DEF BoundedBy
    <3>2. Posted(k, p) <= excuses BY <2>4, <2>9, <3>1 DEF Settled
    <3> QED BY <1>1, <2>3, <2>10, <3>2
  <2>12. pushers'[i] = u BY <1>4, <2>8
  <2>13. BoundedBy(pushers[i], k, p)' BY <2>11, <2>12
  <2> QED BY <2>5, <2>13
<1>8. OneOpen' BY <1>6 DEF OneOpen
<1>9. Saved' BY <1>3, <1>4, <1>6 DEF Saved
<1>10. Accounted' BY <1>6, <1>7 DEF Accounted, Bounded, BoundedBy
<1> QED BY <1>8, <1>9, <1>10

(* After a crash nothing is under way. *)
LEMMA CrashAccounted == ASSUME PInv, Crash PROVE OneOpen' /\ Saved' /\ Accounted'
<1> DEFINE Gone == [Fresh EXCEPT !.life = "dead"]
<1>1. /\ TypeOK /\ Accounted /\ Saved /\ excuses \in Nat /\ UNCHANGED <<today, row, received>>
      /\ pushers' = [j \in 1 .. MaxInst |->
                       IF pushers[j].life = "started" THEN Gone ELSE pushers[j]]
      /\ excuses' = IF \E j \in 1 .. MaxInst : pushers[j].life = "started" /\ pushers[j].at # "idle"
                    THEN excuses + 1 ELSE excuses
  BY DEF PInv, IInv, TypeOK, Crash
<1>2. Gone.life = "dead" BY DEF Fresh
<1> HIDE DEF Gone
<1>3. \A j \in 1 .. MaxInst : pushers'[j].life # "started" BY <1>1, <1>2
<1>4. \A j \in 1 .. MaxInst : ~Open(j)' BY <1>3 DEF Open
<1>5. ASSUME NEW k \in Kinds, NEW p \in 0 .. MaxDay
      PROVE  Bounded(k, p)' /\ BoundedByRow(k, p)'
  <2>1. Flying(k, p)' = {} BY <1>3 DEF Flying, Flies
  <2>2. /\ Posted(k, p) = received[k][p] + Cardinality(Flying(k, p)) /\ received[k][p] \in Nat
        /\ Cardinality(Flying(k, p)) \in Nat
    BY <1>1, PostedType
  <2>3. Posted(k, p)' = received[k][p] BY <1>1, <2>1, <2>2, FS_EmptySet DEF Posted
  <2>4. Posted(k, p)' <= Posted(k, p) /\ Posted(k, p) \in Nat /\ Posted(k, p)' \in Nat BY <2>2, <2>3
  <2>5. Done(k)' = Done(k) /\ Bounded(k, p) BY <1>1, AccountedIs DEF Done
  <2>6. Bounded(k, p)' BY <1>1, <2>4, <2>5 DEF Bounded
  <2>7. ASSUME Done(k) = p, row.mark[k] \notin {None, p} PROVE Posted(k, p)' <= excuses'
    <3>1. Posted(k, p) <= excuses + 1 BY <2>5, <2>7, PusherAssumption DEF Bounded
    <3>2. CASE \E j \in 1 .. MaxInst : pushers[j].life = "started" /\ pushers[j].at # "idle"
      BY <1>1, <2>4, <3>1, <3>2
    <3>3. CASE /\ \A j \in 1 .. MaxInst : pushers[j].life = "started" => pushers[j].at = "idle"
               /\ \E j \in 1 .. MaxInst : Open(j)
      <4>1. PICK j \in 1 .. MaxInst : Open(j) /\ pushers[j].at = "idle" BY <3>3 DEF Open
      <4>2. pushers[j].mark[k] # p /\ pushers[j].at # k BY <1>1, <2>7, <4>1 DEF Saved, Kinds
      <4>3. BoundedBy(pushers[j], k, p) BY <1>1, <4>1, AccountedIs
      <4> QED BY <1>1, <2>4, <2>7, <3>3, <4>2, <4>3 DEF BoundedBy, Settled
    <3>4. CASE \A j \in 1 .. MaxInst : ~Open(j)
      <4>1. BoundedByRow(k, p) BY <1>1, <3>4, AccountedIs
      <4> QED BY <1>1, <2>4, <2>7, <4>1 DEF BoundedByRow
    <3> QED BY <3>2, <3>3, <3>4
  <2>8. BoundedByRow(k, p)' BY <1>1, <2>5, <2>7 DEF BoundedByRow
  <2> QED BY <2>6, <2>8
<1>6. OneOpen' /\ Saved' BY <1>4 DEF OneOpen, Saved
<1>7. Accounted' BY <1>4, <1>5 DEF Accounted, Bounded, BoundedByRow
<1> QED BY <1>6, <1>7

(* The clock goes on: what becomes due had no more posts than excuses.  Or  *)
(* it goes back, which is an excuse for every period.                       *)
LEMMA ClockAccounted ==
  ASSUME PInv, NextDay \/ ClockBack PROVE OneOpen' /\ Saved' /\ Accounted'
<1> USE PusherAssumption
<1>1. /\ TypeOK /\ OneOpen /\ Saved /\ Accounted /\ excuses \in Nat /\ today \in WeekLen .. MaxDay
      /\ UNCHANGED <<pushers, row, received>>
  BY DEF PInv, IInv, TypeOK, NextDay, ClockBack
<1>2. OneOpen' /\ Saved' BY <1>1 DEF OneOpen, Saved, Open
<1>3. \A j \in 1 .. MaxInst : Open(j)' <=> Open(j) BY <1>1 DEF Open
<1>4. \A k \in Kinds, p \in 0 .. MaxDay : Posted(k, p)' = Posted(k, p) /\ Posted(k, p) \in Nat
  <2> TAKE k \in Kinds, p \in 0 .. MaxDay
  <2>1. Posted(k, p) \in Nat BY <1>1, PostedType
  <2>2. Posted(k, p)' = Posted(k, p) BY <1>1 DEF Posted, Flying
  <2> QED BY <2>1, <2>2
<1>5. CASE NextDay
  <2>1. today' = today + 1 /\ excuses' = excuses BY <1>5 DEF NextDay
  <2>2. ASSUME NEW k \in Kinds PROVE Done(k) \in Int /\ Done(k)' \in Int /\ Done(k)' >= Done(k)
    <3>1. CASE k = "daily" BY <1>1, <2>1, <3>1 DEF Done
    <3>2. CASE k # "daily"
      <4>1. \A a \in Nat : (a + 1) \div WeekLen >= a \div WeekLen /\ a \div WeekLen \in Int
        BY SMTT(30)
      <4>2. today \in Nat /\ (today + 1) \div WeekLen \in Int BY <1>1
      <4> QED BY <1>1, <2>1, <3>2, <4>1, <4>2 DEF Done
    <3> QED BY <3>1, <3>2
  <2>3. ASSUME NEW k \in Kinds, NEW p \in 0 .. MaxDay
        PROVE  /\ Bounded(k, p)'
               /\ \A j \in 1 .. MaxInst : Open(j)' => BoundedBy(pushers[j], k, p)'
               /\ (\A j \in 1 .. MaxInst : ~Open(j)') => BoundedByRow(k, p)'
    <3>1. /\ Bounded(k, p) /\ \A j \in 1 .. MaxInst : Open(j) => BoundedBy(pushers[j], k, p)
          /\ (\A j \in 1 .. MaxInst : ~Open(j)) => BoundedByRow(k, p)
      BY <1>1, AccountedIs
    <3>2. Posted(k, p)' = Posted(k, p) /\ Posted(k, p) \in Nat BY <1>4
    <3>3. p > Done(k)' => p > Done(k) BY <2>2
    <3>4. Bounded(k, p)' BY <1>1, <2>1, <3>1, <3>2, <3>3 DEF Bounded
    <3>5. p = Done(k)' => p = Done(k) \/ Posted(k, p) <= excuses
      BY <1>1, <2>2, <3>1 DEF Bounded
    <3>6. ASSUME NEW j \in 1 .. MaxInst, Open(j)' PROVE BoundedBy(pushers[j], k, p)'
      <4>1. Open(j) /\ BoundedBy(pushers[j], k, p) BY <1>3, <3>1, <3>6
      <4>2. PICK u : u = pushers[j] OBVIOUS
      <4>3. BoundedBy(u, k, p) BY <4>1, <4>2
      <4>4. BoundedBy(u, k, p)' BY <1>1, <2>1, <3>2, <3>5, <4>3 DEF BoundedBy, Settled
      <4> QED BY <1>1, <4>2, <4>4
    <3>7. ASSUME \A j \in 1 .. MaxInst : ~Open(j)' PROVE BoundedByRow(k, p)'
      <4>1. BoundedByRow(k, p) BY <1>3, <3>1, <3>7
      <4> QED BY <1>1, <2>1, <3>2, <3>5, <4>1 DEF BoundedByRow
    <3> QED BY <3>4, <3>6, <3>7
  <2>4. Accounted' BY <2>3 DEF Accounted, Bounded, BoundedBy, BoundedByRow
  <2> QED BY <1>2, <2>4
<1>6. CASE ClockBack
  <2>1. excuses' = excuses + 1 BY <1>6 DEF ClockBack
  <2>2. \A k \in Kinds, p \in 0 .. MaxDay : Posted(k, p)' <= excuses'
    BY <1>1, <1>4, <2>1, AccountedIs DEF Bounded
  <2>3. excuses' \in Nat /\ \A k \in Kinds, p \in 0 .. MaxDay : Posted(k, p)' \in Nat
    BY <1>1, <1>4, <2>1
  <2>4. Accounted' BY <2>2, <2>3 DEF Accounted
  <2> QED BY <1>2, <2>4
<1> QED BY <1>5, <1>6

LEMMA PInvInit == Init => PInv
<1> SUFFICES ASSUME Init PROVE PInv OBVIOUS
<1>1. IInv BY IInvInit
<1>2. \A i \in 1 .. MaxInst : pushers[i].life = "new" BY DEF Init, Fresh
<1>3. OneOpen /\ Saved BY <1>2 DEF OneOpen, Saved, Open
<1>4. \A k \in Kinds, p \in 0 .. MaxDay : Posted(k, p) = 0
  <2> TAKE k \in Kinds, p \in 0 .. MaxDay
  <2>1. Flying(k, p) = {} BY <1>2 DEF Flying, Flies
  <2>2. received[k][p] = 0 BY DEF Init
  <2> QED BY <2>1, <2>2, FS_EmptySet DEF Posted
<1>5. excuses = 0 BY DEF Init
<1>6. Accounted BY <1>4, <1>5 DEF Accounted
<1> QED BY <1>1, <1>3, <1>6 DEF PInv

LEMMA PInvStep == PInv /\ [Next]_vars => PInv'
<1> SUFFICES ASSUME PInv, [Next]_vars PROVE PInv' OBVIOUS
<1>1. IInv' BY IInvStep DEF PInv
<1>2. ASSUME NEW i \in 1 .. MaxInst,
             Tick(i) \/ Receive(i) \/ Answer(i) \/ Fail(i) \/ Retry(i)
               \/ Start(i) \/ CloseStore(i) \/ Stop(i)
      PROVE  OneOpen' /\ Saved' /\ Accounted'
  BY <1>2, TickAccounted, ReceiveAccounted, AnswerAccounted, FailAccounted, RetryAccounted,
     StartAccounted, CloseAccounted, StopAccounted
<1>3. CASE Crash BY <1>1, <1>3, CrashAccounted DEF PInv
<1>4. CASE NextDay \/ ClockBack BY <1>1, <1>4, ClockAccounted DEF PInv
<1>5. CASE UNCHANGED vars
  <2>1. /\ pushers' = pushers /\ row' = row /\ received' = received /\ excuses' = excuses
        /\ today' = today
    BY <1>5 DEF vars
  <2>2. \A j \in 1 .. MaxInst : Open(j)' <=> Open(j) BY <2>1 DEF Open
  <2>3. OneOpen' /\ Saved' BY <2>1, <2>2 DEF PInv, OneOpen, Saved
  <2>4. ASSUME NEW k \in Kinds, NEW p \in 0 .. MaxDay
        PROVE  Posted(k, p)' = Posted(k, p) /\ Done(k)' = Done(k)
    BY <2>1 DEF Posted, Flying, Done
  <2>5. Accounted' BY <2>1, <2>2, <2>4 DEF PInv, Accounted, Settled
  <2> QED BY <1>1, <2>3, <2>5 DEF PInv
<1> QED BY <1>1, <1>2, <1>3, <1>4, <1>5 DEF Next, PInv

(* The inductive invariant: the posts of a period against the excuses. *)
THEOREM AccountsInductive == Spec => []PInv
BY PInvInit, PInvStep, PTL DEF Spec

(* No period is posted more than once but for a lost answer, a tick cut off *)
(* from its store or its process, or a clock set back: never by ticks,      *)
(* retries, restarts and reloads alone.                                     *)
THEOREM RepeatsAlwaysExplained == Spec => []RepeatsExplained
<1>1. PInv => RepeatsExplained
  <2> SUFFICES ASSUME PInv, NEW k \in Kinds, NEW p \in 0 .. MaxDay
               PROVE  received[k][p] <= 1 + excuses
    BY DEF RepeatsExplained
  <2>1. TypeOK /\ Accounted /\ excuses \in Nat BY DEF PInv, IInv, TypeOK
  <2>2. /\ Posted(k, p) = received[k][p] + Cardinality(Flying(k, p)) /\ received[k][p] \in Nat
        /\ Cardinality(Flying(k, p)) \in Nat
    BY <2>1, PostedType
  <2>3. Posted(k, p) <= excuses + 1 BY <2>1, <2>2, AccountedIs DEF Bounded
  <2> QED BY <2>1, <2>2, <2>3
<1> QED BY <1>1, AccountsInductive, PTL

=============================================================================
