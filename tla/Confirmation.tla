---------------------------- MODULE Confirmation ----------------------------
(***************************************************************************)
(* The second half of de-anchor.ts: which anchor service the configuration *)
(* selects, and its passes over the unverified checkpoints, which ask      *)
(* Digital Evidence (DE) for each of them.  DE confirms late, answers may  *)
(* come when another pass is on its way or when the service is stopped,    *)
(* and a checkpoint DE does not know is notified and remembered in the     *)
(* not-found set, in memory and in service_health.                         *)
(***************************************************************************)
EXTENDS Integers

CONSTANTS
  Ids,            (* checkpoints                                      *)
  Configs,        (* configurations: [apiKey, org, tenant, wallet]    *)
  MaxInst,        (* bound: registrations                             *)
  MaxPasses,      (* bound: passes of one registration under way      *)
  MaxMishaps      (* bound: crashes, failed calls, failed saves       *)

ASSUME ConfirmationAssumption ==
  /\ Configs \subseteq [apiKey : BOOLEAN, org : BOOLEAN, tenant : BOOLEAN,
                        wallet : {"none", "missing", "unreadable", "usable"}]
  /\ {MaxInst, MaxPasses, MaxMishaps} \subseteq Nat

VARIABLES
  config,         (* the configuration of this history                *)
  table,          (* integrity_checkpoints: pending, verified, or not there *)
  known,          (* checkpoints DE knows                             *)
  services,       (* one anchor service per registration              *)
  calls,          (* getByHash calls under way                        *)
  saved,          (* the not-found set in service_health              *)
  sent,           (* history: notifications, per checkpoint           *)
  excuses,        (* history: what may make a second one legitimate   *)
  mishaps

deVars == <<table, known>>
vars   == <<config, deVars, services, calls, saved, sent, excuses, mishaps>>

Insts == 1 .. MaxInst

(* createDeAnchorService *)
ServiceFor(c) ==
  IF c.apiKey THEN (IF c.org /\ c.tenant THEN "api" ELSE "noop")
  ELSE IF c.wallet = "usable" THEN "wallet" ELSE "noop"

IsActive == ServiceFor(config) # "noop"

Fresh == [life |-> "new", open |-> TRUE, first |-> FALSE, timer |-> FALSE, noted |-> {}]

Init ==
  /\ config \in Configs
  /\ table = [id \in Ids |-> "none"] /\ known = {}
  /\ services = [i \in Insts |-> Fresh] /\ calls = {} /\ saved = {}
  /\ sent = [id \in Ids |-> 0] /\ excuses = [id \in Ids |-> 0] /\ mishaps = 0

(***************************************************************************)
(* Around the passes: anchoring, pruning, DE.                              *)
(***************************************************************************)
InsertCheckpoint(i, id) ==
  /\ IsActive /\ services[i].life = "started" /\ services[i].open
  /\ table[id] = "none" /\ table' = [table EXCEPT ![id] = "pending"]
  /\ UNCHANGED <<config, known, services, calls, saved, sent, excuses, mishaps>>

(* A prune moves the checkpoint to checkpoint_archive. *)
Archive(id) ==
  /\ table[id] \in {"pending", "verified"} /\ table' = [table EXCEPT ![id] = "archived"]
  /\ UNCHANGED <<config, known, services, calls, saved, sent, excuses, mishaps>>

DeLearns(id) ==
  /\ table[id] # "none" /\ id \notin known /\ known' = known \cup {id}
  /\ UNCHANGED <<config, table, services, calls, saved, sent, excuses, mishaps>>

(***************************************************************************)
(* verifyCheckpoints: one call per unverified checkpoint, all at once.     *)
(***************************************************************************)
Unverified == {id \in Ids : table[id] = "pending"}
CallsOf(i) == {c \in calls : c.by = i}

PassCalls(i, n) == {[by |-> i, pass |-> n, id |-> id, answer |-> "none"] : id \in Unverified}

(* Mutant: only the pass of the start; later ticks do nothing but anchor. *)
TickAnchorsOnly(i) == services[i].timer /\ services[i].open /\ UNCHANGED vars

(* A tick of the timer, whether or not an earlier pass is over. *)
Tick(i) ==
  /\ services[i].timer /\ services[i].open
  /\ \E n \in 1 .. MaxPasses :
       /\ \A c \in CallsOf(i) : c.pass # n
       /\ calls' = calls \cup PassCalls(i, n)
  /\ UNCHANGED <<config, deVars, services, saved, sent, excuses, mishaps>>

(* DE answers with what it knows; the answer is under way from then on. *)
Serve(id) ==
  \E c \in calls :
    /\ c.id = id /\ c.answer = "none"
    /\ calls' = (calls \ {c}) \cup {[c EXCEPT !.answer = IF id \in known THEN "found" ELSE "missing"]}
    /\ UNCHANGED <<config, deVars, services, saved, sent, excuses, mishaps>>

(* persistNotFoundCheckpointIds: a store that is closed or fails is logged. *)
Save(c, noted, ok) == saved' = IF ok /\ services[c.by].open THEN noted ELSE saved

(* Mutant: the id stays in the not-found set. *)
HandleFoundKeeping(c, ok) ==
  /\ table' = [table EXCEPT ![c.id] = IF services[c.by].open /\ @ = "pending" THEN "verified" ELSE @]
  /\ UNCHANGED <<services, saved, sent, excuses>>

(* markCheckpointVerified, and the id leaves the not-found set.  On a closed *)
(* store the first throws, and the answer is lost.                           *)
HandleFound(c, ok) ==
  LET s == services[c.by]
  IN  IF ~s.open THEN UNCHANGED <<table, services, saved, sent, excuses>>
      ELSE /\ table' = [table EXCEPT ![c.id] = IF @ = "pending" THEN "verified" ELSE @]
           /\ services' = [services EXCEPT ![c.by].noted = @ \ {c.id}]
           /\ IF c.id \in s.noted THEN Save(c, s.noted \ {c.id}, ok) ELSE UNCHANGED saved
           /\ excuses' = IF ok THEN excuses ELSE [excuses EXCEPT ![c.id] = @ + 1]
           /\ UNCHANGED sent

(* A 404: once noted it is not notified again.  What makes it come twice is *)
(* a set that could not be saved, or a 404 that is out of date by now.    *)
HandleMissing(c, ok) ==
  LET s == services[c.by]
      noted == s.noted \cup {c.id}
  IN  IF c.id \in s.noted THEN UNCHANGED <<table, services, saved, sent, excuses>>
      ELSE /\ services' = [services EXCEPT ![c.by].noted = noted]
           /\ Save(c, noted, ok)
           /\ sent' = [sent EXCEPT ![c.id] = @ + 1]
           /\ excuses' = IF ok /\ s.open /\ c.id \notin known THEN excuses
                         ELSE [excuses EXCEPT ![c.id] = @ + 1]
           /\ UNCHANGED table

(* ok: service_health takes the row. *)
Answer(id) ==
  \E c \in calls, ok \in BOOLEAN :
    /\ c.id = id /\ c.answer # "none"
    /\ ok \/ mishaps < MaxMishaps
    /\ mishaps' = IF ok THEN mishaps ELSE mishaps + 1
    /\ calls' = calls \ {c}
    /\ \/ c.answer = "found" /\ HandleFound(c, ok)
       \/ c.answer = "missing" /\ HandleMissing(c, ok)
    /\ UNCHANGED <<config, known>>

(* A time-out, a network error or another status: asked again next time. *)
CallFails(id) ==
  /\ mishaps < MaxMishaps /\ mishaps' = mishaps + 1
  /\ \E c \in calls : c.id = id /\ calls' = calls \ {c}
  /\ UNCHANGED <<config, deVars, services, saved, sent, excuses>>

(***************************************************************************)
(* Life cycle.                                                             *)
(***************************************************************************)
(* Mutant: start() does not restore the not-found set. *)
RestoredNone == {}

Restored == saved

(* register() once the previous registration is gone, and start() up to its *)
(* first await: restore the set, make the first pass.                       *)
Start(i) ==
  /\ services[i].life = "new"
  /\ \A j \in 1 .. i - 1 : services[j].life = "dead" \/ ~services[j].open
  /\ services' = [services EXCEPT ![i] =
       [@ EXCEPT !.life = "started", !.first = IsActive, !.noted = IF IsActive THEN Restored ELSE {}]]
  /\ calls' = IF IsActive THEN calls \cup PassCalls(i, 1) ELSE calls
  /\ UNCHANGED <<config, deVars, saved, sent, excuses, mishaps>>

(* Once the first pass is over start() sets the timer, also if stop() has   *)
(* been called meanwhile.                                                   *)
SetTimer(i) ==
  /\ services[i].first /\ CallsOf(i) = {}
  /\ services' = [services EXCEPT ![i].first = FALSE, ![i].timer = TRUE]
  /\ UNCHANGED <<config, deVars, calls, saved, sent, excuses, mishaps>>

(* stop() clears the timer and waits for no pass. *)
Stop(i) ==
  /\ services[i].life = "started"
  /\ services' = [services EXCEPT ![i].life = "stopped", ![i].timer = FALSE]
  /\ UNCHANGED <<config, deVars, calls, saved, sent, excuses, mishaps>>

(* retention's stop(), the next but one, closes the store. *)
CloseStore(i) ==
  /\ services[i].life = "stopped" /\ services[i].open
  /\ services' = [services EXCEPT ![i].open = FALSE]
  /\ UNCHANGED <<config, deVars, calls, saved, sent, excuses, mishaps>>

(* The process dies, and with it every object and every call. *)
Crash ==
  /\ mishaps < MaxMishaps /\ mishaps' = mishaps + 1
  /\ \E i \in Insts : services[i].life = "started"
  /\ services' = [i \in Insts |-> IF services[i].life = "new" THEN services[i] ELSE [Fresh EXCEPT !.life = "dead"]]
  /\ calls' = {}
  /\ UNCHANGED <<config, deVars, saved, sent, excuses>>

Next ==
  \/ \E i \in Insts : Tick(i) \/ Start(i) \/ SetTimer(i) \/ Stop(i) \/ CloseStore(i)
  \/ \E i \in Insts, id \in Ids : InsertCheckpoint(i, id)
  \/ \E id \in Ids : Archive(id) \/ DeLearns(id) \/ Serve(id) \/ Answer(id) \/ CallFails(id)
  \/ Crash

Spec == Init /\ [][Next]_vars

(* Timers fire; every call is answered, by DE or by its time-out. *)
Fairness ==
  /\ WF_vars(\E i \in Insts : Tick(i) \/ SetTimer(i))
  /\ \A id \in Ids : WF_vars(Serve(id) \/ Answer(id))

-----------------------------------------------------------------------------
(* Properties. *)

(* "the operator gets one notification per checkpoint", across restarts and *)
(* overlapping passes: a second one needs a not-found set that could not be *)
(* saved, or a 404 handled when DE knows the checkpoint by then.            *)
NotifiedOnce == \A id \in Ids : sent[id] <= 1 + excuses[id]

(* The persisted not-found set does not keep a recovered checkpoint flagged, *)
(* with the same exceptions.                                                 *)
FlagHonest == \A id \in saved : table[id] = "verified" => excuses[id] > 0

(* While a registration keeps running, each checkpoint left unverified in   *)
(* the end is one DE does not know, and the operator has been told.         *)
Running(i) == IsActive /\ services[i].life = "started"
EachSettled ==
  <>[](\E i \in Insts : Running(i)) =>
  <>[](\A id \in Unverified : id \notin known /\ sent[id] > 0)

-----------------------------------------------------------------------------
(* The inductive invariant. *)

Services == [life : {"new", "started", "stopped", "dead"}, open : BOOLEAN,
             first : BOOLEAN, timer : BOOLEAN, noted : SUBSET Ids]
Calls    == [by : Insts, pass : Int, id : Ids, answer : {"none", "found", "missing"}]

TypeOK ==
  /\ config \in Configs /\ mishaps \in 0 .. MaxMishaps
  /\ table \in [Ids -> {"none", "pending", "verified", "archived"}]
  /\ known \in SUBSET Ids /\ saved \in SUBSET Ids
  /\ services \in [Insts -> Services] /\ calls \in SUBSET Calls
  /\ sent \in [Ids -> Nat] /\ excuses \in [Ids -> Nat]

(* A service that can still write: at most one. *)
Alive(i)  == services[i].life \in {"started", "stopped"}
Writer(i) == Alive(i) /\ services[i].open /\ IsActive
InTurn ==
  /\ \A i, j \in Insts : j < i /\ services[i].life # "new" =>
       services[j].life = "dead" \/ (services[j].life = "stopped" /\ ~services[j].open)
  /\ \A i \in Insts : ~services[i].open => services[i].life = "stopped"

(* Calls and timers belong to a service that is there; DE never forgets. *)
CallsSound ==
  /\ \A i \in Insts : services[i].first \/ services[i].timer => IsActive /\ Alive(i)
  /\ \A c \in calls : IsActive /\ Alive(c.by) /\ (c.answer = "found" => c.id \in known)
  /\ \A id \in Ids : table[id] = "verified" => id \in known

(* A checkpoint that has been notified without an excuse is one DE knows by *)
(* now, or it is in the not-found set, the saved one and the writer's.      *)
Accounted ==
  \A id \in Ids :
    \/ sent[id] <= excuses[id]
    \/ /\ sent[id] <= 1 + excuses[id]
       /\ id \in known \/ (id \in saved /\ \A i \in Insts : Writer(i) => id \in services[i].noted)

(* The saved set and the writer's agree, and neither keeps what is verified, *)
(* but for checkpoints with an excuse.                                       *)
InStep ==
  \A id \in Ids : excuses[id] = 0 =>
    /\ \A i \in Insts : Writer(i) => (id \in saved <=> id \in services[i].noted)
    /\ table[id] = "verified" => id \notin saved

IInv == TypeOK /\ InTurn /\ CallsSound /\ Accounted /\ InStep
==============================================================================
