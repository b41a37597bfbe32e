------------------------ MODULE Confirmation_proofs ------------------------
(* Theorems about Confirmation: notifications and the not-found set, for any *)
(* number of checkpoints, passes, registrations, crashes and failures.       *)
EXTENDS Confirmation, TLAPS

USE DEF Insts

LEMMA FreshService == Fresh \in Services
BY DEF Fresh, Services

(* The calls of a new pass belong to the service that makes it. *)
LEMMA PassSound ==
  ASSUME TypeOK, NEW i \in Insts, NEW n \in Int
  PROVE  /\ PassCalls(i, n) \in SUBSET Calls
         /\ \A c \in PassCalls(i, n) : c.by = i /\ c.answer = "none"
BY DEF PassCalls, Calls, Unverified, TypeOK

(* At most one service can write. *)
LEMMA OneWriter ==
  ASSUME InTurn, TypeOK, NEW i \in Insts, NEW j \in Insts, Writer(i), Writer(j)
  PROVE  i = j
<1>1. i \in Int /\ j \in Int BY ConfirmationAssumption
<1>2. ~(j < i) BY DEF InTurn, Writer, Alive
<1>3. ~(i < j) BY DEF InTurn, Writer, Alive
<1> QED BY <1>1, <1>2, <1>3

(* What neither notifies nor saves keeps the accounts, as long as no service *)
(* becomes a writer and what is newly verified is not in the saved set.      *)
LEMMA AccountsKept ==
  ASSUME IInv, UNCHANGED <<config, saved, sent, excuses>>, known \subseteq known',
         \A i \in Insts : Writer(i)' => Writer(i) /\ services'[i].noted = services[i].noted,
         \A id \in Ids : table'[id] = "verified" => table[id] = "verified"
  PROVE  Accounted' /\ InStep'
<1>1. Accounted' BY DEF IInv, Accounted
<1>2. InStep' BY DEF IInv, InStep
<1> QED BY <1>1, <1>2

LEMMA IInvInit == Init => IInv
<1> SUFFICES ASSUME Init PROVE IInv OBVIOUS
<1>1. TypeOK BY FreshService, ConfirmationAssumption DEF Init, TypeOK
<1>2. InTurn BY DEF Init, InTurn, Fresh
<1>3. CallsSound BY DEF Init, CallsSound, Fresh
<1>4. \A id \in Ids : sent[id] <= excuses[id]
  <2> SUFFICES ASSUME NEW id \in Ids PROVE sent[id] <= excuses[id] OBVIOUS
  <2>1. sent[id] = 0 /\ excuses[id] = 0 BY DEF Init
  <2>2. 0 <= 0 OBVIOUS
  <2> QED BY <2>1, <2>2
<1>5. InStep BY DEF Init, InStep, Writer, Alive, Fresh
<1> QED BY <1>1, <1>2, <1>3, <1>4, <1>5 DEF IInv, Accounted

(***************************************************************************)
(* Around the passes.                                                      *)
(***************************************************************************)
LEMMA TableStep ==
  ASSUME IInv, NEW id \in Ids, NEW v \in {"pending", "archived"},
         table' = [table EXCEPT ![id] = v],
         UNCHANGED <<config, known, services, calls, saved, sent, excuses, mishaps>>
  PROVE  IInv'
<1>1. TypeOK' BY DEF IInv, TypeOK
<1>2. InTurn' BY DEF IInv, InTurn
<1>3. \A x \in Ids : table'[x] = "verified" => table[x] = "verified" BY DEF IInv, TypeOK
<1>4. CallsSound' BY <1>3 DEF IInv, CallsSound, Alive, IsActive
<1>5. \A i \in Insts : Writer(i)' => Writer(i) BY DEF Writer, Alive, IsActive
<1>6. Accounted' /\ InStep' BY <1>3, <1>5, AccountsKept
<1> QED BY <1>1, <1>2, <1>4, <1>6 DEF IInv

LEMMA DeLearnsStep == ASSUME IInv, NEW id \in Ids, DeLearns(id) PROVE IInv'
<1> USE DEF DeLearns
<1>1. TypeOK' BY DEF IInv, TypeOK
<1>2. InTurn' BY DEF IInv, InTurn
<1>3. CallsSound' BY DEF IInv, CallsSound, Alive, IsActive
<1>4. \A i \in Insts : Writer(i)' => Writer(i) BY DEF Writer, Alive, IsActive
<1>5. Accounted' /\ InStep' BY <1>4, AccountsKept
<1> QED BY <1>1, <1>2, <1>3, <1>5 DEF IInv

(***************************************************************************)
(* The passes.                                                             *)
(***************************************************************************)
(* A step of the calls alone. *)
LEMMA CallsStep ==
  ASSUME IInv, calls' \in SUBSET Calls, mishaps' \in 0 .. MaxMishaps,
         \A c \in calls' : IsActive /\ Alive(c.by) /\ (c.answer = "found" => c.id \in known),
         UNCHANGED <<config, deVars, services, saved, sent, excuses>>
  PROVE  IInv'
<1> USE DEF deVars
<1>1. TypeOK' BY DEF IInv, TypeOK
<1>2. InTurn' BY DEF IInv, InTurn
<1>3. CallsSound' BY DEF IInv, CallsSound, Alive, IsActive
<1>4. \A i \in Insts : Writer(i)' => Writer(i) BY DEF Writer, Alive, IsActive
<1>5. Accounted' /\ InStep' BY <1>4, AccountsKept
<1> QED BY <1>1, <1>2, <1>3, <1>5 DEF IInv

LEMMA ServeStep == ASSUME IInv, NEW id \in Ids, Serve(id) PROVE IInv'
<1>1. PICK c \in calls :
        /\ c.id = id
        /\ calls' = (calls \ {c}) \cup {[c EXCEPT !.answer = IF id \in known THEN "found" ELSE "missing"]}
        /\ UNCHANGED <<config, deVars, services, saved, sent, excuses, mishaps>>
  BY DEF Serve
<1> DEFINE d == [c EXCEPT !.answer = IF id \in known THEN "found" ELSE "missing"]
<1>2. c \in Calls /\ IsActive /\ Alive(c.by) BY DEF IInv, TypeOK, CallsSound
<1>3. d \in Calls /\ d.by = c.by /\ d.id = id /\ (d.answer = "found" => id \in known)
  BY <1>1, <1>2 DEF Calls
<1>4. calls' \in SUBSET Calls BY <1>1, <1>3 DEF IInv, TypeOK
<1>5. \A x \in calls' : IsActive /\ Alive(x.by) /\ (x.answer = "found" => x.id \in known)
  BY <1>1, <1>2, <1>3 DEF IInv, CallsSound
<1>6. mishaps' \in 0 .. MaxMishaps BY <1>1 DEF IInv, TypeOK
<1> QED BY <1>1, <1>4, <1>5, <1>6, CallsStep

LEMMA TickStep == ASSUME IInv, NEW i \in Insts, Tick(i) PROVE IInv'
<1>1. PICK n \in 1 .. MaxPasses : calls' = calls \cup PassCalls(i, n) BY DEF Tick
<1>2. n \in Int /\ TypeOK BY ConfirmationAssumption DEF IInv
<1>3. calls' \in SUBSET Calls BY <1>1, <1>2, PassSound DEF TypeOK
<1>4. IsActive /\ Alive(i) BY DEF IInv, CallsSound, Tick
<1>5. \A c \in calls' : IsActive /\ Alive(c.by) /\ (c.answer = "found" => c.id \in known)
  BY <1>1, <1>2, <1>4, PassSound DEF IInv, CallsSound
<1>6. mishaps' \in 0 .. MaxMishaps BY DEF IInv, TypeOK, Tick
<1> QED BY <1>3, <1>5, <1>6, CallsStep DEF Tick

LEMMA CallFailsStep == ASSUME IInv, NEW id \in Ids, CallFails(id) PROVE IInv'
<1> USE DEF CallFails
<1>1. calls' \in SUBSET Calls /\ calls' \subseteq calls BY DEF IInv, TypeOK
<1>2. \A c \in calls' : IsActive /\ Alive(c.by) /\ (c.answer = "found" => c.id \in known)
  BY <1>1 DEF IInv, CallsSound
<1>3. mishaps' \in 0 .. MaxMishaps BY ConfirmationAssumption DEF IInv, TypeOK
<1> QED BY <1>1, <1>2, <1>3, CallsStep

(* An answer that the confirmation is found: the id leaves both sets, or    *)
(* gets an excuse, and DE knows it from now on.                             *)
LEMMA FoundStep ==
  ASSUME IInv, NEW c \in calls, NEW ok \in BOOLEAN, c.answer = "found", HandleFound(c, ok),
         calls' = calls \ {c}, mishaps' \in 0 .. MaxMishaps, UNCHANGED <<config, known>>
  PROVE  IInv'
<1> DEFINE i == c.by  id == c.id
<1>1. i \in Insts /\ id \in Ids /\ id \in known /\ Alive(i) /\ IsActive
  BY DEF IInv, TypeOK, Calls, CallsSound
<1>2. CASE ~services[i].open
  <2>1. UNCHANGED <<table, services, saved, sent, excuses>> BY <1>2 DEF HandleFound
  <2>2. calls' \in SUBSET Calls BY DEF IInv, TypeOK
  <2>3. \A x \in calls' : IsActive /\ Alive(x.by) /\ (x.answer = "found" => x.id \in known)
    BY DEF IInv, CallsSound
  <2> QED BY <2>1, <2>2, <2>3, CallsStep DEF deVars
<1>3. CASE services[i].open
  <2> DEFINE less == services[i].noted \ {id}
  <2>1. /\ table' = [table EXCEPT ![id] = IF @ = "pending" THEN "verified" ELSE @]
        /\ services' = [services EXCEPT ![i].noted = less]
        /\ saved' = IF id \in services[i].noted /\ ok THEN less ELSE saved
        /\ excuses' = IF ok THEN excuses ELSE [excuses EXCEPT ![id] = @ + 1]
        /\ UNCHANGED sent
    BY <1>3 DEF HandleFound, Save
  <2>2. /\ services' \in [Insts -> Services] /\ services'[i].noted = less
        /\ \A j \in Insts : /\ services'[j].life = services[j].life
                            /\ services'[j].open = services[j].open
                            /\ services'[j].first = services[j].first
                            /\ services'[j].timer = services[j].timer
                            /\ j # i => services'[j].noted = services[j].noted
    BY <1>1, <2>1 DEF IInv, TypeOK, Services
  <2>3. saved' \in SUBSET Ids BY <1>1, <2>1 DEF IInv, TypeOK, Services
  <2>4. TypeOK'
    <3>1. table' \in [Ids -> {"none", "pending", "verified", "archived"}]
      BY <2>1 DEF IInv, TypeOK
    <3>2. excuses \in [Ids -> Nat] BY DEF IInv, TypeOK
    <3>3. [excuses EXCEPT ![id] = @ + 1] \in [Ids -> Nat] BY <1>1, <3>2
    <3>4. excuses' \in [Ids -> Nat] BY <2>1, <3>2, <3>3
    <3> QED BY <2>1, <2>2, <2>3, <3>1, <3>4 DEF IInv, TypeOK
  <2>5. InTurn' BY <2>2 DEF IInv, InTurn
  <2>6. \A j \in Insts : Alive(j)' = Alive(j) BY <2>2 DEF Alive
  <2>7. \A x \in Ids : table'[x] = "verified" => table[x] = "verified" \/ x = id
    BY <2>1 DEF IInv, TypeOK
  <2>8. CallsSound'
    <3>1. \A x \in calls : x.by \in Insts BY DEF IInv, TypeOK, Calls
    <3> QED BY <1>1, <2>2, <2>6, <2>7, <3>1 DEF IInv, CallsSound, IsActive
  <2>9. \A j \in Insts : Writer(j)' => j = i /\ Writer(j)
    <3>1. Writer(i) BY <1>1, <1>3 DEF Writer
    <3>2. \A j \in Insts : Writer(j)' => Writer(j) BY <2>2, <2>6 DEF Writer, IsActive
    <3> QED BY <1>1, <3>1, <3>2, OneWriter DEF IInv
  <2>10. Writer(i) BY <1>1, <1>3 DEF Writer
  <2>11. \A x \in Ids : excuses'[x] \in Nat /\ excuses[x] \in Nat /\ sent[x] \in Nat
                        /\ excuses[x] <= excuses'[x] /\ (x # id => excuses'[x] = excuses[x])
    BY <2>1 DEF IInv, TypeOK
  <2>12. Accounted'
    <3> SUFFICES ASSUME NEW x \in Ids, ~(sent[x] <= excuses'[x])
                 PROVE  /\ sent[x] <= 1 + excuses'[x]
                        /\ \/ x \in known
                           \/ x \in saved' /\ \A j \in Insts : Writer(j)' => x \in services'[j].noted
      BY <2>1 DEF Accounted
    <3>1. ~(sent[x] <= excuses[x]) BY <2>11
    <3>2. sent[x] <= 1 + excuses'[x] BY <2>11, <3>1 DEF IInv, Accounted
    <3>3. CASE x = id BY <1>1, <3>2, <3>3
    <3>4. CASE x # id
      <4>1. x \in known \/ (x \in saved /\ x \in services[i].noted)
        BY <1>1, <2>10, <3>1 DEF IInv, Accounted
      <4> QED BY <2>1, <2>2, <2>9, <3>2, <3>4, <4>1
    <3> QED BY <3>3, <3>4
  <2>13. InStep'
    <3> SUFFICES ASSUME NEW x \in Ids, excuses'[x] = 0
                 PROVE  /\ \A j \in Insts : Writer(j)' => (x \in saved' <=> x \in services'[j].noted)
                        /\ table'[x] = "verified" => x \notin saved'
      BY DEF InStep
    <3>1. excuses[x] = 0 BY <2>11
    <3>2. x \in saved <=> x \in services[i].noted BY <1>1, <2>10, <3>1 DEF IInv, InStep
    <3>3. CASE x = id
      <4>1. ok BY <2>1, <2>11, <3>1, <3>3 DEF IInv, TypeOK
      <4>2. id \notin saved' BY <2>1, <3>2, <3>3, <4>1
      <4> QED BY <2>2, <2>9, <3>3, <4>2
    <3>4. CASE x # id
      <4>1. x \in saved' <=> x \in less BY <2>1, <3>2, <3>4
      <4>2. table[x] = "verified" => x \notin saved BY <3>1 DEF IInv, InStep
      <4> QED BY <2>2, <2>7, <2>9, <3>2, <3>4, <4>1, <4>2
    <3> QED BY <3>3, <3>4
  <2> QED BY <2>4, <2>5, <2>8, <2>12, <2>13 DEF IInv
<1> QED BY <1>2, <1>3

(* A 404: the id gets an excuse, or it was in neither set and enters both.  *)
LEMMA MissingStep ==
  ASSUME IInv, NEW c \in calls, NEW ok \in BOOLEAN, HandleMissing(c, ok),
         calls' = calls \ {c}, mishaps' \in 0 .. MaxMishaps, UNCHANGED <<config, known>>
  PROVE  IInv'
<1> DEFINE i == c.by  id == c.id
<1>1. i \in Insts /\ id \in Ids /\ Alive(i) /\ IsActive
  BY DEF IInv, TypeOK, Calls, CallsSound
<1>2. calls' \in SUBSET Calls BY DEF IInv, TypeOK
<1>3. CASE id \in services[i].noted
  <2>1. UNCHANGED <<table, services, saved, sent, excuses>> BY <1>3 DEF HandleMissing
  <2>2. \A x \in calls' : IsActive /\ Alive(x.by) /\ (x.answer = "found" => x.id \in known)
    BY DEF IInv, CallsSound
  <2> QED BY <1>2, <2>1, <2>2, CallsStep DEF deVars
<1>4. CASE id \notin services[i].noted
  <2> DEFINE more  == services[i].noted \cup {id}
             clean == ok /\ services[i].open /\ id \notin known
  <2>1. /\ services' = [services EXCEPT ![i].noted = more]
        /\ saved' = IF ok /\ services[i].open THEN more ELSE saved
        /\ sent' = [sent EXCEPT ![id] = @ + 1]
        /\ excuses' = IF clean THEN excuses ELSE [excuses EXCEPT ![id] = @ + 1]
        /\ UNCHANGED table
    BY <1>4 DEF HandleMissing, Save
  <2>2. /\ services' \in [Insts -> Services] /\ services'[i].noted = more
        /\ \A j \in Insts : /\ services'[j].life = services[j].life
                            /\ services'[j].open = services[j].open
                            /\ services'[j].first = services[j].first
                            /\ services'[j].timer = services[j].timer
                            /\ j # i => services'[j].noted = services[j].noted
    <3>1. services \in [Insts -> Services] /\ more \in SUBSET Ids
      BY <1>1 DEF IInv, TypeOK, Services
    <3>2. [services[i] EXCEPT !.noted = more] \in Services BY <1>1, <3>1 DEF Services
    <3> QED BY <1>1, <2>1, <3>1, <3>2 DEF Services
  <2>3. TypeOK'
    <3>1. sent \in [Ids -> Nat] /\ excuses \in [Ids -> Nat] BY DEF IInv, TypeOK
    <3>2. sent' \in [Ids -> Nat] BY <1>1, <2>1, <3>1
    <3>3. [excuses EXCEPT ![id] = @ + 1] \in [Ids -> Nat] BY <1>1, <3>1
    <3>4. excuses' \in [Ids -> Nat] BY <2>1, <3>1, <3>3
    <3>5. saved' \in SUBSET Ids BY <1>1, <2>1 DEF IInv, TypeOK, Services
    <3> QED BY <1>2, <2>1, <2>2, <3>2, <3>4, <3>5 DEF IInv, TypeOK
  <2>4. InTurn' BY <2>2 DEF IInv, InTurn
  <2>5. \A j \in Insts : Alive(j)' = Alive(j) BY <2>2 DEF Alive
  <2>6. CallsSound'
    <3>1. \A x \in calls : x.by \in Insts BY DEF IInv, TypeOK, Calls
    <3> QED BY <2>1, <2>2, <2>5, <3>1 DEF IInv, CallsSound, IsActive
  <2>7. \A j \in Insts : Writer(j)' = Writer(j) BY <2>2, <2>5 DEF Writer, IsActive
  <2>8. \A j \in Insts : services[j].noted \subseteq services'[j].noted BY <1>1, <2>1, <2>2
  <2>9. services[i].open => Writer(i) /\ \A j \in Insts : Writer(j) => j = i
    BY <1>1, OneWriter DEF IInv, Writer
  <2>10. \A x \in Ids : x # id => sent'[x] = sent[x] /\ excuses'[x] = excuses[x]
    BY <2>1 DEF IInv, TypeOK
  <2>11. /\ sent[id] \in Nat /\ excuses[id] \in Nat /\ sent'[id] = sent[id] + 1
         /\ excuses'[id] = IF clean THEN excuses[id] ELSE excuses[id] + 1
    BY <1>1, <2>1 DEF IInv, TypeOK
  <2>12. Accounted'
    <3> SUFFICES ASSUME NEW x \in Ids, ~(sent'[x] <= excuses'[x])
                 PROVE  /\ sent'[x] <= 1 + excuses'[x]
                        /\ \/ x \in known
                           \/ x \in saved' /\ \A j \in Insts : Writer(j)' => x \in services'[j].noted
      BY DEF Accounted
    <3>1. CASE x = id /\ clean
      <4>1. sent[id] <= excuses[id] BY <1>1, <1>4, <2>9, <3>1 DEF IInv, Accounted
      <4>2. sent'[id] <= 1 + excuses'[id] BY <2>11, <3>1, <4>1
      <4>3. id \in saved' /\ \A j \in Insts : Writer(j)' => id \in services'[j].noted
        BY <2>1, <2>2, <2>7, <2>9, <3>1
      <4> QED BY <3>1, <4>2, <4>3
    <3>2. CASE x = id /\ ~clean
      <4>1. ~(sent[id] <= excuses[id]) BY <2>11, <3>2
      <4>2. /\ sent[id] <= 1 + excuses[id]
            /\ id \in known \/ (id \in saved /\ \A j \in Insts : Writer(j) => id \in services[j].noted)
        BY <1>1, <4>1 DEF IInv, Accounted
      <4>3. sent'[id] <= 1 + excuses'[id] BY <2>11, <3>2, <4>2
      <4>4. id \in saved => id \in saved' BY <2>1
      <4> QED BY <2>7, <2>8, <3>2, <4>2, <4>3, <4>4
    <3>3. CASE x # id
      <4>1. /\ sent[x] <= 1 + excuses[x]
            /\ x \in known \/ (x \in saved /\ \A j \in Insts : Writer(j) => x \in services[j].noted)
        BY <2>10, <3>3 DEF IInv, Accounted
      <4>2. x \in known \/ x \in saved' BY <1>1, <2>1, <2>9, <4>1
      <4> QED BY <2>7, <2>8, <2>10, <3>3, <4>1, <4>2
    <3> QED BY <3>1, <3>2, <3>3
  <2>13. InStep'
    <3> SUFFICES ASSUME NEW x \in Ids, excuses'[x] = 0
                 PROVE  /\ \A j \in Insts : Writer(j)' => (x \in saved' <=> x \in services'[j].noted)
                        /\ table'[x] = "verified" => x \notin saved'
      BY DEF InStep
    <3>1. CASE x = id
      <4>1. clean BY <2>11, <3>1
      <4>2. table[id] # "verified" BY <1>1, <4>1 DEF IInv, CallsSound
      <4> QED BY <2>1, <2>2, <2>7, <2>9, <3>1, <4>1, <4>2
    <3>2. CASE x # id
      <4>1. /\ \A j \in Insts : Writer(j) => (x \in saved <=> x \in services[j].noted)
            /\ table[x] = "verified" => x \notin saved
        BY <2>10, <3>2 DEF IInv, InStep
      <4>2. \A j \in Insts : x \in services'[j].noted <=> x \in services[j].noted
        BY <1>1, <2>2, <3>2
      <4>3. x \in saved' <=> x \in saved BY <1>1, <2>1, <2>9, <3>2, <4>1
      <4> QED BY <2>1, <2>7, <4>1, <4>2, <4>3
    <3> QED BY <3>1, <3>2
  <2> QED BY <2>3, <2>4, <2>6, <2>12, <2>13 DEF IInv
<1> QED BY <1>3, <1>4

LEMMA AnswerStep == ASSUME IInv, NEW id \in Ids, Answer(id) PROVE IInv'
<1>1. PICK c \in calls, ok \in BOOLEAN :
        /\ ok \/ mishaps < MaxMishaps
        /\ mishaps' = IF ok THEN mishaps ELSE mishaps + 1
        /\ calls' = calls \ {c}
        /\ \/ c.answer = "found" /\ HandleFound(c, ok)
           \/ c.answer = "missing" /\ HandleMissing(c, ok)
        /\ UNCHANGED <<config, known>>
  BY DEF Answer
<1>2. mishaps' \in 0 .. MaxMishaps BY <1>1, ConfirmationAssumption DEF IInv, TypeOK
<1>3. CASE c.answer = "found" /\ HandleFound(c, ok) BY <1>1, <1>2, <1>3, FoundStep
<1>4. CASE c.answer = "missing" /\ HandleMissing(c, ok) BY <1>1, <1>2, <1>4, MissingStep
<1> QED BY <1>1, <1>3, <1>4

(***************************************************************************)
(* Life cycle.                                                             *)
(***************************************************************************)
LEMMA StartStep == ASSUME IInv, NEW i \in Insts, Start(i) PROVE IInv'
<1> DEFINE first == IF IsActive THEN saved ELSE {}
<1>1. /\ services' = [services EXCEPT ![i] =
           [@ EXCEPT !.life = "started", !.first = IsActive, !.noted = first]]
      /\ calls' = IF IsActive THEN calls \cup PassCalls(i, 1) ELSE calls
      /\ UNCHANGED <<config, deVars, saved, sent, excuses, mishaps>>
  BY DEF Start, Restored
<1>2. first \in SUBSET Ids /\ IsActive \in BOOLEAN BY DEF IInv, TypeOK, IsActive
<1>3. /\ services' \in [Insts -> Services] /\ services'[i].noted = first
      /\ services'[i].life = "started" /\ services'[i].open = services[i].open
      /\ services'[i].first => IsActive
      /\ services'[i].timer = services[i].timer
      /\ \A j \in Insts : j # i => services'[j] = services[j]
  BY <1>1, <1>2 DEF IInv, TypeOK, Services
<1>4. PassCalls(i, 1) \in SUBSET Calls /\ \A c \in PassCalls(i, 1) : c.by = i /\ c.answer = "none"
  BY PassSound DEF IInv
<1>5. TypeOK' BY <1>1, <1>3, <1>4 DEF IInv, TypeOK, deVars
<1>6. InTurn'
  <2>1. \A j \in Insts : j < i =>
          services[j].life = "dead" \/ (services[j].life = "stopped" /\ ~services[j].open)
    <3> SUFFICES ASSUME NEW j \in Insts, j < i
                 PROVE  services[j].life = "dead" \/ (services[j].life = "stopped" /\ ~services[j].open)
      OBVIOUS
    <3>1. j \in 1 .. i - 1 BY ConfirmationAssumption
    <3> QED BY <3>1 DEF IInv, InTurn, Start
  <2>2. \A j \in Insts : i < j => services[j].life = "new" BY DEF IInv, InTurn, Start
  <2>3. services[i].open BY DEF IInv, InTurn, Start
  <2>4. ASSUME NEW x \in Insts, NEW j \in Insts, j < x, services'[x].life # "new"
        PROVE  services'[j].life = "dead" \/ (services'[j].life = "stopped" /\ ~services'[j].open)
    <3>1. j # i
      <4> SUFFICES ASSUME j = i PROVE FALSE OBVIOUS
      <4>1. x # i BY <2>4, ConfirmationAssumption
      <4>2. services[x].life = "new" BY <2>2, <2>4
      <4> QED BY <1>3, <2>4, <4>1, <4>2
    <3>2. CASE x = i BY <1>3, <2>1, <2>4, <3>1, <3>2
    <3>3. CASE x # i BY <1>3, <2>4, <3>1, <3>3 DEF IInv, InTurn
    <3> QED BY <3>2, <3>3
  <2>5. \A x \in Insts : ~services'[x].open => services'[x].life = "stopped"
    BY <1>3, <2>3 DEF IInv, InTurn
  <2> QED BY <2>4, <2>5 DEF InTurn
<1>7. \A j \in Insts : Alive(j)' <=> (j = i \/ Alive(j)) BY <1>3 DEF Alive
<1>8. CallsSound'
  <2>1. \A x \in calls : x.by \in Insts BY DEF IInv, TypeOK, Calls
  <2>2. \A c \in calls' : IsActive' /\ Alive(c.by)' /\ (c.answer = "found" => c.id \in known')
    BY <1>1, <1>4, <1>7, <2>1 DEF IInv, CallsSound, IsActive, deVars
  <2>3. \A j \in Insts : services'[j].first \/ services'[j].timer => IsActive' /\ Alive(j)'
    BY <1>1, <1>3, <1>7 DEF IInv, CallsSound, IsActive
  <2> QED BY <1>1, <2>2, <2>3 DEF IInv, CallsSound, deVars
<1>9. \A j \in Insts : Writer(j)' => \/ j = i /\ services'[j].noted = saved
                                     \/ Writer(j) /\ services'[j].noted = services[j].noted
  <2>1. IsActive' = IsActive BY <1>1 DEF IsActive
  <2>2. ASSUME NEW j \in Insts, Writer(j)', j = i PROVE services'[j].noted = saved
    BY <1>3, <2>1, <2>2 DEF Writer
  <2>3. ASSUME NEW j \in Insts, Writer(j)', j # i
        PROVE  Writer(j) /\ services'[j].noted = services[j].noted
    BY <1>3, <1>7, <2>1, <2>3 DEF Writer
  <2> QED BY <2>2, <2>3
<1>10. Accounted' BY <1>1, <1>9 DEF IInv, Accounted, deVars
<1>11. InStep' BY <1>1, <1>9 DEF IInv, InStep, deVars
<1> QED BY <1>5, <1>6, <1>8, <1>10, <1>11 DEF IInv

LEMMA SetTimerStep == ASSUME IInv, NEW i \in Insts, SetTimer(i) PROVE IInv'
<1> USE DEF SetTimer
<1>1. /\ services' \in [Insts -> Services]
      /\ \A j \in Insts : /\ services'[j].life = services[j].life
                          /\ services'[j].open = services[j].open
                          /\ services'[j].noted = services[j].noted
                          /\ j # i => services'[j] = services[j]
  BY DEF IInv, TypeOK, Services
<1>2. TypeOK' BY <1>1 DEF IInv, TypeOK, deVars
<1>3. InTurn' BY <1>1 DEF IInv, InTurn
<1>4. \A j \in Insts : Alive(j)' = Alive(j) BY <1>1 DEF Alive
<1>5. CallsSound'
  <2>1. \A x \in calls : x.by \in Insts BY DEF IInv, TypeOK, Calls
  <2>2. IsActive /\ Alive(i) BY DEF IInv, CallsSound
  <2> QED BY <1>1, <1>4, <2>1, <2>2 DEF IInv, CallsSound, IsActive, deVars
<1>6. Accounted' /\ InStep' BY <1>1, <1>4, AccountsKept DEF Writer, IsActive, deVars
<1> QED BY <1>2, <1>3, <1>5, <1>6 DEF IInv

LEMMA StopStep == ASSUME IInv, NEW i \in Insts, Stop(i) PROVE IInv'
<1> USE DEF Stop
<1>1. /\ services' \in [Insts -> Services] /\ services'[i].life = "stopped"
      /\ services'[i].timer = FALSE /\ services'[i].first = services[i].first
      /\ \A j \in Insts : /\ services'[j].open = services[j].open
                          /\ services'[j].noted = services[j].noted
                          /\ j # i => services'[j] = services[j]
  BY DEF IInv, TypeOK, Services
<1>2. TypeOK' BY <1>1 DEF IInv, TypeOK, deVars
<1>3. InTurn'
  <2>1. services[i].open BY DEF IInv, InTurn
  <2> QED BY <1>1, <2>1 DEF IInv, InTurn
<1>4. \A j \in Insts : Alive(j)' = Alive(j) BY <1>1 DEF Alive
<1>5. CallsSound'
  <2>1. \A x \in calls : x.by \in Insts BY DEF IInv, TypeOK, Calls
  <2> QED BY <1>1, <1>4, <2>1 DEF IInv, CallsSound, IsActive, deVars
<1>6. Accounted' /\ InStep' BY <1>1, <1>4, AccountsKept DEF Writer, IsActive, deVars
<1> QED BY <1>2, <1>3, <1>5, <1>6 DEF IInv

LEMMA CloseStoreStep == ASSUME IInv, NEW i \in Insts, CloseStore(i) PROVE IInv'
<1> USE DEF CloseStore
<1>1. /\ services' \in [Insts -> Services] /\ services'[i].open = FALSE
      /\ \A j \in Insts : /\ services'[j].life = services[j].life
                          /\ services'[j].noted = services[j].noted
                          /\ services'[j].first = services[j].first
                          /\ services'[j].timer = services[j].timer
                          /\ j # i => services'[j] = services[j]
  BY DEF IInv, TypeOK, Services
<1>2. TypeOK' BY <1>1 DEF IInv, TypeOK, deVars
<1>3. InTurn' BY <1>1 DEF IInv, InTurn
<1>4. \A j \in Insts : Alive(j)' = Alive(j) BY <1>1 DEF Alive
<1>5. CallsSound'
  <2>1. \A x \in calls : x.by \in Insts BY DEF IInv, TypeOK, Calls
  <2> QED BY <1>1, <1>4, <2>1 DEF IInv, CallsSound, IsActive, deVars
<1>6. Accounted' /\ InStep' BY <1>1, <1>4, AccountsKept DEF Writer, IsActive, deVars
<1> QED BY <1>2, <1>3, <1>5, <1>6 DEF IInv

LEMMA CrashStep == ASSUME IInv, Crash PROVE IInv'
<1> USE DEF Crash
<1>1. [Fresh EXCEPT !.life = "dead"] \in Services BY DEF Fresh, Services
<1>2. \A j \in Insts : \/ services[j].life = "new" /\ services'[j] = services[j]
                       \/ services[j].life # "new" /\ services'[j] = [Fresh EXCEPT !.life = "dead"]
  OBVIOUS
<1>3. TypeOK'
  <2>1. services' \in [Insts -> Services] BY <1>1 DEF IInv, TypeOK
  <2>2. mishaps' \in 0 .. MaxMishaps BY ConfirmationAssumption DEF IInv, TypeOK
  <2> QED BY <2>1, <2>2 DEF IInv, TypeOK, deVars
<1>4. \A j \in Insts : services'[j].life \in {"new", "dead"} /\ services'[j].open
  BY <1>2 DEF Fresh, IInv, InTurn
<1>5. InTurn' BY <1>2, <1>4 DEF IInv, InTurn, Fresh
<1>6. \A j \in Insts : ~Alive(j)' BY <1>4 DEF Alive
<1>7. CallsSound'
  <2>1. \A j \in Insts : ~services'[j].first /\ ~services'[j].timer
    BY <1>2 DEF IInv, CallsSound, Alive, Fresh
  <2> QED BY <2>1 DEF IInv, CallsSound, deVars
<1>8. Accounted' /\ InStep' BY <1>6, AccountsKept DEF Writer, deVars
<1> QED BY <1>3, <1>5, <1>7, <1>8 DEF IInv

(* No step leaves the invariant. *)
LEMMA IInvStep == ASSUME IInv, [Next]_vars PROVE IInv'
<1>1. ASSUME NEW i \in Insts, NEW id \in Ids, InsertCheckpoint(i, id) PROVE IInv'
  BY <1>1, TableStep DEF InsertCheckpoint
<1>2. ASSUME NEW id \in Ids, Archive(id) PROVE IInv' BY <1>2, TableStep DEF Archive
<1>3. CASE UNCHANGED vars
  <2>1. calls' \in SUBSET Calls /\ mishaps' \in 0 .. MaxMishaps
    BY <1>3 DEF IInv, TypeOK, vars
  <2>2. \A c \in calls' : IsActive /\ Alive(c.by) /\ (c.answer = "found" => c.id \in known)
    BY <1>3 DEF IInv, CallsSound, vars
  <2> QED BY <1>3, <2>1, <2>2, CallsStep DEF vars
<1> QED BY <1>1, <1>2, <1>3, DeLearnsStep, TickStep, ServeStep, AnswerStep, CallFailsStep,
           StartStep, SetTimerStep, StopStep, CloseStoreStep, CrashStep DEF Next

(* The invariant of the not-found set: notifications and excuses balance.   *)
THEOREM Inductive == Spec => []IInv
<1>1. Init => IInv BY IInvInit
<1>2. IInv /\ [Next]_vars => IInv' BY IInvStep
<1> QED BY <1>1, <1>2, PTL DEF Spec

(* One notification per checkpoint, whatever passes overlap and processes   *)
(* restart, but for the named excuses (de-anchor.ts, the not-found set).    *)
THEOREM OneNotification == Spec => []NotifiedOnce
<1>1. IInv => NotifiedOnce
  <2> SUFFICES ASSUME IInv, NEW id \in Ids PROVE sent[id] <= 1 + excuses[id]
    BY DEF NotifiedOnce
  <2>1. sent[id] \in Nat /\ excuses[id] \in Nat BY DEF IInv, TypeOK
  <2> QED BY <2>1 DEF IInv, Accounted
<1> QED BY <1>1, Inductive, PTL

(* A recovered checkpoint does not stay in the saved not-found set, with    *)
(* the same exceptions.                                                     *)
THEOREM NoStaleFlag == Spec => []FlagHonest
<1>1. IInv => FlagHonest
  <2> SUFFICES ASSUME IInv, NEW id \in saved, table[id] = "verified" PROVE excuses[id] > 0
    BY DEF FlagHonest
  <2>1. id \in Ids /\ excuses[id] \in Nat BY DEF IInv, TypeOK
  <2>2. excuses[id] # 0 BY <2>1 DEF IInv, InStep
  <2> QED BY <2>1, <2>2
<1> QED BY <1>1, Inductive, PTL
=============================================================================
