-------------------------- MODULE Watchers_proofs --------------------------
(* Theorems about Watchers, for any paths, roots, contents, number of       *)
(* changes on disk and number of crashes, lost events and failed writes.    *)
EXTENDS Watchers, FiniteSetTheorems, SequenceTheorems, WellFoundedInduction, TLAPS

Hash == Contents \cup {Gone}

(***************************************************************************)
(* What a log says.                                                        *)
(***************************************************************************)
(* Only the changes of a path matter to what is said of it. *)
LEMMA SaysByChanges ==
  ASSUME NEW log, NEW log2, NEW n, NEW m, NEW p, NEW h,
         Changes(log, n, p) = Changes(log2, m, p),
         \A i \in Changes(log, n, p) : log2[i] = log[i]
  PROVE  Says(log, n, p, h) <=> Says(log2, m, p, h)
<1> DEFINE S == Changes(log, n, p)
<1>1. Changes(log2, m, p) = S /\ \A i \in S : log2[i] = log[i] OBVIOUS
<1> HIDE DEF S
<1>2. Says(log, n, p, h) <=>
        IF S = {} THEN h = Gone ELSE \E i \in S : (\A j \in S : j <= i) /\ h = After(log[i])
  BY DEF Says, S
<1>3. Says(log2, m, p, h) <=>
        IF S = {} THEN h = Gone ELSE \E i \in S : (\A j \in S : j <= i) /\ h = After(log2[i])
  BY <1>1 DEF Says
<1> QED BY <1>1, <1>2, <1>3

LEMMA AppendAt ==
  ASSUME NEW log \in Seq(Events), NEW e \in Events
  PROVE  /\ Append(log, e) \in Seq(Events)
         /\ Len(log) \in Nat /\ Len(Append(log, e)) = Len(log) + 1
         /\ \A i \in 1 .. Len(log) : Append(log, e)[i] = log[i]
         /\ Append(log, e)[Len(log) + 1] = e
OBVIOUS

(* An event more does not alter what the ones before it say. *)
LEMMA SaysBefore ==
  ASSUME NEW log \in Seq(Events), NEW e \in Events, NEW n \in 0 .. Len(log), NEW p, NEW h
  PROVE  Says(log, n, p, h) <=> Says(Append(log, e), n, p, h)
<1>1. \A i \in 1 .. n : i \in 1 .. Len(log) BY AppendAt
<1>2. \A i \in 1 .. n : Append(log, e)[i] = log[i] BY <1>1, AppendAt
<1>3. Changes(log, n, p) = Changes(Append(log, e), n, p) BY <1>2 DEF Changes
<1>4. \A i \in Changes(log, n, p) : Append(log, e)[i] = log[i] BY <1>2 DEF Changes
<1> QED BY <1>3, <1>4, SaysByChanges

(* A change of p says what p has become. *)
LEMMA SaysChange ==
  ASSUME NEW log \in Seq(Events), NEW e \in Events, e.type # "scan"
  PROVE  Says(Append(log, e), Len(Append(log, e)), e.path, After(e))
<1> DEFINE new == Append(log, e)
           S   == Changes(new, Len(new), e.path)
<1>1. Len(new) \in Nat /\ Len(new) > 0 /\ new[Len(new)] = e BY AppendAt
<1>2. Len(new) \in S BY <1>1 DEF Changes
<1>3. \A j \in S : j <= Len(new) BY <1>1 DEF Changes
<1>4. S # {} BY <1>2
<1> HIDE DEF new, S
<1>5. Says(new, Len(new), e.path, After(e)) <=>
        IF S = {} THEN After(e) = Gone
        ELSE \E i \in S : (\A j \in S : j <= i) /\ After(e) = After(new[i])
  BY DEF Says, S
<1>6. Says(new, Len(new), e.path, After(e)) BY <1>1, <1>2, <1>3, <1>4, <1>5
<1> QED BY <1>6 DEF new

(* Any other event says nothing new of p. *)
LEMMA SaysNothing ==
  ASSUME NEW log \in Seq(Events), NEW e \in Events, NEW p, NEW h, e.path # p \/ e.type = "scan"
  PROVE  Says(log, Len(log), p, h) <=> Says(Append(log, e), Len(Append(log, e)), p, h)
<1> DEFINE new == Append(log, e)
<1>1. /\ Len(log) \in Nat /\ Len(new) = Len(log) + 1 /\ new[Len(log) + 1] = e
      /\ \A i \in 1 .. Len(log) : new[i] = log[i]
  BY AppendAt
<1> HIDE DEF new
<1>2. \A i \in 1 .. Len(new) : i \in 1 .. Len(log) \/ i = Len(log) + 1 BY <1>1
<1>3. \A i \in 1 .. Len(log) : i \in 1 .. Len(new) BY <1>1
<1>4. Changes(log, Len(log), p) = Changes(new, Len(new), p)
  BY <1>1, <1>2, <1>3 DEF Changes
<1>5. \A i \in Changes(log, Len(log), p) : new[i] = log[i] BY <1>1 DEF Changes
<1>6. Says(log, Len(log), p, h) <=> Says(new, Len(new), p, h) BY <1>4, <1>5, SaysByChanges
<1> QED BY <1>6 DEF new

(* The chain goes on if the event starts from what the log says. *)
LEMMA ChainedOn ==
  ASSUME NEW log \in Seq(Events), NEW e \in Events, NEW p, Chained(log, p),
         e.path = p /\ e.type # "scan" => Says(log, Len(log), p, e.prev)
  PROVE  Chained(Append(log, e), p)
<1> DEFINE new == Append(log, e)
<1>1. /\ Len(log) \in Nat /\ Len(new) = Len(log) + 1 /\ new[Len(log) + 1] = e
      /\ \A i \in 1 .. Len(log) : new[i] = log[i]
  BY AppendAt
<1>2. SUFFICES ASSUME NEW i \in Changes(new, Len(new), p)
               PROVE  Says(new, i - 1, p, new[i].prev)
  BY DEF Chained
<1>3. CASE i \in 1 .. Len(log)
  <2>1. i \in Changes(log, Len(log), p) BY <1>1, <1>2, <1>3 DEF Changes
  <2>2. Says(log, i - 1, p, log[i].prev) BY <2>1 DEF Chained
  <2>3. i - 1 \in 0 .. Len(log) BY <1>1, <1>3
  <2> QED BY <1>1, <1>3, <2>2, <2>3, SaysBefore
<1>4. CASE i = Len(log) + 1
  <2>1. e.path = p /\ e.type # "scan" BY <1>1, <1>2, <1>4 DEF Changes
  <2>2. i - 1 = Len(log) /\ Len(log) \in 0 .. Len(log) BY <1>1, <1>4
  <2> QED BY <1>1, <1>4, <2>1, <2>2, SaysBefore
<1>5. i \in 1 .. Len(log) \/ i = Len(log) + 1
  <2>1. i \in 1 .. Len(new) BY <1>2 DEF Changes
  <2> HIDE DEF new
  <2> QED BY <1>1, <2>1
<1> QED BY <1>3, <1>4, <1>5

(* A buffer that holds nothing of p may be dropped. *)
LEMMA DropBuffer ==
  ASSUME NEW r \in Seq(Events), NEW b \in Seq(Events), NEW p,
         \A i \in DOMAIN b : b[i].path # p
  PROVE  /\ \A h : Says(r \o b, Len(r \o b), p, h) => Says(r, Len(r), p, h)
         /\ Chained(r \o b, p) => Chained(r, p)
<1> DEFINE log == r \o b
<1>1. /\ Len(r) \in Nat /\ Len(b) \in Nat /\ Len(log) = Len(r) + Len(b)
      /\ \A i \in 1 .. Len(r) : log[i] = r[i]
      /\ \A i \in 1 .. Len(log) : i > Len(r) => i - Len(r) \in DOMAIN b /\ log[i] = b[i - Len(r)]
  OBVIOUS
<1> HIDE DEF log
<1>2. \A i \in 1 .. Len(log) : i > Len(r) => log[i].path # p BY <1>1
<1>3. \A i \in 1 .. Len(log) : i > Len(r) \/ i \in 1 .. Len(r) BY <1>1
<1>4. \A i \in 1 .. Len(r) : i \in 1 .. Len(log) BY <1>1
<1>5. Changes(log, Len(log), p) = Changes(r, Len(r), p)
  BY <1>1, <1>2, <1>3, <1>4 DEF Changes
<1>6. \A i \in Changes(log, Len(log), p) : r[i] = log[i]
  BY <1>1, <1>5 DEF Changes
<1>7. ASSUME NEW h, Says(log, Len(log), p, h) PROVE Says(r, Len(r), p, h)
  BY <1>5, <1>6, <1>7, SaysByChanges
<1>8. ASSUME Chained(log, p) PROVE Chained(r, p)
  <2>1. SUFFICES ASSUME NEW i \in Changes(r, Len(r), p) PROVE Says(r, i - 1, p, r[i].prev)
    BY DEF Chained
  <2>2. i \in 1 .. Len(r) BY DEF Changes
  <2>3. Says(log, i - 1, p, r[i].prev) BY <1>5, <1>6, <1>8 DEF Chained
  <2>4. \A j \in 1 .. i - 1 : j \in 1 .. Len(r) BY <1>1, <2>2
  <2>5. \A j \in 1 .. i - 1 : log[j] = r[j] BY <1>1, <2>4
  <2>6. Changes(log, i - 1, p) = Changes(r, i - 1, p) BY <2>5 DEF Changes
  <2>7. \A j \in Changes(log, i - 1, p) : r[j] = log[j] BY <2>5 DEF Changes
  <2> QED BY <2>3, <2>6, <2>7, SaysByChanges
<1> QED BY <1>7, <1>8 DEF log

(***************************************************************************)
(* A handled change.                                                       *)
(***************************************************************************)
(* The log grows by the new events, whether they are written or wait. *)
LEMMA LogGrows ==
  ASSUME TypeOK, NEW p, NEW events \in Seq(Events), NEW fault, fault # "event",
         AppendEvents(p, events, fault)
  PROVE  /\ Log' = Log \o events /\ lost' = lost
         /\ rows' \in Seq(Events) /\ queue' \in Seq(Events)
<1>1. rows \in Seq(Events) /\ queue \in Seq(Events) BY DEF TypeOK
<1>2. CASE queue = <<>> /\ rows' = rows \o events /\ UNCHANGED queue
  <2>1. rows \o <<>> = rows /\ rows \o events \in Seq(Events) BY <1>1, ConcatProperties, ConcatEmptySeq
  <2>2. (rows \o events) \o <<>> = rows \o events BY <2>1, ConcatEmptySeq
  <2> QED BY <1>1, <1>2, <2>1, <2>2 DEF Log, AppendEvents
<1>3. CASE queue' = queue \o events /\ UNCHANGED rows
  <2>1. queue \o events \in Seq(Events) BY <1>1, ConcatProperties
  <2>2. (rows \o queue) \o events = rows \o (queue \o events) BY <1>1, ConcatAssociative
  <2> QED BY <1>1, <1>3, <2>1, <2>2 DEF Log, AppendEvents
<1> QED BY <1>2, <1>3 DEF AppendEvents

(* What a handler reports: the change, and then what the scanner found. *)
Reported(p, h, prev, events) ==
  \E e \in Events :
    /\ e.path = p /\ e.type # "scan" /\ After(e) = h /\ e.prev = prev
    /\ \/ events = <<e>>
       \/ \E f \in Events : f.path = p /\ f.type = "scan" /\ events = <<e>> \o <<f>>

LEMMA ReportedTyped ==
  ASSUME NEW p, NEW h, NEW prev, NEW events, Reported(p, h, prev, events)
  PROVE  events \in Seq(Events)
<1>1. \A e, f \in Events : <<e>> \in Seq(Events) /\ <<e>> \o <<f>> \in Seq(Events)
  <2>1. TAKE e, f \in Events
  <2>2. <<e>> \in Seq(Events) /\ <<f>> \in Seq(Events) OBVIOUS
  <2> QED BY <2>2, ConcatProperties
<1> QED BY <1>1 DEF Reported

(* The log with the report says that p has its new hash, says what it said  *)
(* of the other paths, and keeps every chain.                               *)
LEMMA ReportSays ==
  ASSUME NEW log \in Seq(Events), NEW p, NEW h, NEW prev, NEW events,
         Reported(p, h, prev, events),
         NEW q, NEW g, Says(log, Len(log), q, g), Chained(log, q), q = p => g = prev
  PROVE  LET new == log \o events
         IN  /\ Says(new, Len(new), q, IF q = p THEN h ELSE g)
             /\ Chained(new, q)
<1>1. PICK e \in Events :
        /\ e.path = p /\ e.type # "scan" /\ After(e) = h /\ e.prev = prev
        /\ \/ events = <<e>>
           \/ \E f \in Events : f.path = p /\ f.type = "scan" /\ events = <<e>> \o <<f>>
  BY DEF Reported
<1> DEFINE one == Append(log, e)
           now == IF q = p THEN h ELSE g
<1>2. one = log \o <<e>> /\ one \in Seq(Events) OBVIOUS
<1>3. Says(one, Len(one), q, now)
  <2>1. CASE q = p BY <1>1, <2>1, SaysChange
  <2>2. CASE q # p BY <1>1, <2>2, SaysNothing
  <2> QED BY <2>1, <2>2
<1>4. Chained(one, q) BY <1>1, ChainedOn
<1>5. CASE events = <<e>> BY <1>2, <1>3, <1>4, <1>5
<1>6. ASSUME NEW f \in Events, f.path = p, f.type = "scan", events = <<e>> \o <<f>>
      PROVE  Says(log \o events, Len(log \o events), q, now) /\ Chained(log \o events, q)
  <2> DEFINE two == Append(one, f)
  <2>1. two = log \o events
    <3>1. two = one \o <<f>> BY <1>2
    <3>2. <<e>> \in Seq(Events) /\ <<f>> \in Seq(Events) OBVIOUS
    <3>3. (log \o <<e>>) \o <<f>> = log \o (<<e>> \o <<f>>) BY <3>2, ConcatAssociative
    <3> QED BY <1>2, <1>6, <3>1, <3>3
  <2>2. Says(two, Len(two), q, now) BY <1>2, <1>3, <1>6, SaysNothing
  <2>3. Chained(two, q) BY <1>2, <1>4, <1>6, ChainedOn
  <2> QED BY <2>1, <2>2, <2>3
<1> QED BY <1>1, <1>5, <1>6

(* A handler that finds a change and reports it, whatever fails on the way. *)
LEMMA RecordStep ==
  ASSUME WInv, phase # "down", NEW p \in Watched, NEW h \in Hash, NEW events,
         Reported(p, h, manifest[p], events), Record(p, h, events)
  PROVE  /\ manifest' = [manifest EXCEPT ![p] = h]
         /\ saved' \in [Path -> Hash] /\ rows' \in Seq(Events) /\ queue' \in Seq(Events)
         /\ lost' \subseteq Watched /\ unsaved' \subseteq Watched
         /\ \A q \in Watched \ unsaved' : manifest'[q] = saved'[q]
         /\ ManifestMatchesLog' /\ HashesChain'
<1>1. /\ TypeOK /\ rows \in Seq(Events) /\ queue \in Seq(Events) /\ saved \in [Path -> Hash]
      /\ manifest \in [Watched -> Hash] /\ lost \subseteq Watched /\ unsaved \subseteq Watched
      /\ Log \in Seq(Events)
  BY ConcatProperties DEF WInv, TypeOK, Hash, Log
<1>2. \A q \in Watched \ (lost \cup unsaved) :
        Says(Log, Len(Log), q, saved[q]) /\ Chained(Log, q) /\ manifest[q] = saved[q]
  BY DEF WInv, ManifestMatchesLog, HashesChain, InStep
<1>3. p \in Path /\ Watched \subseteq Path BY DEF Path
<1>4. PICK fault \in Faults : SetManifest(p, h, fault) /\ AppendEvents(p, events, fault)
  BY DEF Record
<1>5. /\ manifest' = [manifest EXCEPT ![p] = h] /\ unsaved' \in SUBSET Watched
      /\ saved' \in [Path -> Hash] /\ unsaved \subseteq unsaved'
      /\ \A q \in Path : q # p => saved'[q] = saved[q]
      /\ p \notin unsaved' => saved'[p] = h
      /\ \A q \in unsaved' : q # p => q \in unsaved
  BY <1>1, <1>3, <1>4 DEF SetManifest
<1>6. \A q \in Watched \ unsaved' : manifest'[q] = saved'[q]
  BY <1>1, <1>3, <1>5 DEF WInv, InStep
<1>7. CASE fault = "event"
  <2>1. lost' = lost \cup {p} /\ UNCHANGED <<rows, queue>> BY <1>4, <1>7 DEF AppendEvents
  <2>2. Log' = Log BY <2>1 DEF Log
  <2>3. \A q \in Watched \ (lost' \cup unsaved') :
          q \in Watched \ (lost \cup unsaved) /\ saved'[q] = saved[q]
    BY <1>3, <1>5, <2>1
  <2>4. ManifestMatchesLog' BY <1>2, <2>2, <2>3 DEF ManifestMatchesLog
  <2>5. HashesChain' BY <1>2, <2>2, <2>3 DEF HashesChain
  <2> QED BY <1>1, <1>5, <1>6, <2>1, <2>4, <2>5
<1>8. CASE fault # "event"
  <2>1. events \in Seq(Events) BY ReportedTyped
  <2>2. /\ Log' = Log \o events /\ lost' = lost
        /\ rows' \in Seq(Events) /\ queue' \in Seq(Events)
    BY <1>1, <1>4, <1>8, <2>1, LogGrows
  <2>3. ASSUME NEW q \in Watched \ (lost' \cup unsaved')
        PROVE  Says(Log', Len(Log'), q, saved'[q]) /\ Chained(Log', q)
    <3>1. q \in Watched \ (lost \cup unsaved) BY <1>5, <2>2, <2>3
    <3>2. Says(Log, Len(Log), q, saved[q]) /\ Chained(Log, q) /\ manifest[q] = saved[q]
      BY <1>2, <3>1
    <3>3. q = p => saved[q] = manifest[p] BY <3>2
    <3>4. saved'[q] = IF q = p THEN h ELSE saved[q] BY <1>3, <1>5, <2>3
    <3>5. LET new == Log \o events
          IN  Says(new, Len(new), q, IF q = p THEN h ELSE saved[q]) /\ Chained(new, q)
      BY <1>1, <3>2, <3>3, ReportSays
    <3> QED BY <2>2, <3>4, <3>5
  <2>4. ManifestMatchesLog' BY <2>3 DEF ManifestMatchesLog
  <2>5. HashesChain' BY <2>3 DEF HashesChain
  <2> QED BY <1>1, <1>5, <1>6, <2>2, <2>4, <2>5
<1> QED BY <1>7, <1>8

(* What is written to the disk. *)
LEMMA HashTyped ==
  ASSUME TypeOK, NEW p \in Watched
  PROVE  FileHash(p) \in Hash /\ disk[p] \in Disk /\ p \in Path
BY DEF TypeOK, FileHash, Disk, Hash, Path

LEMMA EventTyped ==
  ASSUME NEW p \in Watched, NEW type \in {"added", "modified", "removed", "scan"},
         NEW h \in Hash, NEW g \in Hash
  PROVE  /\ Event(p, type, h, g) \in Events
         /\ Event(p, type, h, g).path = p /\ Event(p, type, h, g).type = type
         /\ Event(p, type, h, g).hash = h /\ Event(p, type, h, g).prev = g
BY DEF Event, Events, Hash

LEMMA RemovedReported ==
  ASSUME NEW p \in Watched, NEW g \in Hash
  PROVE  Reported(p, Gone, g, <<Event(p, "removed", g, g)>>)
<1> DEFINE e == Event(p, "removed", g, g)
<1>1. e \in Events /\ e.path = p /\ e.type = "removed" /\ e.prev = g BY EventTyped
<1>2. After(e) = Gone BY <1>1 DEF After
<1> HIDE DEF e
<1>3. Reported(p, Gone, g, <<e>>) BY <1>1, <1>2 DEF Reported
<1> QED BY <1>3 DEF e

LEMMA WrittenReported ==
  ASSUME NEW p \in Watched, NEW h \in Hash, NEW g \in Hash, NEW type \in {"added", "modified"}
  PROVE  Reported(p, h, g, <<Event(p, type, h, g)>> \o Findings(p, h))
<1> DEFINE e == Event(p, type, h, g)
           f == Event(p, "scan", h, h)
<1>1. e \in Events /\ e.path = p /\ e.type = type /\ e.hash = h /\ e.prev = g BY EventTyped
<1>2. f \in Events /\ f.path = p /\ f.type = "scan" BY EventTyped
<1>3. After(e) = h /\ e.type # "scan" BY <1>1 DEF After
<1>4. Findings(p, h) = <<f>> \/ Findings(p, h) = <<>> BY DEF Findings
<1>5. <<e>> \o <<>> = <<e>> OBVIOUS
<1> HIDE DEF e, f
<1>6. CASE Findings(p, h) = <<f>>
  <2>1. Reported(p, h, g, <<e>> \o <<f>>) BY <1>1, <1>2, <1>3 DEF Reported
  <2> QED BY <1>6, <2>1 DEF e
<1>7. CASE Findings(p, h) = <<>>
  <2>1. Reported(p, h, g, <<e>>) BY <1>1, <1>3 DEF Reported
  <2> QED BY <1>5, <1>7, <2>1 DEF e
<1> QED BY <1>4, <1>6, <1>7

(***************************************************************************)
(* The invariant is inductive.                                             *)
(***************************************************************************)
(* Steps that leave the log, the manifests and the histories alone. *)
LogVars == <<manifest, saved, queue, rows, lost, unsaved>>

LEMMA LogKept ==
  ASSUME ManifestMatchesLog, HashesChain, UNCHANGED <<saved, queue, rows, lost, unsaved>>
  PROVE  ManifestMatchesLog' /\ HashesChain'
<1>1. Log' = Log BY DEF Log
<1>2. UNCHANGED <<saved, lost, unsaved>> OBVIOUS
<1>3. ManifestMatchesLog' BY <1>1, <1>2 DEF ManifestMatchesLog
<1>4. HashesChain' BY <1>1, <1>2 DEF HashesChain
<1> QED BY <1>3, <1>4

LEMMA WriteStep ==
  ASSUME WInv, NEW p \in Path, NEW c \in Disk, Write(p, c)
  PROVE  WInv'
<1>1. /\ disk' = [disk EXCEPT ![p] = c] /\ dirty' = dirty \cup ({p} \cap Watched)
      /\ UNCHANGED <<seen, pending, manifest, saved, unsaved, queue, rows, lost, phase>>
  BY DEF Write, memory, trailVars
<1>2. TypeOK' BY <1>1 DEF WInv, TypeOK
<1>3. InStep' /\ NoneWaits' BY <1>1 DEF WInv, InStep, NoneWaits
<1>4. Known'
  <2>1. SUFFICES ASSUME NEW q \in ConfigPaths \ dirty', phase' = "watching"
                 PROVE  /\ pending'[q] = "none" /\ disk'[q] \in Contents => manifest'[q] = disk'[q]
                        /\ pending'[q] = "removed" => disk'[q] = Gone
    BY DEF Known
  <2>2. q # p /\ q \in ConfigPaths \ dirty BY <1>1, <2>1 DEF Watched
  <2>3. disk'[q] = disk[q] BY <1>1, <2>2 DEF WInv, TypeOK
  <2> QED BY <1>1, <2>1, <2>2, <2>3 DEF WInv, Known
<1>5. ManifestMatchesLog' /\ HashesChain' BY <1>1, LogKept DEF WInv
<1> QED BY <1>2, <1>3, <1>4, <1>5 DEF WInv

LEMMA ScanStep == ASSUME WInv, InitialScan PROVE WInv'
<1>1. /\ phase = "loaded" /\ phase' = "watching"
      /\ seen' = {p \in Watched : disk[p] # Gone} /\ dirty' = {} /\ pending' = InitialEvents
      /\ UNCHANGED <<disk, manifest, saved, unsaved, queue, rows, lost>>
  BY DEF InitialScan, diskVars, memory, trailVars
<1>2. TypeOK' BY <1>1 DEF WInv, TypeOK, InitialEvents
<1>3. InStep' /\ NoneWaits' BY <1>1 DEF WInv, InStep, NoneWaits
<1>4. Known'
  <2>1. ASSUME NEW p \in ConfigPaths
        PROVE  /\ pending'[p] # "removed"
               /\ pending'[p] = "none" => disk'[p] \notin Contents
    BY <1>1, WatcherAssumption DEF InitialEvents, Watched, WatcherAssumption
  <2> QED BY <2>1 DEF Known
<1>5. ManifestMatchesLog' /\ HashesChain' BY <1>1, LogKept DEF WInv
<1> QED BY <1>2, <1>3, <1>4, <1>5 DEF WInv

LEMMA NoticeStep == ASSUME WInv, NEW p \in Watched, Notice(p) PROVE WInv'
<1> DEFINE event == IF disk[p] = Gone THEN (IF p \in seen THEN "removed" ELSE "none")
                    ELSE IF p \in seen THEN "modified" ELSE "added"
<1>1. /\ phase = "watching" /\ dirty' = dirty \ {p} /\ pending' = [pending EXCEPT ![p] = event]
      /\ seen' \subseteq seen \cup {p}
      /\ UNCHANGED <<disk, manifest, saved, unsaved, queue, rows, lost, phase>>
  BY DEF Notice, diskVars, memory, trailVars
<1>2. /\ event \in {"none", "added", "modified", "removed"}
      /\ event \in {"none", "removed"} => disk[p] = Gone
  OBVIOUS
<1> HIDE DEF event
<1>3. TypeOK' BY <1>1, <1>2 DEF WInv, TypeOK
<1>4. InStep' /\ NoneWaits' BY <1>1 DEF WInv, InStep, NoneWaits
<1>5. Known'
  <2>1. SUFFICES ASSUME NEW q \in ConfigPaths \ dirty', phase' = "watching"
                 PROVE  /\ pending'[q] = "none" /\ disk'[q] \in Contents => manifest'[q] = disk'[q]
                        /\ pending'[q] = "removed" => disk'[q] = Gone
    BY DEF Known
  <2>2. CASE q = p
    BY <1>1, <1>2, <2>2, WatcherAssumption DEF WInv, TypeOK, WatcherAssumption
  <2>3. CASE q # p
    <3>1. q \in ConfigPaths \ dirty /\ pending'[q] = pending[q]
      BY <1>1, <2>1, <2>3 DEF WInv, TypeOK, Watched
    <3> QED BY <1>1, <3>1 DEF WInv, Known
  <2> QED BY <2>2, <2>3
<1>6. ManifestMatchesLog' /\ HashesChain' BY <1>1, LogKept DEF WInv
<1> QED BY <1>3, <1>4, <1>5, <1>6 DEF WInv

(* A handler leaves the manifest as it was, or records what it finds. *)
LEMMA ChangeStep == ASSUME WInv, NEW p \in Watched, HandleChange(p) PROVE WInv'
<1>1. /\ phase \in {"watching", "stopping"} /\ pending[p] # "none"
      /\ pending' = [pending EXCEPT ![p] = "none"]
      /\ IF pending[p] = "removed" THEN HandleRemoved(p) ELSE HandleWritten(p)
      /\ UNCHANGED <<disk, seen, dirty, phase>>
  BY DEF HandleChange, diskVars
<1>2. /\ pending[p] \in {"added", "modified", "removed"} /\ manifest[p] \in Hash
      /\ FileHash(p) \in Hash /\ phase # "down"
  BY <1>1, HashTyped DEF WInv, TypeOK, Hash
<1> DEFINE left  == manifest' = manifest /\ UNCHANGED <<saved, unsaved, queue, rows, lost>>
           types == /\ manifest' \in [Watched -> Hash]
                    /\ saved' \in [Path -> Hash] /\ rows' \in Seq(Events) /\ queue' \in Seq(Events)
                    /\ lost' \subseteq Watched /\ unsaved' \subseteq Watched
           log   == /\ \A q \in Watched \ unsaved' : manifest'[q] = saved'[q]
                    /\ ManifestMatchesLog' /\ HashesChain'
<1>3. ASSUME left PROVE types /\ log
  <2>1. types BY <1>3 DEF WInv, TypeOK, Hash
  <2>2. ManifestMatchesLog' /\ HashesChain' BY <1>3, LogKept DEF WInv
  <2>3. \A q \in Watched \ unsaved' : manifest'[q] = saved'[q] BY <1>2, <1>3 DEF WInv, InStep
  <2> QED BY <2>1, <2>2, <2>3
<1>4. ASSUME NEW h \in Hash, NEW events, Reported(p, h, manifest[p], events), Record(p, h, events)
      PROVE  types /\ log /\ manifest' = [manifest EXCEPT ![p] = h]
  <2>1. /\ log /\ manifest' = [manifest EXCEPT ![p] = h]
        /\ saved' \in [Path -> Hash] /\ rows' \in Seq(Events) /\ queue' \in Seq(Events)
        /\ lost' \subseteq Watched /\ unsaved' \subseteq Watched
    BY <1>2, <1>4, RecordStep
  <2>2. manifest \in [Watched -> Hash] BY DEF WInv, TypeOK, Hash
  <2> QED BY <2>1, <2>2
<1> HIDE DEF left, types, log
<1>5. /\ types /\ log /\ \A q \in Watched : q # p => manifest'[q] = manifest[q]
      /\ pending[p] # "removed" /\ disk[p] \in Contents => manifest'[p] = disk[p]
  <2>1. manifest \in [Watched -> Hash] BY DEF WInv, TypeOK, Hash
  <2>2. ASSUME NEW h \in Hash, manifest' = [manifest EXCEPT ![p] = h]
        PROVE  manifest'[p] = h /\ \A q \in Watched : q # p => manifest'[q] = manifest[q]
    BY <2>1, <2>2
  <2>3. CASE pending[p] = "removed"
    <3>1. CASE manifest[p] = Gone
      <4>1. left BY <1>1, <2>3, <3>1 DEF HandleRemoved, memory, trailVars, left
      <4> QED BY <1>3, <2>3, <4>1 DEF left
    <3>2. CASE manifest[p] # Gone
      <4>1. Record(p, Gone, <<Event(p, "removed", manifest[p], manifest[p])>>)
        BY <1>1, <2>3, <3>2 DEF HandleRemoved
      <4>2. Gone \in Hash BY DEF Hash
      <4>3. types /\ log /\ manifest' = [manifest EXCEPT ![p] = Gone]
        BY <1>2, <1>4, <4>1, <4>2, RemovedReported
      <4> QED BY <2>2, <2>3, <4>2, <4>3
    <3> QED BY <3>1, <3>2
  <2>4. CASE pending[p] # "removed"
    <3> DEFINE h == FileHash(p)
    <3>1. HandleWritten(p) /\ h \in Hash BY <1>1, <1>2, <2>4
    <3>2. disk[p] \in Contents => h = disk[p] /\ h # Gone
      BY WatcherAssumption DEF FileHash, WatcherAssumption
    <3>3. CASE h = Gone \/ h = manifest[p]
      <4>1. left BY <3>1, <3>3 DEF HandleWritten, memory, trailVars, left
      <4> QED BY <1>3, <3>2, <3>3, <4>1 DEF left
    <3>4. CASE ~(h = Gone \/ h = manifest[p])
      <4> DEFINE type == IF manifest[p] = Gone THEN "added" ELSE pending[p]
      <4>1. type \in {"added", "modified"} BY <1>2, <2>4
      <4>2. Record(p, h, <<Event(p, type, h, manifest[p])>> \o Findings(p, h))
        BY <3>1, <3>4 DEF HandleWritten
      <4> HIDE DEF type, h
      <4>3. types /\ log /\ manifest' = [manifest EXCEPT ![p] = h]
        BY <1>2, <1>4, <3>1, <4>1, <4>2, WrittenReported
      <4> QED BY <2>2, <3>1, <3>2, <4>3
    <3> QED BY <3>3, <3>4
  <2> QED BY <2>3, <2>4
<1>6. TypeOK' BY <1>1, <1>5 DEF WInv, TypeOK, types, Hash
<1>7. InStep' /\ NoneWaits' BY <1>1, <1>2, <1>5 DEF log, InStep, NoneWaits
<1>8. Known'
  <2>1. SUFFICES ASSUME NEW q \in ConfigPaths \ dirty', phase' = "watching"
                 PROVE  /\ pending'[q] = "none" /\ disk'[q] \in Contents => manifest'[q] = disk'[q]
                        /\ pending'[q] = "removed" => disk'[q] = Gone
    BY DEF Known
  <2>2. q \in Watched /\ q \in ConfigPaths \ dirty /\ phase = "watching" /\ disk' = disk
    BY <1>1, <2>1 DEF Watched
  <2>3. pending'[q] = IF q = p THEN "none" ELSE pending[q] BY <1>1, <2>2 DEF WInv, TypeOK
  <2>4. CASE q = p
    <3>1. pending[p] = "removed" => disk[p] \notin Contents
      BY <2>2, <2>4, WatcherAssumption DEF WInv, Known, WatcherAssumption
    <3> QED BY <1>5, <2>2, <2>3, <2>4, <3>1
  <2>5. CASE q # p
    BY <1>5, <2>2, <2>3, <2>5 DEF WInv, Known
  <2> QED BY <2>4, <2>5
<1> QED BY <1>5, <1>6, <1>7, <1>8 DEF WInv, log

LEMMA DrainStep == ASSUME WInv, Drain \/ Flush PROVE WInv'
<1>1. rows \in Seq(Events) /\ queue \in Seq(Events) BY DEF WInv, TypeOK
<1>2. rows' = rows \o queue /\ queue' = <<>> /\ UNCHANGED <<disk, seen, dirty, manifest, saved, unsaved, lost>>
  BY DEF Drain, Flush, ProcessGone, diskVars, chokidar, memory
<1>3. \/ UNCHANGED <<phase, pending>>
      \/ phase' = "down" /\ pending' = [q \in Watched |-> "none"]
  BY DEF Drain, Flush, ProcessGone, chokidar
<1>4. rows' \in Seq(Events) /\ queue' \in Seq(Events) /\ Log' = Log
  <2>1. rows \o queue \in Seq(Events) BY <1>1, ConcatProperties
  <2>2. (rows \o queue) \o <<>> = rows \o queue BY <2>1, ConcatEmptySeq
  <2> QED BY <1>2, <2>1, <2>2 DEF Log
<1>5. TypeOK' BY <1>2, <1>3, <1>4 DEF WInv, TypeOK
<1>6. InStep' /\ NoneWaits' BY <1>2, <1>3 DEF WInv, InStep, NoneWaits
<1>7. Known' BY <1>2, <1>3 DEF WInv, Known
<1>8. ManifestMatchesLog' BY <1>2, <1>4 DEF WInv, ManifestMatchesLog
<1>9. HashesChain' BY <1>2, <1>4 DEF WInv, HashesChain
<1> QED BY <1>5, <1>6, <1>7, <1>8, <1>9 DEF WInv

(* A start takes the stored manifests, and alters only those of plugins. *)
LEMMA LoadStep == ASSUME WInv, Load PROVE WInv'
<1>1. /\ phase = "down" /\ phase' = "loaded"
      /\ manifest' = [p \in Watched |-> saved[p]] /\ saved' = SyncedPlugins
      /\ UNCHANGED <<disk, seen, dirty, pending, queue, rows, lost, unsaved>>
  BY DEF Load, diskVars, chokidar, trailVars
<1>2. \A p \in Watched : p \in Path /\ p \notin PluginPaths
  BY WatcherAssumption DEF Path, WatcherAssumption
<1>3. \A p \in Watched : saved'[p] = saved[p] /\ manifest'[p] = saved[p]
  BY <1>1, <1>2 DEF SyncedPlugins
<1>4. manifest' \in [Watched -> Hash] BY <1>1, <1>2 DEF WInv, TypeOK, Hash
<1>5. saved' \in [Path -> Hash]
  <2>1. \A p \in Path : disk[p] \in Disk /\ saved[p] \in Hash BY DEF WInv, TypeOK, Hash
  <2>2. \A p \in Path : disk[p] # Gone /\ FileHash(p) # Gone => disk[p] \in Hash
    BY <2>1 DEF FileHash, Disk, Hash
  <2>3. Gone \in Hash BY DEF Hash
  <2> QED BY <1>1, <2>1, <2>2, <2>3 DEF SyncedPlugins
<1>6. TypeOK' BY <1>1, <1>4, <1>5 DEF WInv, TypeOK, Hash
<1>7. InStep' /\ NoneWaits' BY <1>1, <1>3 DEF InStep, NoneWaits
<1>8. Known' BY <1>1 DEF Known
<1>9. Log' = Log BY <1>1 DEF Log
<1>10. ManifestMatchesLog' BY <1>1, <1>3, <1>9 DEF WInv, ManifestMatchesLog
<1>11. HashesChain' BY <1>1, <1>9 DEF WInv, HashesChain
<1> QED BY <1>6, <1>7, <1>8, <1>10, <1>11 DEF WInv

LEMMA StopStep == ASSUME WInv, StopWatching PROVE WInv'
<1>1. phase = "watching" /\ phase' = "stopping"
      /\ UNCHANGED <<disk, seen, dirty, pending, manifest, saved, queue, rows, lost, unsaved>>
  BY DEF StopWatching, diskVars, chokidar, memory, trailVars
<1>2. TypeOK' BY <1>1 DEF WInv, TypeOK
<1>3. InStep' /\ NoneWaits' /\ Known' BY <1>1 DEF WInv, InStep, NoneWaits, Known
<1>4. ManifestMatchesLog' /\ HashesChain' BY <1>1, LogKept DEF WInv
<1> QED BY <1>2, <1>3, <1>4 DEF WInv

(* A crash loses the buffer, and with it something of every path it names. *)
LEMMA CrashStep == ASSUME WInv, Crash PROVE WInv'
<1>1. /\ phase' = "down" /\ pending' = [p \in Watched |-> "none"] /\ queue' = <<>>
      /\ lost' = lost \cup {queue[i].path : i \in DOMAIN queue}
      /\ UNCHANGED <<disk, seen, dirty, manifest, saved, unsaved, rows>>
  BY DEF Crash, ProcessGone, diskVars, memory
<1>2. rows \in Seq(Events) /\ queue \in Seq(Events) BY DEF WInv, TypeOK
<1>3. \A i \in DOMAIN queue : queue[i].path \in Watched
  <2>1. \A i \in DOMAIN queue : queue[i] \in Events BY <1>2
  <2> QED BY <2>1 DEF Events
<1>4. lost' \subseteq Watched BY <1>1, <1>3 DEF WInv, TypeOK
<1>5. TypeOK' BY <1>1, <1>4 DEF WInv, TypeOK
<1>6. InStep' /\ NoneWaits' /\ Known' BY <1>1 DEF InStep, NoneWaits, Known
<1>7. Log' = rows BY <1>1, <1>2, ConcatEmptySeq DEF Log
<1>8. ASSUME NEW p \in Watched \ (lost' \cup unsaved')
      PROVE  Says(Log', Len(Log'), p, saved'[p]) /\ Chained(Log', p)
  <2>1. p \in Watched \ (lost \cup unsaved) /\ \A i \in DOMAIN queue : queue[i].path # p
    BY <1>1, <1>8
  <2>2. Says(rows \o queue, Len(rows \o queue), p, saved[p]) /\ Chained(rows \o queue, p)
    BY <2>1 DEF WInv, ManifestMatchesLog, HashesChain, Log
  <2> QED BY <1>1, <1>2, <1>7, <2>1, <2>2, DropBuffer
<1>9. ManifestMatchesLog' BY <1>8 DEF ManifestMatchesLog
<1>10. HashesChain' BY <1>8 DEF HashesChain
<1> QED BY <1>5, <1>6, <1>9, <1>10 DEF WInv

LEMMA WInvInit == Init => WInv
<1> SUFFICES ASSUME Init PROVE WInv OBVIOUS
<1>1. TypeOK
  <2>1. (CHOOSE c \in Contents : TRUE) \in Disk /\ Gone \in Disk
    BY WatcherAssumption DEF WatcherAssumption, Disk
  <2>2. disk \in [Path -> Disk] BY <2>1 DEF Init
  <2>3. \A S : {} \subseteq S OBVIOUS
  <2>4. manifest \in [Watched -> Contents \cup {Gone}] /\ saved \in [Path -> Contents \cup {Gone}]
    BY DEF Init
  <2>5. rows \in Seq(Events) /\ queue \in Seq(Events) BY EmptySeq DEF Init
  <2>6. pending \in [Watched -> {"none", "added", "modified", "removed"}] BY DEF Init
  <2> QED BY <2>2, <2>3, <2>4, <2>5, <2>6 DEF Init, TypeOK
<1>2. InStep /\ Known /\ NoneWaits BY DEF Init, InStep, Known, NoneWaits
<1>3. Log = <<>> /\ Len(Log) = 0 BY DEF Init, Log
<1>4. \A p : Changes(Log, Len(Log), p) = {} BY <1>3 DEF Changes
<1>5. \A p : Says(Log, Len(Log), p, Gone) BY <1>4 DEF Says
<1>6. \A p : Chained(Log, p) BY <1>4 DEF Chained
<1>7. \A p \in Watched : saved[p] = Gone BY DEF Init, Path
<1> QED BY <1>1, <1>2, <1>5, <1>6, <1>7 DEF WInv, ManifestMatchesLog, HashesChain

LEMMA WInvStep == WInv /\ [Next]_watchVars => WInv'
<1> SUFFICES ASSUME WInv, [Next]_watchVars PROVE WInv' OBVIOUS
<1>1. ASSUME NEW p \in Path, NEW c \in Disk, Write(p, c) PROVE WInv' BY <1>1, WriteStep
<1>2. ASSUME NEW p \in Watched, Notice(p) \/ HandleChange(p) PROVE WInv'
  BY <1>2, NoticeStep, ChangeStep
<1>3. CASE InitialScan \/ Drain \/ Load \/ StopWatching \/ Flush \/ Crash
  BY <1>3, ScanStep, DrainStep, LoadStep, StopStep, CrashStep
<1>4. CASE UNCHANGED watchVars
  <2>1. UNCHANGED <<disk, seen, dirty, pending, manifest, saved, unsaved, queue, rows, lost, phase>>
    BY <1>4 DEF watchVars, diskVars, chokidar, memory, trailVars
  <2>2. TypeOK' BY <2>1 DEF WInv, TypeOK
  <2>3. InStep' /\ NoneWaits' /\ Known' BY <2>1 DEF WInv, InStep, NoneWaits, Known
  <2>4. ManifestMatchesLog' /\ HashesChain' BY <2>1, LogKept DEF WInv
  <2> QED BY <2>2, <2>3, <2>4 DEF WInv
<1> QED BY <1>1, <1>2, <1>3, <1>4 DEF Next

(* The inductive invariant: the manifests, the log and what chokidar knows. *)
THEOREM WatchInductive == Spec => []WInv
BY WInvInit, WInvStep, PTL DEF Spec

(* The stored manifest says what the log says, over any stops, crashes and  *)
(* changes on disk, but for paths an event or a manifest write was lost of. *)
THEOREM ManifestsMatch == Spec => []ManifestMatchesLog
<1>1. WInv => ManifestMatchesLog BY DEF WInv
<1> QED BY <1>1, WatchInductive, PTL

(* Each event of a path starts from the hash the one before it left, across *)
(* restarts.                                                                *)
THEOREM HashesAlwaysChain == Spec => []HashesChain
<1>1. WInv => HashesChain BY DEF WInv
<1> QED BY <1>1, WatchInductive, PTL

(***************************************************************************)
(* The inventory.                                                          *)
(***************************************************************************)
(* The live files below the skill roots, and the rank of a file's root. *)
LiveOnes == {q \in OfRoots(SkillRoots) : Live(q)}
Rank(p)  == CHOOSE i \in DOMAIN SkillRoots : SkillRoots[i] = p.root

LEMMA Ranked ==
  ASSUME NEW p \in LiveOnes
  PROVE  /\ p \in ConfigPaths /\ p = [root |-> p.root, id |-> p.id]
         /\ Rank(p) \in Nat /\ SkillRoots[Rank(p)] = p.root
<1>1. p \in ConfigPaths /\ p.root \in ToSet(SkillRoots) BY DEF LiveOnes, OfRoots
<1>2. \E i \in DOMAIN SkillRoots : SkillRoots[i] = p.root BY <1>1 DEF ToSet
<1>3. DOMAIN SkillRoots \subseteq Nat BY InventoryAssumption DEF InventoryAssumption
<1>4. p = [root |-> p.root, id |-> p.id] BY <1>1, InventoryAssumption DEF InventoryAssumption
<1>5. Rank(p) \in DOMAIN SkillRoots /\ SkillRoots[Rank(p)] = p.root BY <1>2 DEF Rank
<1> QED BY <1>1, <1>3, <1>4, <1>5

LEMMA WinnersAre ==
  Winners(SkillRoots) =
    {p \in LiveOnes : \A q \in LiveOnes : q.id = p.id => Rank(p) <= Rank(q)}
BY DEF Winners, LiveOnes, OfRoots, Rank

(* The least of a set of numbers. *)
LEMMA Least ==
  ASSUME NEW S \in SUBSET Nat, S # {}
  PROVE  \E n \in S : \A m \in S : n <= m
<1>1. PICK n \in S : \A m \in S : ~(<<m, n>> \in OpToRel(<, Nat))
  BY NatLessThanWellFounded, WFMin
<1>2. \A m \in S : ~(m < n) BY <1>1 DEF OpToRel
<1> QED BY <1>2

(* One file wins each id that is live. *)
LEMMA OneWinner ==
  /\ IsFiniteSet(Winners(SkillRoots)) /\ IsFiniteSet({p.id : p \in LiveOnes})
  /\ Cardinality(Winners(SkillRoots)) = Cardinality({p.id : p \in LiveOnes})
<1> DEFINE W   == Winners(SkillRoots)
           Ids == {p.id : p \in LiveOnes}
           f   == [p \in W |-> p.id]
<1>1. W \subseteq LiveOnes BY WinnersAre
<1>2. f \in [W -> Ids] BY <1>1
<1>3. ASSUME NEW p \in W, NEW q \in W, p.id = q.id PROVE p = q
  <2>1. p \in LiveOnes /\ q \in LiveOnes /\ Rank(p) <= Rank(q) /\ Rank(q) <= Rank(p)
    BY <1>3, WinnersAre
  <2>2. Rank(p) = Rank(q) BY <2>1, Ranked
  <2>3. p.root = q.root BY <2>1, <2>2, Ranked
  <2>4. p = [root |-> p.root, id |-> p.id] /\ q = [root |-> q.root, id |-> q.id] BY <2>1, Ranked
  <2> QED BY <1>3, <2>3, <2>4
<1>4. ASSUME NEW x \in Ids PROVE \E p \in W : p.id = x
  <2> DEFINE R == {Rank(q) : q \in {r \in LiveOnes : r.id = x}}
  <2>1. R \in SUBSET Nat /\ R # {} BY <1>4, Ranked
  <2>2. PICK n \in R : \A m \in R : n <= m BY <2>1, Least
  <2>3. PICK p \in LiveOnes : p.id = x /\ Rank(p) = n BY <2>2
  <2>4. \A q \in LiveOnes : q.id = p.id => Rank(q) \in R BY <2>3
  <2>5. p \in W BY <2>2, <2>3, <2>4, WinnersAre
  <2> QED BY <2>3, <2>5
<1>5. f \in Bijection(W, Ids)
  <2>1. \A p, q \in W : f[p] = f[q] => p = q BY <1>3
  <2>2. \A x \in Ids : \E p \in W : f[p] = x BY <1>4
  <2> HIDE DEF f, W, Ids
  <2> QED BY <1>2, <2>1, <2>2 DEF Bijection, Injection, Surjection, IsInjective
<1>6. IsFiniteSet(W)
  <2>1. W \subseteq ConfigPaths BY <1>1, Ranked
  <2> QED BY <2>1, FS_Subset, InventoryAssumption DEF InventoryAssumption
<1>7. ExistsBijection(W, Ids) BY <1>5 DEF ExistsBijection
<1> QED BY <1>6, <1>7, FS_Bijection

(* The summary's count of the skills. *)
LEMMA SkillsCounted == CountOf(SkillRoots) = Cardinality(Collect(SkillRoots))
<1> DEFINE W == Winners(SkillRoots)
           O == Orphans(OfRoots(SkillRoots))
           f == [p \in W \cup O |-> Item(p)]
<1>1. /\ IsFiniteSet(W) /\ W \subseteq LiveOnes
      /\ CountOf(SkillRoots) = Cardinality(W) + Cardinality(O)
  BY OneWinner, WinnersAre DEF CountOf, LiveOnes
<1>2. O \subseteq ConfigPaths BY DEF Orphans, OfRoots
<1>3. IsFiniteSet(O) BY <1>2, FS_Subset, InventoryAssumption DEF InventoryAssumption
<1>4. W \cap O = {} BY <1>1 DEF LiveOnes, Orphans
<1>5. /\ IsFiniteSet(W \cup O)
      /\ Cardinality(W \cup O) = Cardinality(W) + Cardinality(O) - Cardinality(W \cap O)
  BY <1>1, <1>3, FS_Union
<1>6. Cardinality(W \cap O) = 0 BY <1>4, FS_EmptySet
<1>7. f \in Bijection(W \cup O, Collect(SkillRoots))
  <2>1. Collect(SkillRoots) = {Item(p) : p \in W \cup O} BY DEF Collect
  <2>2. \A p : Item(p).path = p BY DEF Item
  <2>3. f \in [W \cup O -> Collect(SkillRoots)] BY <2>1
  <2>4. \A p, q \in W \cup O : f[p] = f[q] => p = q BY <2>2
  <2>5. \A x \in Collect(SkillRoots) : \E p \in W \cup O : f[p] = x BY <2>1
  <2> HIDE DEF f, W, O
  <2> QED BY <2>3, <2>4, <2>5 DEF Bijection, Injection, Surjection, IsInjective
<1>8. Cardinality(Collect(SkillRoots)) = Cardinality(W \cup O)
  BY <1>5, <1>7, FS_Bijection DEF ExistsBijection
<1>9. Cardinality(W) \in Nat /\ Cardinality(O) \in Nat BY <1>1, <1>3, FS_CardinalityType
<1> QED BY <1>1, <1>5, <1>6, <1>8, <1>9

(* The summary's count of the crons, and their ids. *)
LEMMA CronsCounted ==
  /\ CountCrons = Cardinality(CollectCrons)
  /\ {x.id : x \in {y \in CollectCrons : y.live}} = ListConfiguredCrons
<1> DEFINE stems == {p.id : p \in {q \in LegacyCrons : Live(q)}}
           ids   == Jobs \cup stems
           There == {[id |-> x, live |-> TRUE] : x \in ids}
           Away  == {[id |-> p, live |-> FALSE] : p \in CronOrphans}
           f     == [x \in ids |-> [id |-> x, live |-> TRUE]]
           g     == [p \in CronOrphans |-> [id |-> p, live |-> FALSE]]
<1>1. CollectCrons = There \cup Away
  <2>1. CollectCrons \subseteq There \cup Away BY DEF CollectCrons
  <2>2. ASSUME NEW x \in ids PROVE [id |-> x, live |-> TRUE] \in CollectCrons
    <3>1. CASE x \in Jobs BY <3>1 DEF CollectCrons
    <3>2. CASE x \notin Jobs
      <4>1. PICK p \in LegacyCrons : Live(p) /\ p.id = x BY <2>2, <3>2
      <4> QED BY <3>2, <4>1 DEF CollectCrons
    <3> QED BY <3>1, <3>2
  <2>3. Away \subseteq CollectCrons BY DEF CollectCrons
  <2> QED BY <2>1, <2>2, <2>3
<1>2. IsFiniteSet(Jobs)
  BY FS_EmptySet, InventoryAssumption DEF Jobs, InventoryAssumption
<1>3. IsFiniteSet(LegacyCrons)
  <2>1. LegacyCrons \subseteq ConfigPaths BY WatcherAssumption DEF WatcherAssumption
  <2> QED BY <2>1, FS_Subset, InventoryAssumption DEF InventoryAssumption
<1>4. IsFiniteSet(stems)
  <2> DEFINE live == {q \in LegacyCrons : Live(q)}
             h    == [p \in live |-> p.id]
  <2>1. IsFiniteSet(live) BY <1>3, FS_Subset
  <2>2. h \in Surjection(live, stems) BY DEF Surjection
  <2> QED BY <2>1, <2>2, FS_Surjection
<1>5. IsFiniteSet(CronOrphans)
  <2>1. CronOrphans \subseteq ConfigPaths BY WatcherAssumption DEF CronOrphans, Orphans, WatcherAssumption
  <2> QED BY <2>1, FS_Subset, InventoryAssumption DEF InventoryAssumption
<1>6. IsFiniteSet(ids) /\ Cardinality(ids) = Cardinality(stems) + Cardinality(Jobs \ stems)
  <2>1. IsFiniteSet(Jobs \ stems) BY <1>2, FS_Difference
  <2>2. ids = stems \cup (Jobs \ stems) /\ stems \cap (Jobs \ stems) = {} OBVIOUS
  <2>3. Cardinality(stems \cap (Jobs \ stems)) = 0 BY <2>2, FS_EmptySet
  <2>4. /\ IsFiniteSet(stems \cup (Jobs \ stems))
        /\ Cardinality(stems \cup (Jobs \ stems)) =
             Cardinality(stems) + Cardinality(Jobs \ stems) - Cardinality(stems \cap (Jobs \ stems))
    BY <1>4, <2>1, FS_Union
  <2>5. Cardinality(stems) \in Nat /\ Cardinality(Jobs \ stems) \in Nat
    BY <1>4, <2>1, FS_CardinalityType
  <2> DEFINE rest == Jobs \ stems
  <2> HIDE DEF ids, stems, rest
  <2>6. ids = stems \cup rest BY <2>2 DEF rest
  <2> QED BY <2>3, <2>4, <2>5, <2>6 DEF rest
<1>7. CountCrons = Cardinality(ids) + Cardinality(CronOrphans) BY <1>6 DEF CountCrons
<1>8. IsFiniteSet(There) /\ Cardinality(There) = Cardinality(ids)
  <2>1. f \in Bijection(ids, There)
    <3>1. f \in [ids -> There] /\ \A x, y \in ids : f[x] = f[y] => x = y OBVIOUS
    <3>2. \A t \in There : \E x \in ids : f[x] = t OBVIOUS
    <3> HIDE DEF f, There, ids
    <3> QED BY <3>1, <3>2 DEF Bijection, Injection, Surjection, IsInjective
  <2> HIDE DEF f, There, ids
  <2> QED BY <1>6, <2>1, FS_Bijection DEF ExistsBijection
<1>9. IsFiniteSet(Away) /\ Cardinality(Away) = Cardinality(CronOrphans)
  <2>1. g \in Bijection(CronOrphans, Away)
    <3>1. g \in [CronOrphans -> Away] /\ \A x, y \in CronOrphans : g[x] = g[y] => x = y OBVIOUS
    <3>2. \A t \in Away : \E x \in CronOrphans : g[x] = t OBVIOUS
    <3> HIDE DEF g, Away
    <3> QED BY <3>1, <3>2 DEF Bijection, Injection, Surjection, IsInjective
  <2> HIDE DEF g, Away
  <2> QED BY <1>5, <2>1, FS_Bijection DEF ExistsBijection
<1>10. There \cap Away = {} OBVIOUS
<1>11. Cardinality(There \cup Away) = Cardinality(There) + Cardinality(Away)
  <2>1. Cardinality(There \cap Away) = 0 BY <1>10, FS_EmptySet
  <2>2. Cardinality(There) \in Nat /\ Cardinality(Away) \in Nat BY <1>8, <1>9, FS_CardinalityType
  <2>3. Cardinality(There \cup Away) =
          Cardinality(There) + Cardinality(Away) - Cardinality(There \cap Away)
    BY <1>8, <1>9, FS_Union
  <2> HIDE DEF There, Away
  <2> QED BY <2>1, <2>2, <2>3
<1>12. CountCrons = Cardinality(CollectCrons)
  <2> HIDE DEF There, Away, ids
  <2> QED BY <1>1, <1>7, <1>8, <1>9, <1>11
<1>13. {x.id : x \in {y \in CollectCrons : y.live}} = ids
  <2>1. \A y \in CollectCrons : y.live => y.id \in ids BY <1>1
  <2>2. \A x \in ids : \E y \in CollectCrons : y.live /\ y.id = x
    <3>1. TAKE x \in ids
    <3>2. [id |-> x, live |-> TRUE] \in CollectCrons BY <1>1
    <3> QED BY <3>2
  <2> HIDE DEF ids
  <2> QED BY <2>1, <2>2
<1>14. ids = ListConfiguredCrons BY DEF ListConfiguredCrons
<1> QED BY <1>12, <1>13, <1>14

(* The inventory's summary and its listings agree, and what they show of a  *)
(* live skill is what is on disk once nothing is left to notice.            *)
THEOREM InventoryAlwaysRight == Spec => []InventoryRight
<1>1. ASSUME WInv PROVE InventoryRight
  <2>1. ASSUME Quiet, NEW x \in Collect(SkillRoots),
               x.live, disk[x.path] \in Contents, x.path \notin unsaved
        PROVE  x.hash = disk[x.path]
    <3>1. PICK p \in Winners(SkillRoots) \cup Orphans(OfRoots(SkillRoots)) : x = Item(p)
      BY <2>1 DEF Collect
    <3>2. x.path = p /\ x.hash = IF saved[p] # Gone THEN saved[p] ELSE FileHash(p)
      BY <3>1 DEF Item
    <3>3. p \in ConfigPaths /\ p \in Watched BY <3>1 DEF Winners, Orphans, OfRoots, Watched
    <3>4. manifest[p] = disk[p] BY <1>1, <2>1, <3>2, <3>3 DEF Quiet, WInv, Known
    <3>5. saved[p] = disk[p] BY <1>1, <2>1, <3>2, <3>3, <3>4 DEF Quiet, WInv, InStep
    <3> QED BY <2>1, <3>2, <3>5, WatcherAssumption DEF WatcherAssumption
  <2> QED BY <2>1, SkillsCounted, CronsCounted DEF InventoryRight
<1> QED BY <1>1, WatchInductive, PTL

============================================================================
