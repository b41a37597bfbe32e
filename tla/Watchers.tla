------------------------------ MODULE Watchers ------------------------------
(***************************************************************************)
(* ConfigWatcher and FileWatcher between the file system, chokidar, the    *)
(* manifests (in memory and in the store) and the limiter; the plugin      *)
(* manifests that are only brought up to date at a start; and the          *)
(* inventory that is read from disk and manifests.                         *)
(*                                                                         *)
(* A path is a record of the root it lies under and its id below it.  The  *)
(* limiter is taken at its word (module EventStream): an event is written, *)
(* waits in order, or is lost.                                             *)
(***************************************************************************)
EXTENDS Integers, Sequences, FiniteSets, SequencesExt

CONSTANTS
  SkillRoots,     (* the skill roots, highest precedence first               *)
  ConfigPaths,    (* what ConfigWatcher watches: skills, tools, ...          *)
  JobsPath,       (* cron/jobs.json, one of ConfigPaths                      *)
  LegacyCrons,    (* <id>.cron.*.json files, some of ConfigPaths             *)
  JobsIn,         (* the job ids jobs.json lists, per content                *)
  FilePaths,      (* what the operator's patterns match                      *)
  PluginPaths,    (* entry files of plugins                                  *)
  AtFirst,        (* the paths at which there is a file when all begins      *)
  Contents,       (* contents that can be hashed                             *)
  Flagged,        (* contents the scanner has findings in                    *)
  MaxWrites,      (* bound: changes on disk                                  *)
  MaxMishaps      (* bound: crashes, lost events, failed manifest writes     *)

Gone == "gone"    (* no such file                                            *)
Huge == "huge"    (* over MAX_HASHABLE_BYTES: fileHash has no value for it   *)

Watched == ConfigPaths \cup FilePaths
Path    == Watched \cup PluginPaths
Disk    == Contents \cup {Gone, Huge}

ASSUME WatcherAssumption ==
  /\ Contents # {} /\ Gone \notin Contents /\ Huge \notin Contents /\ Flagged \subseteq Contents
  /\ {JobsPath} \cup LegacyCrons \subseteq ConfigPaths
  /\ ConfigPaths \cap FilePaths = {} /\ Watched \cap PluginPaths = {}

(* A path is its root and its id, a cron has one legacy file at most, and   *)
(* there are finitely many files and jobs.                                  *)
ASSUME InventoryAssumption ==
  /\ IsFiniteSet(ConfigPaths) /\ \A c \in Contents : IsFiniteSet(JobsIn[c])
  /\ \A p \in ConfigPaths : p = [root |-> p.root, id |-> p.id]
  /\ \A p, q \in LegacyCrons : p.id = q.id => p = q
  /\ Len(SkillRoots) \in Nat /\ DOMAIN SkillRoots = 1 .. Len(SkillRoots)

VARIABLES
  disk,           (* what is on disk                                         *)
  seen,           (* paths at which chokidar last saw a file                 *)
  dirty,          (* paths written to since it looked                        *)
  pending,        (* the event chokidar is about to emit, per path           *)
  manifest,       (* hashes in memory                                        *)
  saved,          (* config_manifests                                        *)
  phase,          (* "down", "loaded", "watching", "stopping"                *)
  queue, rows,    (* events in the limiter's buffer, and in the log          *)
  lost,           (* history: paths of which an event was lost               *)
  unsaved,        (* history: paths of which a manifest write failed         *)
  writes, mishaps

diskVars  == <<disk, writes>>
chokidar  == <<seen, dirty, pending>>
memory    == <<manifest, saved, unsaved>>
trailVars == <<queue, rows, lost>>
watchVars == <<diskVars, chokidar, memory, trailVars, phase, mishaps>>

Init ==
  /\ disk = [p \in Path |-> IF p \in AtFirst THEN CHOOSE c \in Contents : TRUE ELSE Gone]
  /\ seen = {} /\ dirty = {} /\ pending = [p \in Watched |-> "none"]
  /\ manifest = [p \in Watched |-> Gone] /\ saved = [p \in Path |-> Gone]
  /\ phase = "down" /\ queue = <<>> /\ rows = <<>>
  /\ lost = {} /\ unsaved = {} /\ writes = 0 /\ mishaps = 0

FileHash(p) == IF disk[p] = Huge THEN Gone ELSE disk[p]

(***************************************************************************)
(* Outside: the file system and chokidar.                                  *)
(***************************************************************************)
Write(p, c) ==
  /\ writes < MaxWrites /\ writes' = writes + 1
  /\ c # disk[p] /\ disk' = [disk EXCEPT ![p] = c]
  /\ dirty' = dirty \cup ({p} \cap Watched)
  /\ UNCHANGED <<seen, pending, memory, trailVars, phase, mishaps>>

(* Mutant: only what changes from now on is reported. *)
InitialEventsNone == [p \in Watched |-> "none"]

(* ConfigWatcher asks for an add event for every file there is at the start *)
(* (ignoreInitial: false), FileWatcher for none.                            *)
InitialEvents == [p \in Watched |-> IF p \in ConfigPaths /\ disk[p] # Gone THEN "added" ELSE "none"]

InitialScan ==
  /\ phase = "loaded" /\ phase' = "watching"
  /\ seen' = {p \in Watched : disk[p] # Gone} /\ dirty' = {}
  /\ pending' = InitialEvents
  /\ UNCHANGED <<diskVars, memory, trailVars, mishaps>>

(* Chokidar notices what a path has become; it emits the event later, once  *)
(* the file has settled.                                                    *)
Notice(p) ==
  /\ phase = "watching" /\ pending[p] = "none" /\ p \in dirty
  /\ dirty' = dirty \ {p}
  /\ seen' = IF disk[p] = Gone THEN seen \ {p} ELSE seen \cup {p}
  /\ pending' = [pending EXCEPT ![p] =
       IF disk[p] = Gone THEN (IF p \in seen THEN "removed" ELSE "none")
       ELSE IF p \in seen THEN "modified" ELSE "added"]
  /\ UNCHANGED <<diskVars, memory, trailVars, phase, mishaps>>

(***************************************************************************)
(* handleChange of both watchers.                                          *)
(***************************************************************************)
Events == [path : Watched, type : {"added", "modified", "removed", "scan"},
           hash : Contents \cup {Gone}, prev : Contents \cup {Gone}]
Event(p, type, hash, prev) == [path |-> p, type |-> type, hash |-> hash, prev |-> prev]

(* What may fail on the way, and is only logged. *)
Faults == {"none"} \cup (IF mishaps < MaxMishaps THEN {"manifest", "event"} ELSE {})

(* The manifest in memory, and the store's. *)
SetManifest(p, h, fault) ==
  /\ manifest' = [manifest EXCEPT ![p] = h]
  /\ IF fault = "manifest" THEN unsaved' = unsaved \cup {p} /\ UNCHANGED saved
     ELSE saved' = [saved EXCEPT ![p] = h] /\ UNCHANGED unsaved

(* limiter.append, one event after the other: written, or made to wait      *)
(* behind those that wait already, or lost.                                 *)
AppendEvents(p, events, fault) ==
  IF fault = "event" THEN lost' = lost \cup {p} /\ UNCHANGED <<rows, queue>>
  ELSE /\ \/ queue = <<>> /\ rows' = rows \o events /\ UNCHANGED queue
          \/ queue' = queue \o events /\ UNCHANGED rows
       /\ UNCHANGED lost

(* The path now has hash h: remember it, then report it. *)
Record(p, h, events) ==
  \E fault \in Faults :
    /\ SetManifest(p, h, fault) /\ AppendEvents(p, events, fault)
    /\ mishaps' = IF fault = "none" THEN mishaps ELSE mishaps + 1

(* ConfigWatcher scans what was added or modified, and appends what it found. *)
Findings(p, h) ==
  IF p \in ConfigPaths /\ h \in Flagged THEN <<Event(p, "scan", h, h)>> ELSE <<>>

HandleRemoved(p) ==
  IF manifest[p] = Gone THEN UNCHANGED <<memory, trailVars, mishaps>>
  ELSE Record(p, Gone, <<Event(p, "removed", manifest[p], manifest[p])>>)

(* Mutant: the first sight of a file sets its baseline and is not reported. *)
HandleWrittenAsBaseline(p) ==
  LET h == FileHash(p)
  IN  IF h = Gone \/ h = manifest[p] THEN UNCHANGED <<memory, trailVars, mishaps>>
      ELSE Record(p, h, IF manifest[p] = Gone THEN <<>>
                        ELSE <<Event(p, pending[p], h, manifest[p])>> \o Findings(p, h))

(* The hash is that of the file as it is now, not as it was when noticed. *)
HandleWritten(p) ==
  LET h    == FileHash(p)
      type == IF manifest[p] = Gone THEN "added" ELSE pending[p]
  IN  IF h = Gone \/ h = manifest[p] THEN UNCHANGED <<memory, trailVars, mishaps>>
      ELSE Record(p, h, <<Event(p, type, h, manifest[p])>> \o Findings(p, h))

(* Callbacks still run while chokidar closes. *)
HandleChange(p) ==
  /\ phase \in {"watching", "stopping"} /\ pending[p] # "none"
  /\ pending' = [pending EXCEPT ![p] = "none"]
  /\ IF pending[p] = "removed" THEN HandleRemoved(p) ELSE HandleWritten(p)
  /\ UNCHANGED <<diskVars, seen, dirty, phase>>

(* The limiter's timer writes what waits. *)
Drain ==
  /\ queue # <<>> /\ rows' = rows \o queue /\ queue' = <<>>
  /\ UNCHANGED <<diskVars, chokidar, memory, phase, lost, mishaps>>

(***************************************************************************)
(* Life cycle.                                                             *)
(***************************************************************************)
(* syncPluginsManifest: rows for the plugins there are, none for vanished ones. *)
SyncedPlugins ==
  [p \in Path |-> IF p \notin PluginPaths THEN saved[p]
                  ELSE IF disk[p] = Gone THEN Gone
                  ELSE IF FileHash(p) = Gone THEN saved[p] ELSE disk[p]]

(* Mutant: a start forgets the manifests of the last run. *)
LoadNothing ==
  /\ phase = "down" /\ phase' = "loaded"
  /\ manifest' = [p \in Watched |-> Gone] /\ saved' = SyncedPlugins
  /\ UNCHANGED <<diskVars, chokidar, trailVars, unsaved, mishaps>>

(* start() of both watchers: the manifests come from the store. *)
Load ==
  /\ phase = "down" /\ phase' = "loaded"
  /\ manifest' = [p \in Watched |-> saved[p]] /\ saved' = SyncedPlugins
  /\ UNCHANGED <<diskVars, chokidar, trailVars, unsaved, mishaps>>

(* The watchers stop before retention does. *)
StopWatching ==
  /\ phase = "watching" /\ phase' = "stopping"
  /\ UNCHANGED <<diskVars, chokidar, memory, trailVars, mishaps>>

(* Memory is gone, and with it what the path's events had not reached the log. *)
ProcessGone == phase' = "down" /\ pending' = [p \in Watched |-> "none"] /\ queue' = <<>>

Flush ==
  /\ phase = "stopping" /\ ProcessGone /\ rows' = rows \o queue
  /\ UNCHANGED <<diskVars, seen, dirty, memory, lost, mishaps>>

Crash ==
  /\ phase # "down" /\ mishaps < MaxMishaps /\ mishaps' = mishaps + 1
  /\ ProcessGone /\ lost' = lost \cup {queue[i].path : i \in DOMAIN queue}
  /\ UNCHANGED <<diskVars, seen, dirty, memory, rows>>

Next ==
  \/ \E p \in Path : \E c \in Disk : Write(p, c)
  \/ \E p \in Watched : Notice(p) \/ HandleChange(p)
  \/ InitialScan \/ Drain \/ Load \/ StopWatching \/ Flush \/ Crash

Spec == Init /\ [][Next]_watchVars

Progress == InitialScan \/ Drain \/ Load \/ \E p \in Watched : Notice(p) \/ HandleChange(p)

(***************************************************************************)
(* The inventory.                                                          *)
(***************************************************************************)
Live(p) == disk[p] # Gone

(* The live files below the roots: of two with the same id only the one     *)
(* under the root of higher precedence.                                     *)
Winners(roots) ==
  LET Rank(p) == CHOOSE i \in DOMAIN roots : roots[i] = p.root
      Found   == {p \in ConfigPaths : p.root \in ToSet(roots) /\ Live(p)}
  IN  {p \in Found : \A q \in Found : q.id = p.id => Rank(p) <= Rank(q)}

(* Manifests whose file is gone. *)
Orphans(paths) == {p \in paths : saved[p] # Gone /\ ~Live(p)}

Item(p) == [path |-> p, live |-> Live(p), captured |-> saved[p] # Gone,
            hash |-> IF saved[p] # Gone THEN saved[p] ELSE FileHash(p)]

OfRoots(roots) == {p \in ConfigPaths : p.root \in ToSet(roots)}

(* collectFromRoots with appendOrphans *)
Collect(roots) == {Item(p) : p \in Winners(roots) \cup Orphans(OfRoots(roots))}

(* countSummary *)
CountOf(roots) ==
  Cardinality({p.id : p \in {q \in OfRoots(roots) : Live(q)}}) + Cardinality(Orphans(OfRoots(roots)))

(* readJobsJson: the ids in jobs.json, none if it cannot be read. *)
Jobs == IF disk[JobsPath] \in Contents THEN JobsIn[disk[JobsPath]] ELSE {}

(* Mutant: without jobs.json no cron is listed. *)
ListCronsOfJobs == Jobs

(* listConfiguredCrons, what the reports name: a legacy file that cannot be *)
(* read still counts.                                                       *)
ListConfiguredCrons == Jobs \cup {p.id : p \in {q \in LegacyCrons : Live(q)}}

(* collectCrons: the jobs, the legacy files of other ids, the orphans. *)
CronOrphans  == Orphans(LegacyCrons \cup {JobsPath})
CollectCrons ==
  {[id |-> j, live |-> TRUE] : j \in Jobs}
  \cup {[id |-> p.id, live |-> TRUE] : p \in {q \in LegacyCrons : Live(q) /\ q.id \notin Jobs}}
  \cup {[id |-> p, live |-> FALSE] : p \in CronOrphans}

CountCrons ==
  LET stems == {p.id : p \in {q \in LegacyCrons : Live(q)}}
  IN  Cardinality(stems) + Cardinality(Jobs \ stems) + Cardinality(CronOrphans)

-----------------------------------------------------------------------------
(* Properties. *)

(* The log followed by the buffer. *)
Log == rows \o queue

(* The hash a path has after a change, and the changes of path p among the  *)
(* first n events.                                                          *)
After(e) == IF e.type = "removed" THEN Gone ELSE e.hash
Changes(log, n, p) == {i \in 1 .. n : log[i].path = p /\ log[i].type # "scan"}

(* The first n events say that path p has hash h. *)
Says(log, n, p, h) ==
  LET changes == Changes(log, n, p)
  IN  IF changes = {} THEN h = Gone
      ELSE \E i \in changes : (\A j \in changes : j <= i) /\ h = After(log[i])

(* Each change of p starts from where the last one ended. *)
Chained(log, p) == \A i \in Changes(log, Len(log), p) : Says(log, i - 1, p, log[i].prev)

(* The stored manifest, from which the next process goes on, says what the  *)
(* log says: no crash, stop or change on the way separates the two, unless  *)
(* an event was lost or a manifest write failed.                            *)
ManifestMatchesLog == \A p \in Watched \ (lost \cup unsaved) : Says(Log, Len(Log), p, saved[p])

(* The previousHash and contentHash of a path's events form a chain across  *)
(* restarts: each event starts from where the last one ended.               *)
HashesChain == \A p \in Watched \ (lost \cup unsaved) : Chained(Log, p)

(* As long as the gateway stays up in the end, what a skill, tool or cron   *)
(* file holds is what the log says, changes while it was down included.     *)
ConfigRecorded ==
  <>[](phase = "watching") =>
  <>[](\A p \in ConfigPaths \ (lost \cup unsaved) : disk[p] \in Contents => Says(Log, Len(Log), p, disk[p]))

(* The inventory's summary counts what its listings list, for skills and    *)
(* for crons; the crons listed are those the reports name; and with nothing *)
(* left to notice, the hash a live skill is listed with is the one on disk. *)
Quiet == phase = "watching" /\ dirty = {} /\ \A p \in Watched : pending[p] = "none"
InventoryRight ==
  /\ CountOf(SkillRoots) = Cardinality(Collect(SkillRoots))
  /\ CountCrons = Cardinality(CollectCrons)
  /\ {x.id : x \in {y \in CollectCrons : y.live}} = ListConfiguredCrons
  /\ Quiet => \A x \in Collect(SkillRoots) :
       x.live /\ disk[x.path] \in Contents /\ x.path \notin unsaved => x.hash = disk[x.path]

-----------------------------------------------------------------------------
(* The inductive invariant. *)

TypeOK ==
  /\ disk \in [Path -> Disk] /\ seen \subseteq Watched /\ dirty \subseteq Watched
  /\ pending \in [Watched -> {"none", "added", "modified", "removed"}]
  /\ manifest \in [Watched -> Contents \cup {Gone}] /\ saved \in [Path -> Contents \cup {Gone}]
  /\ phase \in {"down", "loaded", "watching", "stopping"}
  /\ rows \in Seq(Events) /\ queue \in Seq(Events)
  /\ lost \subseteq Watched /\ unsaved \subseteq Watched

(* What is remembered and what is stored differ only by a failed write. *)
InStep == phase # "down" => \A p \in Watched \ unsaved : manifest[p] = saved[p]

(* What chokidar is still to notice or to report is all a config path's     *)
(* manifest can miss, and a removal it reports is one, or else followed by  *)
(* another change.                                                          *)
Known ==
  \A p \in ConfigPaths \ dirty :
    phase = "watching" =>
      /\ pending[p] = "none" /\ disk[p] \in Contents => manifest[p] = disk[p]
      /\ pending[p] = "removed" => disk[p] = Gone

(* A buffer is never left behind by a process that is gone. *)
NoneWaits == phase = "down" => queue = <<>>

WInv == TypeOK /\ InStep /\ Known /\ NoneWaits /\ ManifestMatchesLog /\ HashesChain
==============================================================================
