----------------------------- MODULE SmtService -----------------------------
(***************************************************************************)
(* The tamper-evidence pipeline of one gateway process: the audit table,   *)
(* the in-memory sparse Merkle tree (SmtService, smt-logic, TreeManager),  *)
(* the two checkpoint files, and what a crash, a stop and a restart do to  *)
(* them.                                                                   *)
(*                                                                         *)
(* An audit event is its sequence number.  The two leaves of an event (raw *)
(* and censored) are always added together, so a leaf pair is one record:  *)
(*   seq   the event                                                       *)
(*   no    the seqNo of the raw leaf (the censored leaf has no + 1)        *)
(*   prev  the event whose entry ended the conversation chain at insertion *)
(*         time: a singleton, or {} for a null chainPrev                   *)
(* Two trees have the same root exactly when they hold the same records.   *)
(*                                                                         *)
(* Faults names what the environment may do beside appending, stopping and *)
(* crashing between two checkpoints:                                       *)
(*   "early"  events arrive before start() has restored the tree           *)
(*   "torn"   the tree DB and _metadata.json are not written together: a   *)
(*            crash between the two, or one of the two writes failing      *)
(*   "idle"   an epoch is pruned that holds a conversation's newest entry  *)
(*   "again"  the epoch that is still being filled is pruned               *)
(*   "shrink" a restart lowers smt.maxTreeSize                             *)
(*   "wipe"   an operator deletes the tree DB and leaves _metadata.json    *)
(***************************************************************************)
EXTENDS Integers, Sequences, FiniteSets

CONSTANTS
  Conv,        (* conversations (sessionId, or the machine id without one) *)
  MaxSeq,      (* bound on the number of audit events                      *)
  Caps,        (* values of smt.maxTreeSize, in leaves                     *)
  PruneAfter,  (* smt.pruneAfterEpochs; 0 disables autoPrune               *)
  MaxEpoch,    (* bound on the clock, in epochs                            *)
  MaxMishaps,  (* bound on crashes, failed writes and wipes, together      *)
  MaxQueued,   (* bound on the checkpoint requests waiting in the chain    *)
  Faults

ASSUME SmtAssumption ==
  /\ MaxSeq \in Nat
  /\ Caps \subseteq Nat /\ Caps # {}
  /\ PruneAfter \in Nat /\ MaxEpoch \in Nat
  /\ MaxMishaps \in Nat /\ MaxQueued \in Nat \ {0}
  /\ Faults \subseteq {"early", "torn", "idle", "again", "shrink", "wipe"}

VARIABLES
  rows,           (* audit_events: the conversation of each sequence       *)
  skipRow,        (* service_health "smt-skipped-seqs", in the audit DB    *)
  treeFile,       (* <checkpointDir>/<treeKey>.db                          *)
  metaFile,       (* <checkpointDir>/_metadata.json                        *)
  now,            (* the clock, in epochs                                  *)
  cap,            (* smt.maxTreeSize of this process                       *)
  mishaps,        (* crashes, failed writes and wipes so far               *)
  phase,          (* where the plugin's life cycle stands                  *)
  tree,           (* the leaf pairs in memory                              *)
  frozen,         (* events whose leaves are frozen                        *)
  treeOpen,       (* TreeManager.trees has the active key                  *)
  restoredCursor, (* TreeManager.restoredCursors of the active key         *)
  seqNo,          (* last seqNo issued                                     *)
  live,           (* epochEntries, which are also the chain entries        *)
  exported,       (* exportedProofs                                        *)
  lastInserted,   (* lastInsertedSeq                                       *)
  skipped,        (* skippedSeqs                                           *)
  needsFirst,     (* needsFirstCheckpoint                                  *)
  queued,         (* checkpoint() calls whose work has not begun           *)
  writing,        (* the _metadata.json being written                      *)
  replayPos       (* next sequence replayEvents feeds                      *)

durable  == <<rows, skipRow, treeFile, metaFile>>
env      == <<now, cap, mishaps>>
trees    == <<tree, frozen, treeOpen, restoredCursor>>
metadata == <<seqNo, live, exported, lastInserted, skipped>>
chain    == <<needsFirst, queued, writing>>
vars     == <<durable, env, phase, trees, metadata, chain, replayPos>>

-----------------------------------------------------------------------------
(* Values. *)

Epochs   == 0 .. MaxEpoch
Leaf     == [seq : Nat, no : Nat, prev : SUBSET Nat]
Entry    == [seq : Nat, epoch : Epochs]
NoCursor == -1

TreeFile == [exists : BOOLEAN, leaves : SUBSET Leaf, frozen : SUBSET Nat, cursor : Nat]
MetaFile == [exists : BOOLEAN, seqNo : Nat, live : SUBSET Entry,
             exported : [Epochs -> SUBSET Nat], cursor : Nat]
Phases   == {"down", "registered", "restoring", "replaying", "up", "stopping", "final"}

NoExports  == [ep \in Epochs |-> {}]
NoTreeFile == [exists |-> FALSE, leaves |-> {}, frozen |-> {}, cursor |-> 0]
NoMetaFile == [exists |-> FALSE, seqNo |-> 0, live |-> {}, exported |-> NoExports,
               cursor |-> 0]

(* The events with a leaf in t. *)
Leaves(t) == {l.seq : l \in t}

(* The greatest element of S, as a set: {} when S is empty. *)
Newest(S) == {s \in S : \A r \in S : r <= s}

(* The entries of conversation c that its chain still holds. *)
ChainOf(c) == {x.seq : x \in {y \in live : y.seq \in DOMAIN rows /\ rows[y.seq] = c}}

(* What checkpointAll and checkpointMetadata capture. *)
TreeSnapshot == [exists |-> TRUE, leaves |-> tree, frozen |-> frozen,
                 cursor |-> lastInserted]

(* Mutants: _metadata.json omits the entries, the proofs. *)
MetaSnapshotNoEntries ==
  [exists |-> TRUE, seqNo |-> seqNo, live |-> {}, exported |-> exported,
   cursor |-> lastInserted]
MetaSnapshotNoProofs ==
  [exists |-> TRUE, seqNo |-> seqNo, live |-> live, exported |-> NoExports,
   cursor |-> lastInserted]

MetaSnapshot == [exists |-> TRUE, seqNo |-> seqNo, live |-> live,
                 exported |-> exported, cursor |-> lastInserted]

-----------------------------------------------------------------------------
(* A process that has not registered yet holds nothing. *)
Init ==
  /\ rows = <<>> /\ skipRow = {}
  /\ treeFile = NoTreeFile /\ metaFile = NoMetaFile
  /\ now = 0 /\ cap \in Caps /\ mishaps = 0
  /\ phase = "down"
  /\ tree = {} /\ frozen = {} /\ treeOpen = FALSE /\ restoredCursor = NoCursor
  /\ seqNo = 0 /\ live = {} /\ exported = NoExports /\ lastInserted = 0 /\ skipped = {}
  /\ needsFirst = TRUE /\ queued = 0 /\ writing = NoMetaFile
  /\ replayPos = 0

(* The memory of a process is lost when it ends. *)
LoseMemory ==
  /\ phase' = "down"
  /\ tree' = {} /\ frozen' = {} /\ treeOpen' = FALSE /\ restoredCursor' = NoCursor
  /\ seqNo' = 0 /\ live' = {} /\ exported' = NoExports /\ lastInserted' = 0
  /\ skipped' = {}
  /\ needsFirst' = TRUE /\ queued' = 0 /\ writing' = NoMetaFile
  /\ replayPos' = 0

(* A continuation runs only once the promise jobs before it have run: no    *)
(* checkpoint request is left that could begin.                             *)
Drained == queued = 0 \/ writing.exists

-----------------------------------------------------------------------------
(* onEventAppended: insert, skip or swallow. *)

Rejects(e) == e \in frozen \/ 2 * Cardinality(tree) + 2 > cap

MarkSkipped(e) ==
  /\ skipped' = skipped \cup {e}
  /\ skipRow' = skipped \cup {e}
  /\ UNCHANGED <<tree, seqNo, live, lastInserted>>

(* The tree's add throws on a key it holds, after a seqNo has been issued;  *)
(* onEventAppended swallows the exception.                                  *)
ThrowDuplicate ==
  /\ seqNo' = seqNo + 1
  /\ UNCHANGED <<tree, live, lastInserted, skipped, skipRow>>

InsertEntry(e, c) ==
  /\ tree' = tree \cup {[seq |-> e, no |-> seqNo + 1, prev |-> Newest(ChainOf(c))]}
  /\ seqNo' = seqNo + 2
  /\ live' = live \cup {[seq |-> e, epoch |-> now]}
  /\ lastInserted' = IF e > lastInserted THEN e ELSE lastInserted
  /\ skipped' = skipped \ {e}
  /\ skipRow' = IF e \in skipped THEN skipped \ {e} ELSE skipRow

Inserted(e) == ~Rejects(e) /\ e \notin Leaves(tree)

Feed(e, c) ==
  /\ treeOpen' = TRUE
  /\ \/ Rejects(e) /\ MarkSkipped(e)
     \/ ~Rejects(e) /\ e \in Leaves(tree) /\ ThrowDuplicate
     \/ Inserted(e) /\ InsertEntry(e, c)
  /\ UNCHANGED <<frozen, restoredCursor, exported>>

(* The first insertion of a process asks for a checkpoint. *)
FirstCheckpoint(e) ==
  IF Inserted(e) /\ needsFirst
    THEN needsFirst' = FALSE /\ queued' = queued + 1
    ELSE UNCHANGED <<needsFirst, queued>>

(* A hook appends a row and hands it to the SMT, in one synchronous call.   *)
OnEventAppended(c) ==
  /\ phase = "up" \/ ("early" \in Faults /\ phase \in {"registered", "restoring"})
  /\ Len(rows) < MaxSeq
  /\ rows' = Append(rows, c)
  /\ Feed(Len(rows) + 1, c)
  /\ FirstCheckpoint(Len(rows) + 1)
  /\ UNCHANGED <<treeFile, metaFile, env, phase, writing, replayPos>>

-----------------------------------------------------------------------------
(* Starting: register, restore, replay. *)

Register ==
  /\ phase = "down"
  /\ phase' = "registered"
  /\ cap' \in Caps
  /\ cap' >= cap \/ "shrink" \in Faults
  /\ UNCHANGED <<durable, now, mishaps, trees, metadata, chain, replayPos>>

(* ensureReady up to the await of restoreMetadata's read: the tree comes    *)
(* from its DB if there is one, the skips from the audit DB if it has the   *)
(* row, and the metadata maps are cleared.                                  *)
StartRestore ==
  /\ phase = "registered" /\ Drained
  /\ phase' = "restoring"
  /\ IF treeFile.exists
       THEN /\ tree' = treeFile.leaves /\ frozen' = treeFile.frozen
            /\ treeOpen' = TRUE /\ restoredCursor' = treeFile.cursor
       ELSE UNCHANGED trees
  /\ skipped' = skipRow
  /\ seqNo' = 0 /\ live' = {} /\ exported' = NoExports
  /\ UNCHANGED <<durable, env, lastInserted, chain, replayPos>>

(* Mutant: the metadata's cursor trusted over the absence of a tree. *)
RestoredLastMeta(fromMeta) == IF restoredCursor = NoCursor THEN fromMeta ELSE restoredCursor

(* getRestoredCursor: an empty manager replays everything, a tree without a *)
(* cursor leaves the decision to the metadata.                              *)
RestoredLast(fromMeta) ==
  IF ~treeOpen THEN 0
  ELSE IF restoredCursor = NoCursor THEN fromMeta
  ELSE restoredCursor

(* The rest of ensureReady and, when rows are pending, the call of          *)
(* replayEvents, which then runs without yielding.                          *)
FinishRestore ==
  /\ phase = "restoring" /\ Drained
  /\ IF metaFile.exists
       THEN /\ seqNo' = metaFile.seqNo /\ live' = metaFile.live
            /\ exported' = metaFile.exported
            /\ lastInserted' = RestoredLast(metaFile.cursor)
       ELSE /\ UNCHANGED <<seqNo, live, exported>>
            /\ lastInserted' = RestoredLast(lastInserted)
  /\ phase' = IF lastInserted' < Len(rows) THEN "replaying" ELSE "up"
  /\ replayPos' = lastInserted' + 1
  /\ UNCHANGED <<durable, env, trees, skipped, chain>>

ReplayStep ==
  /\ phase = "replaying" /\ replayPos <= Len(rows)
  /\ Feed(replayPos, rows[replayPos])
  /\ replayPos' = replayPos + 1
  /\ UNCHANGED <<rows, treeFile, metaFile, env, phase, chain>>

ReplayDone ==
  /\ phase = "replaying" /\ replayPos > Len(rows)
  /\ phase' = "up"
  /\ needsFirst' = FALSE /\ queued' = queued + 1
  /\ UNCHANGED <<durable, env, trees, metadata, writing, replayPos>>

-----------------------------------------------------------------------------
(* Checkpoints: requests form a chain; each writes the tree DB in one       *)
(* transaction, then _metadata.json through a rename.                       *)

(* Mutant: a timeout where the code has an interval. *)
CheckpointTimerOnce ==
  /\ phase = "up" /\ queued < MaxQueued /\ ~treeFile.exists
  /\ queued' = queued + 1
  /\ UNCHANGED <<durable, env, phase, trees, metadata, needsFirst, writing, replayPos>>

CheckpointTimer ==
  /\ phase = "up" /\ queued < MaxQueued
  /\ queued' = queued + 1
  /\ UNCHANGED <<durable, env, phase, trees, metadata, needsFirst, writing, replayPos>>

Mishap == mishaps < MaxMishaps /\ mishaps' = mishaps + 1

(* checkpointAll: the tree with its cursor, in one transaction. *)
WriteTree ==
  /\ IF treeOpen THEN treeFile' = TreeSnapshot /\ restoredCursor' = lastInserted
                 ELSE UNCHANGED <<treeFile, restoredCursor>>
  /\ UNCHANGED mishaps

(* Mutants: the write is no transaction; it fails after the DELETE, or      *)
(* after the cursor.                                                        *)
LoseTreeWriteCleared ==
  /\ "torn" \in Faults /\ Mishap
  /\ treeFile' = [treeFile EXCEPT !.leaves = {}]
  /\ UNCHANGED restoredCursor
LoseTreeWriteCursor ==
  /\ "torn" \in Faults /\ Mishap
  /\ treeFile' = [treeFile EXCEPT !.cursor = lastInserted]
  /\ UNCHANGED restoredCursor

LoseTreeWrite ==
  "torn" \in Faults /\ Mishap /\ UNCHANGED <<treeFile, restoredCursor>>

WriteMeta    == metaFile' = writing /\ UNCHANGED mishaps
LoseMetaWrite == "torn" \in Faults /\ Mishap /\ UNCHANGED metaFile

StartCheckpoint ==
  /\ phase # "replaying" /\ queued > 0 /\ ~writing.exists
  /\ WriteTree \/ LoseTreeWrite
  /\ writing' = MetaSnapshot
  /\ queued' = queued - 1
  /\ UNCHANGED <<rows, skipRow, metaFile, now, cap, phase, tree, frozen, treeOpen,
                 metadata, needsFirst, replayPos>>

FinishCheckpoint ==
  /\ phase # "replaying" /\ writing.exists
  /\ WriteMeta \/ LoseMetaWrite
  /\ writing' = NoMetaFile
  /\ UNCHANGED <<rows, skipRow, treeFile, now, cap, phase, trees, metadata, needsFirst, queued,
                 replayPos>>

-----------------------------------------------------------------------------
(* Stopping and crashing. *)

Stop ==
  /\ phase = "up"
  /\ phase' = "stopping"
  /\ UNCHANGED <<durable, env, trees, metadata, chain, replayPos>>

(* stop() waits for the chain, then takes the final checkpoint. *)
FinalCheckpoint ==
  /\ phase = "stopping" /\ queued = 0 /\ ~writing.exists
  /\ phase' = "final"
  /\ WriteTree \/ LoseTreeWrite
  /\ writing' = MetaSnapshot
  /\ UNCHANGED <<rows, skipRow, metaFile, now, cap, tree, frozen, treeOpen, metadata,
                 needsFirst, queued, replayPos>>

Exit ==
  /\ phase = "final" /\ ~writing.exists
  /\ LoseMemory
  /\ UNCHANGED <<durable, env>>

Crash ==
  /\ phase # "down" /\ Mishap
  /\ writing.exists => "torn" \in Faults
  /\ LoseMemory
  /\ UNCHANGED <<durable, now, cap>>

(* An operator removes the tree DB while the gateway is down. *)
WipeTree ==
  /\ "wipe" \in Faults /\ phase = "down" /\ treeFile.exists /\ Mishap
  /\ treeFile' = NoTreeFile
  /\ UNCHANGED <<rows, skipRow, metaFile, now, cap, phase, trees, metadata, chain, replayPos>>

-----------------------------------------------------------------------------
(* Epochs. *)

Tick ==
  /\ now < MaxEpoch
  /\ now' = now + 1
  /\ UNCHANGED <<durable, cap, mishaps, phase, trees, metadata, chain, replayPos>>

InEpoch(ep) == {x.seq : x \in {y \in live : y.epoch = ep}}

(* No conversation ends in one of the epochs E. *)
KeepsTails(E) ==
  \A c \in Conv : \A s \in Newest(ChainOf(c)) : \A ep \in E : s \notin InEpoch(ep)

(* pruneEpoch for every epoch of E: export the proofs, freeze the leaves,   *)
(* forget the epoch and its chain entries.                                  *)
PruneEpochs(E) ==
  /\ phase = "up"
  /\ \E ep \in E : InEpoch(ep) # {}
  /\ "idle" \in Faults \/ KeepsTails(E)
  /\ "again" \in Faults \/ now \notin E
  /\ frozen' = frozen \cup UNION {InEpoch(ep) : ep \in E}
  /\ live' = {x \in live : x.epoch \notin E}
  /\ exported' = [ep \in Epochs |->
                    IF ep \in E /\ InEpoch(ep) # {} THEN InEpoch(ep) ELSE exported[ep]]
  /\ UNCHANGED <<durable, env, phase, tree, treeOpen, restoredCursor, seqNo, lastInserted,
                 skipped, chain, replayPos>>

(* The prune timer takes every epoch older than the cutoff, the prune_epoch *)
(* tool the one it is given.                                                *)
AutoPrune == PruneAfter > 0 /\ PruneEpochs({ep \in Epochs : ep < now - PruneAfter})
PruneTool == \E ep \in Epochs : PruneEpochs({ep})

-----------------------------------------------------------------------------
Next ==
  \/ \E c \in Conv : OnEventAppended(c)
  \/ Register \/ StartRestore \/ FinishRestore \/ ReplayStep \/ ReplayDone
  \/ CheckpointTimer \/ StartCheckpoint \/ FinishCheckpoint
  \/ Stop \/ FinalCheckpoint \/ Exit \/ Crash \/ WipeTree
  \/ Tick \/ AutoPrune \/ PruneTool

Spec == Init /\ [][Next]_vars

(* The host starts the plugin, file operations complete and the checkpoint  *)
(* interval keeps firing.                                                   *)
Fairness ==
  /\ WF_vars(Register) /\ WF_vars(StartRestore) /\ WF_vars(FinishRestore)
  /\ WF_vars(ReplayStep) /\ WF_vars(ReplayDone)
  /\ WF_vars(CheckpointTimer) /\ WF_vars(StartCheckpoint) /\ WF_vars(FinishCheckpoint)
  /\ WF_vars(FinalCheckpoint) /\ WF_vars(Exit)

FairSpec == Spec /\ Fairness

-----------------------------------------------------------------------------
(* The verifier's view: what replaying the rows from a clean state inserts. *)

Tracked == (1 .. Len(rows)) \ skipped

ReplayLeaf(e) ==
  LET before == {f \in Tracked : f < e}
  IN  [seq |-> e, no |-> 2 * Cardinality(before) + 1,
       prev |-> Newest({f \in before : rows[f] = rows[e]})]

CleanReplay ==
  {ReplayLeaf(e) : e \in {t \in Tracked : 2 * Cardinality({f \in Tracked : f <= t}) <= cap}}

-----------------------------------------------------------------------------
(* Properties. *)

TypeOK ==
  /\ rows \in Seq(Conv) /\ skipRow \in SUBSET Nat
  /\ treeFile \in TreeFile /\ metaFile \in MetaFile
  /\ now \in Epochs /\ cap \in Caps /\ mishaps \in 0 .. MaxMishaps
  /\ phase \in Phases
  /\ tree \in SUBSET Leaf /\ frozen \in SUBSET Nat
  /\ treeOpen \in BOOLEAN /\ restoredCursor \in Nat \cup {NoCursor}
  /\ seqNo \in Nat /\ live \in SUBSET Entry /\ exported \in [Epochs -> SUBSET Nat]
  /\ lastInserted \in Nat /\ skipped \in SUBSET Nat
  /\ needsFirst \in BOOLEAN /\ queued \in Nat /\ writing \in MetaFile
  /\ replayPos \in Nat

Serving == phase \in {"up", "stopping", "final"}

(* Every row the tree could hold is a leaf or a recorded skip: the "replay *)
(* path in service startup re-feeds any events that were appended before   *)
(* the SMT was ready", so classifyEvent calls no untouched row tampered.    *)
NothingLost ==
  Serving => \A e \in 1 .. Len(rows) : e \in Leaves(tree) \cup skipped

(* The cursor in the tree DB never outlives the leaves it claims: below it, *)
(* each row has a leaf in the DB or a skip in the audit DB, whatever crash  *)
(* or failed write came between.                                            *)
CursorHonest ==
  \A e \in 1 .. treeFile.cursor : e \in Leaves(treeFile.leaves) \cup skipRow

(* The verifier's replay tree is the tree the live insert path built, after *)
(* any history of crashes, replays, prunes and raised caps: an honest trail *)
(* is never reported as a mismatch.                                         *)
ReplayAgrees == Serving => tree = CleanReplay

(* A checkpointed leaf stays in the tree DB, with the number and the chain  *)
(* link it had: no later checkpoint writes a tree that lacks it, so a root  *)
(* once anchored stays provable.                                            *)
DurableLeavesKept ==
  [][treeFile'.exists => treeFile.leaves \subseteq treeFile'.leaves]_treeFile

(* Freezing loses no proof: whatever is frozen has an exported proof, also  *)
(* after a restart, though the two live in different files.                 *)
FrozenHasProof ==
  Serving => frozen \subseteq UNION {exported[ep] : ep \in Epochs}

(* Every row ends up in the tree DB, or in the durable skip set.            *)
AllDurable ==
  \A e \in 1 .. MaxSeq :
    e \in DOMAIN rows ~> e \in Leaves(treeFile.leaves) \cup skipRow

-----------------------------------------------------------------------------
(* The inductive invariant of a gateway to which no event arrives before    *)
(* start() has restored the tree.                                           *)

Loaded == phase \in {"restoring", "replaying", "up", "stopping", "final"}

CoveredBelow(n) == \A e \in 1 .. n : e \in Leaves(tree) \cup skipped

(* Before the restore nothing is in memory and no checkpoint is under way. *)
Unloaded ==
  /\ phase \in {"down", "registered"} => tree = {} /\ ~treeOpen
  /\ phase \in {"down", "registered", "restoring"} => queued = 0 /\ ~writing.exists

(* The file's cursor stays inside the log, and an absent file claims nothing. *)
FileWithinLog ==
  /\ treeFile.cursor <= Len(rows)
  /\ ~treeFile.exists => treeFile.cursor = 0 /\ treeFile.leaves = {}

(* Once loaded, memory holds at least what the files hold. *)
MemoryAhead ==
  /\ Loaded => skipped = skipRow /\ treeFile.leaves \subseteq tree
  /\ phase = "restoring" =>
       /\ treeOpen <=> treeFile.exists
       /\ treeOpen => restoredCursor = treeFile.cursor

(* A replay has fed every row below replayPos, and starts above the cursor. *)
ReplayProgress ==
  phase = "replaying" =>
    /\ replayPos \in 1 .. Len(rows) + 1
    /\ CoveredBelow(replayPos - 1)
    /\ lastInserted < replayPos /\ treeFile.cursor < replayPos

ServingCovered == Serving => CoveredBelow(Len(rows)) /\ lastInserted <= Len(rows)

(* What every step keeps, and what makes the cursor honest: a checkpoint is *)
(* taken only by a process whose memory is ahead of the files.              *)
IInv ==
  /\ TypeOK /\ CursorHonest /\ Unloaded /\ FileWithinLog /\ MemoryAhead
  /\ ReplayProgress /\ ServingCovered

-----------------------------------------------------------------------------
(* The inductive invariant of a gateway to which nothing happens beside     *)
(* appends, stops, crashes between two checkpoints, restarts with the same  *)
(* or a larger tree, and prunes that keep the chains: its tree holds the    *)
(* first events, in their order, and its two files are of one moment.       *)

(* The leaf of event e in a tree of the rows R without skips, and the tree  *)
(* of the first n.                                                          *)
LeafAt(R, e) == [seq |-> e, no |-> 2 * e - 1,
                 prev |-> Newest({f \in 1 .. e - 1 : R[f] = R[e]})]
Straight(R, n) == {LeafAt(R, e) : e \in 1 .. n}

(* The entries L end every conversation where the first n rows end it. *)
Chain(R, L, c) == {x.seq : x \in {y \in L : y.seq \in DOMAIN R /\ R[y.seq] = c}}
ChainsEnd(R, L, n) ==
  /\ \A x \in L : x.seq \in 1 .. n
  /\ \A c \in Conv : Newest(Chain(R, L, c)) = Newest({f \in 1 .. n : R[f] = c})

(* What is frozen has a proof in X, and an epoch that has proofs is over at *)
(* time t: none of the entries L is of it, so it is not exported again.     *)
ProofsKept(t, L, X, F) ==
  /\ F \subseteq UNION {X[ep] : ep \in Epochs}
  /\ \A y \in L : y.epoch <= t
  /\ \A ep \in Epochs : X[ep] # {} => ep < t /\ \A y \in L : y.epoch # ep

(* The metadata of the checkpoint whose tree is in the tree DB. *)
OnDisk == IF writing.exists THEN writing ELSE metaFile

FilesAgree ==
  /\ treeFile.cursor <= Len(rows) /\ 2 * treeFile.cursor <= cap
  /\ treeFile.leaves = Straight(rows, treeFile.cursor)
  /\ treeFile.frozen \subseteq 1 .. treeFile.cursor
  /\ ~treeFile.exists => treeFile.cursor = 0
  /\ skipRow \subseteq treeFile.cursor + 1 .. Len(rows)
  /\ ~metaFile.exists => metaFile = NoMetaFile
  /\ OnDisk.seqNo = 2 * treeFile.cursor
  /\ ChainsEnd(rows, OnDisk.live, treeFile.cursor)
  /\ ProofsKept(now, OnDisk.live, OnDisk.exported, treeFile.frozen)

NotRestored ==
  phase \in {"down", "registered"} =>
    tree = {} /\ frozen = {} /\ ~treeOpen /\ queued = 0 /\ ~writing.exists

HalfRestored ==
  phase = "restoring" =>
    /\ queued = 0 /\ ~writing.exists
    /\ seqNo = 0 /\ live = {} /\ exported = NoExports /\ skipped = skipRow
    /\ tree = treeFile.leaves /\ frozen = treeFile.frozen
    /\ treeOpen <=> treeFile.exists
    /\ treeOpen => restoredCursor = treeFile.cursor

(* The first n rows have been fed: those up to lastInserted have their leaf, *)
(* and the others are skipped because there is no room for one more.        *)
InLine(n) ==
  /\ treeFile.cursor <= lastInserted /\ lastInserted <= n /\ n <= Len(rows)
  /\ 2 * lastInserted <= cap /\ (lastInserted < n => 2 * lastInserted + 2 > cap)
  /\ tree = Straight(rows, lastInserted) /\ seqNo = 2 * lastInserted
  /\ ~treeOpen => lastInserted = 0
  /\ frozen \subseteq 1 .. lastInserted
  /\ skipped = skipRow /\ skipped \cap (1 .. n) = lastInserted + 1 .. n
  /\ ChainsEnd(rows, live, lastInserted)
  /\ ProofsKept(now, live, exported, frozen)

InOrder ==
  /\ phase = "replaying" => replayPos > 0 /\ InLine(replayPos - 1)
  /\ Serving => InLine(Len(rows))

RInv == TypeOK /\ FilesAgree /\ NotRestored /\ HalfRestored /\ InOrder
=============================================================================
