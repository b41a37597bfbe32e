-------------------------- MODULE SmtService_proofs --------------------------
(***************************************************************************)
(* What holds of SmtService for every value of its constants, however many *)
(* events, conversations, epochs and crashes there are.  What holds with   *)
(* the other faults excludes only "early", with which it is false (run     *)
(* smt_early); what is about the order of the tree excludes them all.      *)
(***************************************************************************)
EXTENDS SmtService, TLAPS, FiniteSetTheorems, WellFoundedInduction

(* Snapshots of well-typed memory are well-typed files. *)
LEMMA SnapshotType ==
  ASSUME TypeOK
  PROVE  TreeSnapshot \in TreeFile /\ MetaSnapshot \in MetaFile
BY DEF TypeOK, TreeSnapshot, MetaSnapshot, TreeFile, MetaFile

(* The empty files are well typed, and the ends of chains are events. *)
LEMMA EmptyType ==
  NoTreeFile \in TreeFile /\ NoMetaFile \in MetaFile /\ NoExports \in [Epochs -> SUBSET Nat]
BY DEF NoTreeFile, NoMetaFile, NoExports, TreeFile, MetaFile

LEMMA ChainType ==
  ASSUME TypeOK, NEW c
  PROVE  Newest(ChainOf(c)) \in SUBSET Nat
BY DEF TypeOK, Newest, ChainOf, Entry

(* Feeding an event keeps the memory and the skip row well typed. *)
LEMMA FeedType ==
  ASSUME TypeOK, NEW e \in Nat, NEW c, Feed(e, c)
  PROVE  /\ tree' \in SUBSET Leaf /\ seqNo' \in Nat /\ live' \in SUBSET Entry
         /\ lastInserted' \in Nat /\ skipped' \in SUBSET Nat /\ skipRow' \in SUBSET Nat
         /\ treeOpen' \in BOOLEAN
<1>1. treeOpen' \in BOOLEAN
  BY DEF Feed
<1>2. CASE MarkSkipped(e)
  BY <1>1, <1>2 DEF MarkSkipped, TypeOK
<1>3. CASE ThrowDuplicate
  BY <1>1, <1>3 DEF ThrowDuplicate, TypeOK
<1>4. CASE InsertEntry(e, c)
  <2>1. [seq |-> e, no |-> seqNo + 1, prev |-> Newest(ChainOf(c))] \in Leaf
    BY ChainType DEF Leaf, TypeOK
  <2>2. [seq |-> e, epoch |-> now] \in Entry
    BY DEF Entry, TypeOK
  <2>3. tree' \in SUBSET Leaf /\ live' \in SUBSET Entry
    BY <1>4, <2>1, <2>2 DEF InsertEntry, TypeOK
  <2>4. seqNo' \in Nat /\ lastInserted' \in Nat
    BY <1>4 DEF InsertEntry, TypeOK
  <2>5. skipped' \in SUBSET Nat /\ skipRow' \in SUBSET Nat
    BY <1>4 DEF InsertEntry, TypeOK
  <2> QED  BY <1>1, <2>3, <2>4, <2>5
<1> QED  BY <1>2, <1>3, <1>4 DEF Feed

(* A write to the tree DB, done or lost, leaves a well-typed file. *)
LEMMA TreeWriteType ==
  ASSUME TypeOK, WriteTree \/ LoseTreeWrite
  PROVE  /\ treeFile' \in TreeFile /\ restoredCursor' \in Nat \cup {NoCursor}
         /\ mishaps' \in 0 .. MaxMishaps
BY SnapshotType, SmtAssumption
   DEF TypeOK, WriteTree, LoseTreeWrite, Mishap, SmtAssumption

(* Memory of the next process. *)
LEMMA LoseMemoryType ==
  ASSUME LoseMemory
  PROVE  /\ phase' \in Phases
         /\ tree' \in SUBSET Leaf /\ frozen' \in SUBSET Nat
         /\ treeOpen' \in BOOLEAN /\ restoredCursor' \in Nat \cup {NoCursor}
         /\ seqNo' \in Nat /\ live' \in SUBSET Entry /\ exported' \in [Epochs -> SUBSET Nat]
         /\ lastInserted' \in Nat /\ skipped' \in SUBSET Nat
         /\ needsFirst' \in BOOLEAN /\ queued' \in Nat /\ writing' \in MetaFile
         /\ replayPos' \in Nat
BY EmptyType DEF LoseMemory, Phases

LEMMA TypeInit == Init => TypeOK
BY EmptyType, SmtAssumption DEF Init, TypeOK, SmtAssumption, Phases, Epochs, NoCursor

(* Every step keeps the types. *)
LEMMA TypeStep == TypeOK /\ [Next]_vars => TypeOK'
<1> SUFFICES ASSUME TypeOK, [Next]_vars PROVE TypeOK'
  OBVIOUS
<1> USE SmtAssumption DEF SmtAssumption
<1>1. ASSUME NEW c \in Conv, OnEventAppended(c) PROVE TypeOK'
  <2>1. Len(rows) + 1 \in Nat /\ rows' \in Seq(Conv)
    BY <1>1 DEF OnEventAppended, TypeOK
  <2>2. Feed(Len(rows) + 1, c) /\ FirstCheckpoint(Len(rows) + 1)
    BY <1>1 DEF OnEventAppended
  <2>3. /\ tree' \in SUBSET Leaf /\ seqNo' \in Nat /\ live' \in SUBSET Entry
        /\ lastInserted' \in Nat /\ skipped' \in SUBSET Nat /\ skipRow' \in SUBSET Nat
        /\ treeOpen' \in BOOLEAN
    BY <2>1, <2>2, FeedType
  <2>4. needsFirst' \in BOOLEAN /\ queued' \in Nat
    <3>1. needsFirst \in BOOLEAN /\ queued \in Nat
      BY DEF TypeOK
    <3>2. \/ needsFirst' = FALSE /\ queued' = queued + 1
          \/ needsFirst' = needsFirst /\ queued' = queued
      BY <2>2, Zenon DEF FirstCheckpoint
    <3>3. queued' \in Nat
      BY <3>1, <3>2, SMT
    <3>4. needsFirst' \in BOOLEAN
      BY <3>1, <3>2, Zenon
    <3> QED  BY <3>3, <3>4
  <2> QED  BY <1>1, <2>1, <2>2, <2>3, <2>4 DEF OnEventAppended, Feed, TypeOK, env
<1>2. CASE Register
  BY <1>2 DEF Register, TypeOK, durable, trees, metadata, chain, Phases
<1>3. CASE StartRestore
  BY <1>3, EmptyType
     DEF StartRestore, TypeOK, durable, env, trees, chain, Phases, TreeFile
<1>4. CASE FinishRestore
  <2>1. lastInserted' \in Nat
    BY <1>4 DEF FinishRestore, RestoredLast, TypeOK, MetaFile, NoCursor
  <2>2. seqNo' \in Nat /\ live' \in SUBSET Entry /\ exported' \in [Epochs -> SUBSET Nat]
    BY <1>4 DEF FinishRestore, TypeOK, MetaFile
  <2>3. phase' \in Phases
    BY <1>4 DEF FinishRestore, Phases
  <2>4. replayPos' \in Nat
    <3>1. replayPos' = lastInserted' + 1
      BY <1>4 DEF FinishRestore
    <3>2. \A n \in Nat : n + 1 \in Nat
      OBVIOUS
    <3> QED  BY <2>1, <3>1, <3>2, Zenon
  <2> QED  BY <1>4, <2>1, <2>2, <2>3, <2>4 DEF FinishRestore, TypeOK, durable, env, trees, chain
<1>5. CASE ReplayStep
  <2>1. Feed(replayPos, rows[replayPos])
    BY <1>5 DEF ReplayStep
  <2>2. /\ tree' \in SUBSET Leaf /\ seqNo' \in Nat /\ live' \in SUBSET Entry
        /\ lastInserted' \in Nat /\ skipped' \in SUBSET Nat /\ skipRow' \in SUBSET Nat
        /\ treeOpen' \in BOOLEAN
    BY <2>1, FeedType DEF TypeOK
  <2> QED  BY <1>5, <2>1, <2>2 DEF ReplayStep, Feed, TypeOK, env, chain
<1>6. CASE ReplayDone
  <2>1. phase' \in Phases /\ queued' \in Nat
    BY <1>6 DEF ReplayDone, Phases, TypeOK
  <2>2. needsFirst' \in BOOLEAN
    BY <1>6 DEF ReplayDone
  <2> QED  BY <1>6, <2>1, <2>2 DEF ReplayDone, TypeOK, durable, env, trees, metadata
<1>7. CASE CheckpointTimer
  BY <1>7 DEF CheckpointTimer, TypeOK, durable, env, trees, metadata
<1>8. CASE StartCheckpoint
  <2>1. WriteTree \/ LoseTreeWrite
    BY <1>8 DEF StartCheckpoint
  <2>2. queued' \in Nat /\ writing' \in MetaFile
    BY <1>8, SnapshotType DEF StartCheckpoint, TypeOK
  <2> QED  BY <1>8, <2>1, <2>2, TreeWriteType DEF StartCheckpoint, TypeOK, metadata
<1>9. CASE FinishCheckpoint
  BY <1>9, EmptyType
     DEF FinishCheckpoint, WriteMeta, LoseMetaWrite, Mishap, TypeOK, trees, metadata
<1>10. CASE Stop
  BY <1>10 DEF Stop, TypeOK, durable, env, trees, metadata, chain, Phases
<1>11. CASE FinalCheckpoint
  <2>1. WriteTree \/ LoseTreeWrite
    BY <1>11 DEF FinalCheckpoint
  <2>2. phase' \in Phases /\ writing' \in MetaFile
    BY <1>11, SnapshotType DEF FinalCheckpoint, Phases
  <2> QED  BY <1>11, <2>1, <2>2, TreeWriteType DEF FinalCheckpoint, TypeOK, metadata
<1>12. CASE Exit
  BY <1>12, LoseMemoryType DEF Exit, TypeOK, durable, env
<1>13. CASE Crash
  BY <1>13, LoseMemoryType DEF Crash, Mishap, TypeOK, durable
<1>14. CASE WipeTree
  BY <1>14, EmptyType DEF WipeTree, Mishap, TypeOK, trees, metadata, chain
<1>15. CASE Tick
  BY <1>15 DEF Tick, TypeOK, Epochs, durable, trees, metadata, chain
<1>16. ASSUME NEW E \in SUBSET Epochs, PruneEpochs(E) PROVE TypeOK'
  <2>1. \A ep : InEpoch(ep) \in SUBSET Nat
    BY DEF InEpoch, TypeOK, Entry
  <2>2. frozen' \in SUBSET Nat
    <3>1. UNION {InEpoch(ep) : ep \in E} \in SUBSET Nat
      BY <2>1
    <3>2. frozen \in SUBSET Nat /\ frozen' = frozen \cup UNION {InEpoch(ep) : ep \in E}
      BY <1>16 DEF PruneEpochs, TypeOK
    <3> QED  BY <3>1, <3>2
  <2>3. live' \in SUBSET Entry
    BY <1>16 DEF PruneEpochs, TypeOK
  <2>4. exported' \in [Epochs -> SUBSET Nat]
    BY <1>16, <2>1 DEF PruneEpochs, TypeOK
  <2> QED  BY <1>16, <2>2, <2>3, <2>4 DEF PruneEpochs, TypeOK, durable, env, chain
<1>17. CASE AutoPrune
  BY <1>16, <1>17 DEF AutoPrune
<1>18. CASE PruneTool
  BY <1>16, <1>18 DEF PruneTool
<1>19. CASE UNCHANGED vars
  BY <1>19 DEF vars, TypeOK, durable, env, trees, metadata, chain
<1> QED
  BY <1>1, <1>2, <1>3, <1>4, <1>5, <1>6, <1>7, <1>8, <1>9, <1>10, <1>11, <1>12, <1>13,
     <1>14, <1>15, <1>17, <1>18, <1>19 DEF Next

(* Type correctness, whatever the faults. *)
THEOREM TypeCorrect == Spec => []TypeOK
BY TypeInit, TypeStep, PTL DEF Spec

-----------------------------------------------------------------------------
(* The inductive invariant.  Every lemma of this section is about a gateway *)
(* that is handed events only once it is up.                                *)

LEMMA InvInit == Init => IInv
<1> SUFFICES ASSUME Init PROVE IInv
  OBVIOUS
<1>1. TypeOK
  BY TypeInit
<1> QED
  BY <1>1
     DEF Init, IInv, CursorHonest, Unloaded, FileWithinLog, MemoryAhead, ReplayProgress,
         ServingCovered, Serving, Loaded, NoTreeFile, NoMetaFile

(* Feeding an event covers it, uncovers nothing, keeps the leaves, moves    *)
(* lastInserted to it at most, and touches the skip of no other event.      *)
LEMMA FeedCovers ==
  ASSUME TypeOK, skipped = skipRow, NEW e \in Nat, NEW c, Feed(e, c)
  PROVE  /\ e \in Leaves(tree') \cup skipped'
         /\ \A f \in Leaves(tree) \cup skipped : f \in Leaves(tree') \cup skipped'
         /\ tree \subseteq tree' /\ skipped' = skipRow'
         /\ \A f \in skipRow : f # e => f \in skipRow'
         /\ lastInserted' \in {lastInserted, e}
<1>1. CASE MarkSkipped(e)
  BY <1>1 DEF MarkSkipped, Leaves
<1>2. CASE e \in Leaves(tree) /\ ThrowDuplicate
  BY <1>2 DEF ThrowDuplicate
<1>3. CASE InsertEntry(e, c)
  <2> DEFINE new == [seq |-> e, no |-> seqNo + 1, prev |-> Newest(ChainOf(c))]
  <2>1. tree' = tree \cup {new} /\ new.seq = e
    BY <1>3 DEF InsertEntry
  <2>2. e \in Leaves(tree') /\ Leaves(tree) \subseteq Leaves(tree')
    BY <2>1 DEF Leaves
  <2>3. skipped' = skipped \ {e} /\ skipRow' = skipped \ {e}
    BY <1>3 DEF InsertEntry
  <2>4. lastInserted' \in {lastInserted, e}
    BY <1>3 DEF InsertEntry
  <2> QED  BY <2>1, <2>2, <2>3, <2>4
<1> QED  BY <1>1, <1>2, <1>3 DEF Feed

(* A checkpoint taken while the memory covers the log leaves an honest file *)
(* inside the log and behind the memory.                                    *)
LEMMA WriteKeepsHonest ==
  ASSUME IInv, Serving, WriteTree \/ LoseTreeWrite, UNCHANGED <<rows, skipRow, tree>>
  PROVE  CursorHonest' /\ FileWithinLog' /\ treeFile'.leaves \subseteq tree
<1>1. CASE UNCHANGED treeFile
  BY <1>1 DEF IInv, CursorHonest, FileWithinLog, MemoryAhead, Loaded, Serving
<1>2. CASE treeFile' = TreeSnapshot
  <2>1. /\ treeFile'.cursor = lastInserted /\ treeFile'.leaves = tree /\ treeFile'.exists
    BY <1>2 DEF TreeSnapshot
  <2>2. CoveredBelow(Len(rows)) /\ lastInserted <= Len(rows) /\ skipped = skipRow
    BY DEF IInv, ServingCovered, MemoryAhead, Loaded, Serving
  <2>3. lastInserted \in Nat /\ Len(rows) \in Nat
    BY DEF IInv, TypeOK
  <2>4. 1 .. lastInserted \subseteq 1 .. Len(rows)
    BY <2>2, <2>3
  <2>5. CursorHonest'
    BY <2>1, <2>2, <2>4 DEF CursorHonest, CoveredBelow
  <2> QED  BY <2>1, <2>2, <2>5 DEF FileWithinLog
<1> QED  BY <1>1, <1>2 DEF WriteTree, LoseTreeWrite

(* The part of IInv that no step but those of the tree and the files moves. *)
LEMMA Frame ==
  ASSUME IInv, TypeOK',
         UNCHANGED <<rows, skipRow, treeFile, tree, treeOpen, skipped, lastInserted, replayPos>>,
         phase' = phase, restoredCursor' = restoredCursor,
         phase \in {"down", "registered", "restoring"} =>
           queued' = queued /\ (writing' = writing \/ writing' = NoMetaFile)
  PROVE  IInv'
<1>1. CursorHonest' /\ FileWithinLog'
  BY DEF IInv, CursorHonest, FileWithinLog
<1>2. Unloaded'
  BY DEF IInv, Unloaded, NoMetaFile
<1>3. MemoryAhead'
  BY DEF IInv, MemoryAhead, Loaded
<1>4. ReplayProgress' /\ ServingCovered'
  BY DEF IInv, ReplayProgress, ServingCovered, Serving, CoveredBelow
<1> QED  BY <1>1, <1>2, <1>3, <1>4 DEF IInv

(* A process that ends leaves the files as they are. *)
LEMMA ProcessEnds ==
  ASSUME IInv, TypeOK', LoseMemory, UNCHANGED durable
  PROVE  IInv'
<1>1. CursorHonest' /\ FileWithinLog'
  BY DEF IInv, CursorHonest, FileWithinLog, durable
<1>2. Unloaded' /\ MemoryAhead' /\ ReplayProgress' /\ ServingCovered'
  BY DEF LoseMemory, Unloaded, MemoryAhead, Loaded, ReplayProgress, ServingCovered, Serving,
         NoMetaFile
<1> QED  BY <1>1, <1>2 DEF IInv

LEMMA InvStep ==
  ASSUME "early" \notin Faults, IInv, [Next]_vars
  PROVE  IInv'
<1>0. TypeOK /\ TypeOK'
  BY TypeStep DEF IInv
<1>1. ASSUME NEW c \in Conv, OnEventAppended(c) PROVE IInv'
  <2> DEFINE e == Len(rows) + 1
  <2>1. /\ phase = "up" /\ rows' = Append(rows, c) /\ Feed(e, c)
        /\ UNCHANGED <<treeFile, phase>>
    BY <1>1 DEF OnEventAppended
  <2>2. e \in Nat /\ Len(rows) \in Nat /\ Len(rows') = e
    BY <2>1, <1>0 DEF TypeOK
  <2>3. skipped = skipRow /\ CoveredBelow(Len(rows)) /\ lastInserted <= Len(rows)
        /\ treeFile.leaves \subseteq tree
    BY <2>1 DEF IInv, MemoryAhead, Loaded, ServingCovered, Serving
  <2>4. /\ e \in Leaves(tree') \cup skipped'
        /\ \A f \in Leaves(tree) \cup skipped : f \in Leaves(tree') \cup skipped'
        /\ tree \subseteq tree' /\ skipped' = skipRow'
        /\ \A f \in skipRow : f # e => f \in skipRow'
        /\ lastInserted' \in {lastInserted, e}
    BY <1>0, <2>1, <2>2, <2>3, FeedCovers
  <2>5. CursorHonest'
    <3>1. treeFile.cursor \in Nat /\ treeFile.cursor <= Len(rows)
      BY <1>0 DEF IInv, FileWithinLog, TypeOK, TreeFile
    <3>2. \A f \in 1 .. treeFile.cursor : f # e
      BY <2>2, <3>1
    <3> QED  BY <2>1, <2>4, <3>2 DEF IInv, CursorHonest
  <2>6. FileWithinLog'
    <3>1. treeFile.cursor \in Nat /\ treeFile.cursor <= Len(rows)
      BY <1>0 DEF IInv, FileWithinLog, TypeOK, TreeFile
    <3> QED  BY <2>1, <2>2, <3>1 DEF IInv, FileWithinLog
  <2>7. ServingCovered'
    <3>1. \A f \in 1 .. Len(rows') : f \in 1 .. Len(rows) \/ f = e
      BY <2>2
    <3>2. CoveredBelow(Len(rows))'
      BY <2>3, <2>4, <3>1 DEF CoveredBelow
    <3>3. lastInserted' <= Len(rows')
      BY <1>0, <2>2, <2>3, <2>4 DEF TypeOK
    <3> QED  BY <3>2, <3>3 DEF ServingCovered
  <2>8. MemoryAhead' /\ Unloaded' /\ ReplayProgress'
    BY <2>1, <2>3, <2>4 DEF MemoryAhead, Loaded, Unloaded, ReplayProgress
  <2> QED  BY <1>0, <2>5, <2>6, <2>7, <2>8 DEF IInv
<1>2. CASE Register
  <2>1. /\ phase = "down" /\ phase' = "registered" /\ UNCHANGED <<durable, trees, chain>>
    BY <1>2 DEF Register
  <2>2. CursorHonest' /\ FileWithinLog' /\ Unloaded'
    BY <2>1 DEF IInv, CursorHonest, FileWithinLog, Unloaded, durable, trees, chain
  <2>3. MemoryAhead' /\ ReplayProgress' /\ ServingCovered'
    BY <2>1 DEF MemoryAhead, Loaded, ReplayProgress, ServingCovered, Serving
  <2> QED  BY <1>0, <2>2, <2>3 DEF IInv
<1>3. CASE StartRestore
  <2>1. /\ phase = "registered" /\ phase' = "restoring" /\ skipped' = skipRow
        /\ UNCHANGED <<durable, chain>>
    BY <1>3 DEF StartRestore
  <2>2. CursorHonest' /\ FileWithinLog' /\ Unloaded'
    BY <2>1 DEF IInv, CursorHonest, FileWithinLog, Unloaded, durable, chain
  <2>3. MemoryAhead'
    <3>1. CASE treeFile.exists
      BY <1>3, <2>1, <3>1 DEF StartRestore, MemoryAhead, durable
    <3>2. CASE ~treeFile.exists
      <4>1. tree' = {} /\ ~treeOpen' /\ treeFile.leaves = {}
        BY <1>3, <2>1, <3>2 DEF StartRestore, IInv, Unloaded, FileWithinLog, trees
      <4> QED  BY <2>1, <3>2, <4>1 DEF MemoryAhead, durable
    <3> QED  BY <3>1, <3>2
  <2>4. ReplayProgress' /\ ServingCovered'
    BY <2>1 DEF ReplayProgress, ServingCovered, Serving
  <2> QED  BY <1>0, <2>2, <2>3, <2>4 DEF IInv
<1>4. CASE FinishRestore
  <2>1. /\ phase = "restoring" /\ replayPos' = lastInserted' + 1
        /\ phase' = (IF lastInserted' < Len(rows) THEN "replaying" ELSE "up")
        /\ UNCHANGED <<durable, trees, skipped, chain>>
    BY <1>4 DEF FinishRestore
  <2>2. CursorHonest' /\ FileWithinLog'
    BY <2>1 DEF IInv, CursorHonest, FileWithinLog, durable
  <2>3. phase' \in {"replaying", "up"}
    BY <2>1
  <2>4. Unloaded' /\ MemoryAhead'
    BY <2>1, <2>3 DEF IInv, Unloaded, MemoryAhead, Loaded, durable, trees
  <2>5. lastInserted' = treeFile.cursor
    <3>1. \A n : RestoredLast(n) = treeFile.cursor
      <4>1. treeFile.cursor \in Nat /\ (~treeFile.exists => treeFile.cursor = 0)
        BY <1>0 DEF IInv, FileWithinLog, TypeOK, TreeFile
      <4>2. /\ treeOpen <=> treeFile.exists
            /\ treeOpen => restoredCursor = treeFile.cursor
        BY <2>1 DEF IInv, MemoryAhead
      <4> QED  BY <4>1, <4>2 DEF RestoredLast, NoCursor
    <3> QED  BY <1>4, <3>1 DEF FinishRestore
  <2>6. CoveredBelow(treeFile.cursor)'
    <3>1. skipped = skipRow /\ treeFile.leaves \subseteq tree
      BY <2>1 DEF IInv, MemoryAhead, Loaded
    <3>2. Leaves(treeFile.leaves) \subseteq Leaves(tree)
      BY <3>1 DEF Leaves
    <3>3. CoveredBelow(treeFile.cursor)
      BY <3>1, <3>2 DEF IInv, CursorHonest, CoveredBelow
    <3> QED  BY <2>1, <3>3 DEF CoveredBelow, durable, trees
  <2>7. treeFile.cursor \in Nat /\ treeFile.cursor <= Len(rows) /\ Len(rows) \in Nat
    BY <1>0 DEF IInv, FileWithinLog, TypeOK, TreeFile
  <2>8. ReplayProgress'
    <3>1. replayPos' - 1 = treeFile.cursor /\ replayPos' = treeFile.cursor + 1
      BY <2>1, <2>5, <2>7
    <3> QED  BY <2>1, <2>5, <2>6, <2>7, <3>1 DEF ReplayProgress, durable
  <2>9. ServingCovered'
    <3>1. CASE lastInserted' < Len(rows)
      BY <2>1, <3>1 DEF ServingCovered, Serving
    <3>2. CASE ~(lastInserted' < Len(rows))
      <4>1. treeFile.cursor = Len(rows)
        BY <2>5, <2>7, <3>2
      <4> QED  BY <2>1, <2>5, <2>6, <2>7, <4>1 DEF ServingCovered, durable
    <3> QED  BY <3>1, <3>2
  <2> QED  BY <1>0, <2>2, <2>4, <2>8, <2>9 DEF IInv
<1>5. CASE ReplayStep
  <2>1. /\ phase = "replaying" /\ Feed(replayPos, rows[replayPos])
        /\ replayPos <= Len(rows) /\ replayPos' = replayPos + 1
        /\ UNCHANGED <<rows, treeFile, phase, chain>>
    BY <1>5 DEF ReplayStep
  <2>2. /\ skipped = skipRow /\ treeFile.leaves \subseteq tree
        /\ CoveredBelow(replayPos - 1)
        /\ replayPos \in 1 .. Len(rows) + 1
        /\ lastInserted < replayPos /\ treeFile.cursor < replayPos
    BY <2>1 DEF IInv, MemoryAhead, Loaded, ReplayProgress
  <2>3. replayPos \in Nat /\ treeFile.cursor \in Nat /\ lastInserted \in Nat /\ Len(rows) \in Nat
    BY <1>0 DEF TypeOK, TreeFile
  <2>4. /\ replayPos \in Leaves(tree') \cup skipped'
        /\ \A f \in Leaves(tree) \cup skipped : f \in Leaves(tree') \cup skipped'
        /\ tree \subseteq tree' /\ skipped' = skipRow'
        /\ \A f \in skipRow : f # replayPos => f \in skipRow'
        /\ lastInserted' \in {lastInserted, replayPos}
    BY <1>0, <2>1, <2>2, <2>3, FeedCovers
  <2>5. CursorHonest'
    <3>1. \A f \in 1 .. treeFile.cursor : f # replayPos
      BY <2>2, <2>3
    <3> QED  BY <2>1, <2>4, <3>1 DEF IInv, CursorHonest
  <2>6. ReplayProgress'
    <3>1. \A f \in 1 .. replayPos' - 1 : f \in 1 .. replayPos - 1 \/ f = replayPos
      BY <2>1, <2>3
    <3>2. CoveredBelow(replayPos - 1)'
      BY <2>2, <2>4, <3>1 DEF CoveredBelow
    <3>3. lastInserted' < replayPos' /\ treeFile.cursor < replayPos'
          /\ replayPos' \in 1 .. Len(rows) + 1
      BY <2>1, <2>2, <2>3, <2>4
    <3> QED  BY <2>1, <3>2, <3>3 DEF ReplayProgress
  <2>7. FileWithinLog' /\ MemoryAhead' /\ Unloaded' /\ ServingCovered'
    BY <2>1, <2>2, <2>4
       DEF IInv, FileWithinLog, MemoryAhead, Unloaded, ServingCovered, Serving
  <2> QED  BY <1>0, <2>5, <2>6, <2>7 DEF IInv
<1>6. CASE ReplayDone
  <2>1. /\ phase = "replaying" /\ replayPos > Len(rows) /\ phase' = "up"
        /\ UNCHANGED <<durable, trees, metadata>>
    BY <1>6 DEF ReplayDone
  <2>2. CursorHonest' /\ FileWithinLog'
    BY <2>1 DEF IInv, CursorHonest, FileWithinLog, durable
  <2>3. MemoryAhead' /\ Unloaded' /\ ReplayProgress'
    BY <2>1 DEF IInv, MemoryAhead, Loaded, Unloaded, ReplayProgress, durable, trees, metadata
  <2>4. ServingCovered'
    <3>1. /\ replayPos - 1 = Len(rows) /\ lastInserted <= Len(rows)
      BY <1>0, <2>1 DEF IInv, ReplayProgress, TypeOK
    <3>2. CoveredBelow(Len(rows))
      BY <2>1, <3>1 DEF IInv, ReplayProgress
    <3> QED
      BY <2>1, <3>1, <3>2 DEF ServingCovered, CoveredBelow, durable, trees, metadata
  <2> QED  BY <1>0, <2>2, <2>3, <2>4 DEF IInv
<1>7. CASE CheckpointTimer
  BY <1>0, <1>7, Frame DEF CheckpointTimer, durable, trees, metadata
<1>8. CASE StartCheckpoint
  <2>1. /\ phase # "replaying" /\ queued > 0 /\ (WriteTree \/ LoseTreeWrite)
        /\ UNCHANGED <<rows, skipRow, phase, tree, metadata>>
    BY <1>8 DEF StartCheckpoint
  <2>2. Serving
    BY <1>0, <2>1 DEF IInv, Unloaded, Serving, TypeOK, Phases
  <2>3. CursorHonest' /\ FileWithinLog' /\ treeFile'.leaves \subseteq tree
    BY <2>1, <2>2, WriteKeepsHonest
  <2>4. MemoryAhead' /\ Unloaded' /\ ReplayProgress'
    BY <2>1, <2>2, <2>3
       DEF IInv, MemoryAhead, Loaded, Unloaded, ReplayProgress, Serving, metadata
  <2>5. ServingCovered'
    BY <2>1 DEF IInv, ServingCovered, Serving, CoveredBelow, metadata
  <2> QED  BY <1>0, <2>3, <2>4, <2>5 DEF IInv
<1>9. CASE FinishCheckpoint
  BY <1>0, <1>9, Frame DEF FinishCheckpoint, trees, metadata
<1>10. CASE Stop
  <2>1. phase = "up" /\ phase' = "stopping" /\ UNCHANGED <<durable, trees, metadata>>
    BY <1>10 DEF Stop
  <2>2. CursorHonest' /\ FileWithinLog'
    BY <2>1 DEF IInv, CursorHonest, FileWithinLog, durable
  <2>3. MemoryAhead' /\ Unloaded' /\ ReplayProgress'
    BY <2>1 DEF IInv, MemoryAhead, Loaded, Unloaded, ReplayProgress, durable, trees, metadata
  <2>4. ServingCovered'
    BY <2>1 DEF IInv, ServingCovered, Serving, CoveredBelow, durable, trees, metadata
  <2> QED  BY <1>0, <2>2, <2>3, <2>4 DEF IInv
<1>11. CASE FinalCheckpoint
  <2>1. /\ phase = "stopping" /\ phase' = "final" /\ (WriteTree \/ LoseTreeWrite)
        /\ UNCHANGED <<rows, skipRow, tree, metadata>>
    BY <1>11 DEF FinalCheckpoint
  <2>2. CursorHonest' /\ FileWithinLog' /\ treeFile'.leaves \subseteq tree
    BY <2>1, WriteKeepsHonest DEF Serving
  <2>3. MemoryAhead' /\ Unloaded' /\ ReplayProgress'
    BY <2>1, <2>2
       DEF IInv, MemoryAhead, Loaded, Unloaded, ReplayProgress, metadata
  <2>4. ServingCovered'
    BY <2>1 DEF IInv, ServingCovered, Serving, CoveredBelow, metadata
  <2> QED  BY <1>0, <2>2, <2>3, <2>4 DEF IInv
<1>12. CASE Exit
  BY <1>0, <1>12, ProcessEnds DEF Exit
<1>13. CASE Crash
  BY <1>0, <1>13, ProcessEnds DEF Crash
<1>14. CASE WipeTree
  <2>1. /\ phase = "down" /\ phase' = "down" /\ treeFile' = NoTreeFile
        /\ UNCHANGED <<rows, trees, chain>>
    BY <1>14 DEF WipeTree
  <2>2. CursorHonest' /\ FileWithinLog'
    BY <1>0, <2>1 DEF CursorHonest, FileWithinLog, NoTreeFile, TypeOK
  <2>3. Unloaded' /\ MemoryAhead' /\ ReplayProgress' /\ ServingCovered'
    BY <2>1
       DEF IInv, Unloaded, MemoryAhead, Loaded, ReplayProgress, ServingCovered, Serving,
           trees, chain
  <2> QED  BY <1>0, <2>2, <2>3 DEF IInv
<1>15. CASE Tick
  BY <1>0, <1>15, Frame DEF Tick, durable, trees, metadata, chain
<1>16. ASSUME NEW E \in SUBSET Epochs, PruneEpochs(E) PROVE IInv'
  BY <1>0, <1>16, Frame DEF PruneEpochs, durable, chain
<1>17. CASE AutoPrune
  BY <1>16, <1>17 DEF AutoPrune
<1>18. CASE PruneTool
  BY <1>16, <1>18 DEF PruneTool
<1>19. CASE UNCHANGED vars
  BY <1>0, <1>19, Frame DEF vars, durable, trees, metadata, chain
<1> QED
  BY <1>1, <1>2, <1>3, <1>4, <1>5, <1>6, <1>7, <1>8, <1>9, <1>10, <1>11, <1>12, <1>13,
     <1>14, <1>15, <1>17, <1>18, <1>19 DEF Next

-----------------------------------------------------------------------------
(* The theorems. *)

THEOREM Inductive == ASSUME "early" \notin Faults PROVE Spec => []IInv
<1>1. Init => IInv
  BY InvInit
<1>2. IInv /\ [Next]_vars => IInv'
  BY InvStep
<1> QED  BY <1>1, <1>2, PTL DEF Spec

(* A serving gateway has a leaf or a recorded skip for every row, whatever  *)
(* crashes, torn checkpoints, prunes, shrunk caps and wiped trees it had.   *)
THEOREM NothingIsLost == ASSUME "early" \notin Faults PROVE Spec => []NothingLost
<1>1. IInv => NothingLost
  BY DEF IInv, ServingCovered, CoveredBelow, NothingLost
<1> QED  BY <1>1, Inductive, PTL

(* The cursor in the tree DB is honest under the same faults: below it each *)
(* row has a durable leaf or a durable skip.                                *)
THEOREM CursorIsHonest == ASSUME "early" \notin Faults PROVE Spec => []CursorHonest
<1>1. IInv => CursorHonest
  BY DEF IInv
<1> QED  BY <1>1, Inductive, PTL

(* No write ever takes a leaf out of an existing tree DB. *)
LEMMA LeavesStep ==
  ASSUME "early" \notin Faults, IInv, [Next]_vars
  PROVE  treeFile'.exists => treeFile.leaves \subseteq treeFile'.leaves
<1>1. ASSUME WriteTree \/ LoseTreeWrite, Loaded
      PROVE  treeFile.leaves \subseteq treeFile'.leaves
  BY <1>1 DEF IInv, MemoryAhead, WriteTree, LoseTreeWrite, TreeSnapshot
<1>2. CASE StartCheckpoint
  <2>1. Loaded /\ (WriteTree \/ LoseTreeWrite)
    BY <1>2 DEF StartCheckpoint, IInv, Unloaded, TypeOK, Phases, Loaded
  <2> QED  BY <1>1, <2>1
<1>3. CASE FinalCheckpoint
  BY <1>1, <1>3 DEF FinalCheckpoint, Loaded
<1>4. CASE WipeTree
  BY <1>4 DEF WipeTree, NoTreeFile
<1>5. CASE UNCHANGED treeFile
  BY <1>5
<1>6. StartCheckpoint \/ FinalCheckpoint \/ WipeTree \/ UNCHANGED treeFile
  BY DEF Next, vars, OnEventAppended, Register, StartRestore, FinishRestore, ReplayStep,
         ReplayDone, CheckpointTimer, FinishCheckpoint, Stop, Exit, Crash, Tick, AutoPrune,
         PruneTool, PruneEpochs, durable
<1> QED  BY <1>2, <1>3, <1>4, <1>5, <1>6

(* A leaf once checkpointed stays, with its number and its chain link.      *)
THEOREM LeavesAreKept == ASSUME "early" \notin Faults PROVE Spec => DurableLeavesKept
<1>1. IInv /\ [Next]_vars =>
        [treeFile'.exists => treeFile.leaves \subseteq treeFile'.leaves]_treeFile
  BY LeavesStep
<1> QED  BY <1>1, Inductive, PTL DEF Spec, DurableLeavesKept

-----------------------------------------------------------------------------
(* The order of the tree, of a gateway without faults.                      *)

(* A tree of the first n rows does not depend on the others. *)
LEMMA PrefixKept ==
  ASSUME NEW R \in Seq(Conv), NEW S \in Seq(Conv), NEW n \in Nat,
         n <= Len(R), n <= Len(S), \A f \in 1 .. n : S[f] = R[f]
  PROVE  /\ Straight(S, n) = Straight(R, n)
         /\ \A L : ChainsEnd(R, L, n) => ChainsEnd(S, L, n)
<1>1. \A f \in 1 .. n : f \in DOMAIN R /\ f \in DOMAIN S
  OBVIOUS
<1>2. \A e \in 1 .. n : LeafAt(S, e) = LeafAt(R, e)
  <2> SUFFICES ASSUME NEW e \in 1 .. n PROVE LeafAt(S, e) = LeafAt(R, e)
    OBVIOUS
  <2>1. {f \in 1 .. e - 1 : S[f] = S[e]} = {f \in 1 .. e - 1 : R[f] = R[e]}
    <3>1. \A f \in 1 .. e - 1 : f \in 1 .. n
      OBVIOUS
    <3> QED BY <3>1
  <2> QED BY <2>1 DEF LeafAt
<1>3. Straight(S, n) = Straight(R, n)
  BY <1>2 DEF Straight
<1>4. ASSUME NEW L, ChainsEnd(R, L, n) PROVE ChainsEnd(S, L, n)
  <2>1. \A x \in L : x.seq \in 1 .. n
    BY <1>4 DEF ChainsEnd
  <2>2. ASSUME NEW c \in Conv
        PROVE  /\ Chain(S, L, c) = Chain(R, L, c)
               /\ {f \in 1 .. n : S[f] = c} = {f \in 1 .. n : R[f] = c}
    BY <1>1, <2>1 DEF Chain
  <2>3. \A c \in Conv : Newest(Chain(R, L, c)) = Newest({f \in 1 .. n : R[f] = c})
    BY <1>4 DEF ChainsEnd
  <2> QED BY <2>1, <2>2, <2>3 DEF ChainsEnd
<1> QED BY <1>3, <1>4

LEMMA StraightLeaves ==
  ASSUME NEW R, NEW n \in Nat
  PROVE  /\ Leaves(Straight(R, n)) = 1 .. n
         /\ IsFiniteSet(Straight(R, n)) /\ Cardinality(Straight(R, n)) = n
<1> DEFINE f == [e \in 1 .. n |-> LeafAt(R, e)]
<1>1. Leaves(Straight(R, n)) = 1 .. n
  <2>1. \A e : LeafAt(R, e).seq = e
    BY DEF LeafAt
  <2> QED BY <2>1 DEF Leaves, Straight
<1>2. f \in [1 .. n -> Straight(R, n)] /\ \A e \in 1 .. n : f[e].seq = e
  BY DEF Straight, LeafAt
<1>3. \A t \in Straight(R, n) : \E e \in 1 .. n : f[e] = t
  BY DEF Straight
<1>4. f \in Bijection(1 .. n, Straight(R, n))
  BY <1>2, <1>3 DEF Bijection, Injection, Surjection, IsInjective
<1>5. ExistsBijection(1 .. n, Straight(R, n))
  BY <1>4 DEF ExistsBijection
<1>6. IsFiniteSet(1 .. n) /\ Cardinality(1 .. n) = n
  BY FS_Interval
<1>7. IsFiniteSet(Straight(R, n)) /\ Cardinality(Straight(R, n)) = n
  BY <1>5, <1>6, FS_Bijection
<1> QED BY <1>1, <1>7

(* The rows S begin with the first n of R and go on with c. *)
OneMore(R, S, n, c) ==
  /\ R \in Seq(Conv) /\ S \in Seq(Conv) /\ n \in Nat /\ c \in Conv
  /\ n <= Len(R) /\ n + 1 <= Len(S)
  /\ S[n + 1] = c /\ \A f \in 1 .. n : S[f] = R[f]

(* The tree of one row more, and the entries that end its conversations. *)
LEMMA StraightNext ==
  ASSUME NEW R, NEW S, NEW n, NEW c, OneMore(R, S, n, c), NEW L, ChainsEnd(R, L, n)
  PROVE  /\ Straight(S, n + 1) =
              Straight(R, n) \cup {[seq |-> n + 1, no |-> 2 * n + 1,
                                    prev |-> Newest(Chain(R, L, c))]}
         /\ \A x : x.seq = n + 1 => ChainsEnd(S, L \cup {x}, n + 1)
<1> DEFINE e == n + 1
<1>0. /\ R \in Seq(Conv) /\ S \in Seq(Conv) /\ n \in Nat /\ c \in Conv
      /\ n <= Len(R) /\ e <= Len(S) /\ S[e] = c /\ \A f \in 1 .. n : S[f] = R[f]
  BY DEF OneMore
<1>1. Straight(S, n) = Straight(R, n) /\ ChainsEnd(S, L, n)
  BY <1>0, PrefixKept
<1>2. \A f : f \in 1 .. e <=> f \in 1 .. n \/ f = e
  BY <1>0
<1>3. e \in DOMAIN S /\ \A f \in 1 .. n : f \in DOMAIN S /\ f \in DOMAIN R
  BY <1>0
<1>4. Newest(Chain(R, L, c)) = Newest({f \in 1 .. n : R[f] = c})
  BY <1>0 DEF ChainsEnd
<1>5. LeafAt(S, e) = [seq |-> e, no |-> 2 * n + 1, prev |-> Newest(Chain(R, L, c))]
  <2>1. {f \in 1 .. e - 1 : S[f] = S[e]} = {f \in 1 .. n : R[f] = c}
    <3>1. e - 1 = n
      BY <1>0
    <3> QED BY <1>0, <3>1
  <2>2. 2 * e - 1 = 2 * n + 1
    BY <1>0
  <2> QED BY <1>4, <2>1, <2>2 DEF LeafAt
<1>6. Straight(S, e) = Straight(S, n) \cup {LeafAt(S, e)}
  BY <1>2 DEF Straight
<1>7. ASSUME NEW x, x.seq = e PROVE ChainsEnd(S, L \cup {x}, e)
  <2>1. \A y \in L : y.seq \in 1 .. n
    BY DEF ChainsEnd
  <2>2. \A y \in L \cup {x} : y.seq \in 1 .. e
    BY <1>2, <1>7, <2>1
  <2>3. ASSUME NEW d \in Conv
        PROVE  Newest(Chain(S, L \cup {x}, d)) = Newest({f \in 1 .. e : S[f] = d})
    <3>1. /\ Chain(S, L, d) \subseteq 1 .. n
          /\ Newest(Chain(S, L, d)) = Newest({f \in 1 .. n : S[f] = d})
      BY <1>1, <2>1 DEF ChainsEnd, Chain
    <3>2. CASE d = c
      <4>1. Chain(S, L \cup {x}, d) = Chain(S, L, d) \cup {e}
        <5>1. x.seq \in DOMAIN S /\ S[x.seq] = d
          BY <1>0, <1>3, <1>7, <3>2
        <5>2. {y \in L \cup {x} : y.seq \in DOMAIN S /\ S[y.seq] = d}
                = {y \in L : y.seq \in DOMAIN S /\ S[y.seq] = d} \cup {x}
          BY <5>1
        <5> QED BY <1>7, <5>2 DEF Chain
      <4>2. Newest(Chain(S, L, d) \cup {e}) = {e}
        BY <1>0, <3>1 DEF Newest
      <4>3. Newest({f \in 1 .. e : S[f] = d}) = {e}
        <5>1. e \in {f \in 1 .. e : S[f] = d} /\ \A f \in 1 .. e : f <= e
          BY <1>0, <3>2
        <5>2. \A f \in 1 .. e : e <= f => f = e
          BY <1>0
        <5> QED BY <5>1, <5>2 DEF Newest
      <4> QED BY <4>1, <4>2, <4>3
    <3>3. CASE d # c
      <4>1. Chain(S, L \cup {x}, d) = Chain(S, L, d)
        <5>1. ~(x.seq \in DOMAIN S /\ S[x.seq] = d)
          BY <1>0, <1>3, <1>7, <3>3
        <5>2. {y \in L \cup {x} : y.seq \in DOMAIN S /\ S[y.seq] = d}
                = {y \in L : y.seq \in DOMAIN S /\ S[y.seq] = d}
          BY <5>1
        <5> QED BY <5>2 DEF Chain
      <4>2. {f \in 1 .. e : S[f] = d} = {f \in 1 .. n : S[f] = d}
        BY <1>0, <1>2, <3>3
      <4> QED BY <3>1, <4>1, <4>2
    <3> QED BY <3>2, <3>3
  <2> QED BY <2>2, <2>3 DEF ChainsEnd
<1> QED BY <1>1, <1>5, <1>6, <1>7

(* An event that is fed in its turn goes to the end of the tree, or is      *)
(* skipped because the tree is full.                                        *)
LEMMA FeedInLine ==
  ASSUME TypeOK, TypeOK', NEW n \in Nat, InLine(n), NEW c \in Conv, Feed(n + 1, c),
         \/ rows' = rows /\ n + 1 <= Len(rows) /\ rows[n + 1] = c
         \/ rows' = Append(rows, c) /\ n = Len(rows),
         UNCHANGED <<treeFile, cap, now>>
  PROVE  /\ InLine(n + 1)'
         /\ \A f \in skipRow' : f \in skipRow \/ f = n + 1
<1> DEFINE e == n + 1
<1>1. PICK m \in Nat : m = lastInserted
  BY DEF TypeOK
<1>2. /\ m <= n /\ Len(rows) \in Nat /\ n <= Len(rows) /\ cap \in Nat
      /\ rows \in Seq(Conv) /\ rows' \in Seq(Conv) /\ treeFile.cursor \in Nat
      /\ treeFile.cursor <= m
  BY <1>1, SmtAssumption DEF SmtAssumption, TypeOK, InLine, TreeFile
<1>3. /\ Len(rows') \in Nat /\ e <= Len(rows') /\ rows'[e] = c
      /\ \A f \in 1 .. n : rows'[f] = rows[f]
  BY <1>2
<1>4. /\ tree = Straight(rows, m) /\ seqNo = 2 * m /\ ChainsEnd(rows, live, m)
      /\ ProofsKept(now, live, exported, frozen) /\ frozen \subseteq 1 .. m
      /\ skipped = skipRow /\ skipped \cap (1 .. n) = m + 1 .. n
      /\ 2 * m <= cap /\ (m < n => 2 * m + 2 > cap)
  BY <1>1 DEF InLine
<1>5. Leaves(tree) = 1 .. m /\ Cardinality(tree) = m
  BY <1>4, StraightLeaves
<1>6. e \notin frozen /\ e \notin Leaves(tree)
  BY <1>2, <1>4, <1>5
<1>7. frozen' = frozen /\ exported' = exported /\ treeOpen' = TRUE
  BY DEF Feed
<1>8. CASE MarkSkipped(e) /\ Rejects(e)
  <2>1. 2 * m + 2 > cap
    BY <1>5, <1>6, <1>8 DEF Rejects
  <2>2. /\ skipped' = skipped \cup {e} /\ skipRow' = skipped'
        /\ tree' = tree /\ seqNo' = seqNo /\ live' = live /\ lastInserted' = m
    BY <1>1, <1>8 DEF MarkSkipped
  <2>3. skipped' \cap (1 .. e) = m + 1 .. e
    <3>1. \A f : f \in 1 .. e <=> f \in 1 .. n \/ f = e
      OBVIOUS
    <3>2. \A f : f \in m + 1 .. e <=> f \in m + 1 .. n \/ f = e
      BY <1>2
    <3> QED BY <1>4, <2>2, <3>1, <3>2
  <2>4. Straight(rows', m) = tree /\ ChainsEnd(rows', live, m)
    <3>1. \A f \in 1 .. m : rows'[f] = rows[f]
      BY <1>2, <1>3
    <3>2. m <= Len(rows) /\ m <= Len(rows')
      BY <1>2, <1>3
    <3> QED BY <1>2, <1>4, <3>1, <3>2, PrefixKept
  <2>5. InLine(e)'
    BY <1>2, <1>3, <1>4, <1>7, <2>1, <2>2, <2>3, <2>4 DEF InLine
  <2> QED BY <1>4, <2>2, <2>5
<1>9. CASE Inserted(e) /\ InsertEntry(e, c)
  <2>1. 2 * m + 2 <= cap /\ m = n
    BY <1>2, <1>4, <1>5, <1>6, <1>9 DEF Inserted, Rejects
  <2> DEFINE x == [seq |-> e, epoch |-> now]
             l == [seq |-> e, no |-> 2 * n + 1, prev |-> Newest(Chain(rows, live, c))]
  <2>2. ChainOf(c) = Chain(rows, live, c)
    BY DEF ChainOf, Chain
  <2>3. /\ tree' = tree \cup {l} /\ seqNo' = 2 * e
        /\ live' = live \cup {x} /\ lastInserted' = e
    <3>1. seqNo + 1 = 2 * n + 1 /\ seqNo + 2 = 2 * e /\ e > lastInserted
      BY <1>1, <1>4, <2>1
    <3> QED BY <1>9, <2>2, <3>1 DEF InsertEntry
  <2>4. Straight(rows', e) = Straight(rows, n) \cup {l} /\ ChainsEnd(rows', live \cup {x}, e)
    <3>1. OneMore(rows, rows', n, c)
      BY <1>2, <1>3 DEF OneMore
    <3>2. ChainsEnd(rows, live, n) /\ x.seq = n + 1
      BY <1>4, <2>1
    <3>3. l = [seq |-> n + 1, no |-> 2 * n + 1, prev |-> Newest(Chain(rows, live, c))]
      OBVIOUS
    <3> HIDE DEF x, l
    <3> QED BY <3>1, <3>2, <3>3, StraightNext
  <2>5. skipped' = skipped \ {e} /\ skipRow' = skipped'
    BY <1>4, <1>9 DEF InsertEntry
  <2>6. skipped' \cap (1 .. e) = e + 1 .. e
    <3>1. skipped \cap (1 .. n) = {}
      BY <1>4, <2>1
    <3>2. \A f \in 1 .. e : f \in 1 .. n \/ f = e
      OBVIOUS
    <3>3. e + 1 .. e = {}
      OBVIOUS
    <3> QED BY <2>5, <3>1, <3>2, <3>3
  <2>7. ProofsKept(now, live', exported, frozen)
    <3>1. now \in Nat /\ \A ep \in Epochs : ep \in Nat
      BY DEF TypeOK, Epochs
    <3> QED BY <1>4, <2>3, <3>1 DEF ProofsKept
  <2>8. frozen' \subseteq 1 .. e
    BY <1>4, <1>7, <2>1
  <2>9. treeFile'.cursor <= lastInserted'
    BY <1>2, <2>1, <2>3
  <2>10. 2 * e <= cap'
    BY <2>1
  <2>11. InLine(e)'
    BY <1>3, <1>4, <1>7, <2>1, <2>3, <2>4, <2>5, <2>6, <2>7, <2>8, <2>9, <2>10 DEF InLine
  <2> QED BY <1>4, <2>5, <2>11
<1> QED BY <1>6, <1>8, <1>9 DEF Feed

(* A bounded set of numbers has a greatest one.  The numbers that bound it  *)
(* are a set with a least element, which is a member.                       *)
LEMMA NewestExists ==
  ASSUME NEW n \in Nat, NEW S \in SUBSET (1 .. n), S # {}
  PROVE  \E s \in S : s \in Newest(S)
<1> DEFINE B == {b \in Nat : \A s \in S : s <= b}
<1>1. B \in SUBSET Nat /\ n \in B
  OBVIOUS
<1>2. PICK b \in B : \A a \in B : ~(<<a, b>> \in OpToRel(<, Nat))
  BY <1>1, NatLessThanWellFounded, WFMin
<1>3. b \in Nat /\ \A a \in B : ~(a < b)
  BY <1>1, <1>2 DEF OpToRel
<1>4. \A s \in S : s \in Nat /\ 1 <= s /\ s <= b
  OBVIOUS
<1>5. b \in S
  <2> SUFFICES ASSUME b \notin S PROVE FALSE
    OBVIOUS
  <2>1. \A r \in S : r <= b - 1
    BY <1>3, <1>4
  <2>2. b - 1 \in Nat
    <3>1. PICK s \in S : TRUE
      OBVIOUS
    <3> QED BY <1>3, <1>4, <3>1
  <2>3. b - 1 \in B
    BY <2>1, <2>2
  <2> HIDE DEF B
  <2> QED BY <1>3, <2>3
<1> QED BY <1>4, <1>5 DEF Newest

(* A prune that keeps the ends of the chains keeps them: the epochs it      *)
(* exports were not exported before.                                        *)
LEMMA PruneInLine ==
  ASSUME TypeOK, TypeOK', Faults = {}, NEW E \in SUBSET Epochs, PruneEpochs(E),
         NEW n \in Nat, InLine(n)
  PROVE  InLine(n)'
<1>1. PICK m \in Nat : m = lastInserted
  BY DEF TypeOK
<1>2. /\ KeepsTails(E) /\ now \notin E /\ now \in Nat /\ \A ep \in E : ep \in Nat
      /\ frozen' = frozen \cup UNION {InEpoch(ep) : ep \in E}
      /\ live' = {x \in live : x.epoch \notin E}
      /\ exported' = [ep \in Epochs |->
                        IF ep \in E /\ InEpoch(ep) # {} THEN InEpoch(ep) ELSE exported[ep]]
      /\ UNCHANGED <<durable, env, tree, treeOpen, seqNo, lastInserted, skipped>>
  BY DEF PruneEpochs, TypeOK, Epochs
<1>3. ChainsEnd(rows, live, m) /\ ProofsKept(now, live, exported, frozen) /\ frozen \subseteq 1 .. m
  BY <1>1 DEF InLine
<1>4. \A y \in live : y.seq \in 1 .. m /\ y.epoch \in Epochs /\ y.epoch \in Nat /\ y.epoch <= now
  BY <1>3 DEF ChainsEnd, ProofsKept, TypeOK, Entry, Epochs
<1>5. ChainsEnd(rows, live', m)
  <2>1. \A x \in live' : x.seq \in 1 .. m
    BY <1>2, <1>4
  <2>2. ASSUME NEW c \in Conv
        PROVE  Newest(Chain(rows, live', c)) = Newest(Chain(rows, live, c))
    <3> DEFINE old == Chain(rows, live, c)
               new == Chain(rows, live', c)
    <3>1. new \subseteq old /\ old \subseteq 1 .. m
      BY <1>2, <1>4 DEF Chain
    <3>2. \A s \in Newest(old) : s \in new
      <4> SUFFICES ASSUME NEW s \in Newest(old) PROVE s \in new
        OBVIOUS
      <4>1. PICK x \in live : x.seq = s /\ x.seq \in DOMAIN rows /\ rows[x.seq] = c
        BY DEF Newest, Chain
      <4>2. \A ep \in E : s \notin InEpoch(ep)
        BY <1>2 DEF KeepsTails, ChainOf, Chain
      <4>3. x.epoch \notin E
        BY <4>1, <4>2 DEF InEpoch
      <4> QED BY <1>2, <4>1, <4>3 DEF Chain
    <3>3. old # {} => \E s \in old : s \in Newest(old)
      BY <3>1, NewestExists
    <3> HIDE DEF old, new
    <3>4. \A s \in Newest(old) : s \in Newest(new)
      BY <3>1, <3>2 DEF Newest
    <3>5. ASSUME NEW s \in Newest(new) PROVE s \in Newest(old)
      <4>1. s \in new /\ s \in old /\ \A r \in new : r <= s
        BY <3>1 DEF Newest
      <4>2. PICK k \in new : \A r \in old : r <= k
        BY <3>2, <3>3, <4>1 DEF Newest
      <4>3. \A r \in old : r \in Int
        BY <3>1
      <4>4. \A r \in old : r <= s
        BY <3>1, <4>1, <4>2, <4>3
      <4> QED BY <4>1, <4>4 DEF Newest
    <3>6. Newest(new) = Newest(old)
      BY <3>4, <3>5
    <3> QED BY <3>6 DEF old, new
  <2> QED BY <1>3, <2>1, <2>2 DEF ChainsEnd
<1>6. ProofsKept(now, live', exported', frozen')
  <2>1. frozen' \subseteq UNION {exported'[ep] : ep \in Epochs}
    <3>1. ASSUME NEW f \in frozen PROVE \E ep \in Epochs : f \in exported'[ep]
      <4>1. PICK ep \in Epochs : f \in exported[ep]
        BY <1>3 DEF ProofsKept
      <4>2. InEpoch(ep) = {}
        BY <1>3, <4>1 DEF ProofsKept, InEpoch
      <4> QED BY <1>2, <4>1, <4>2
    <3>2. ASSUME NEW ep \in E, NEW f \in InEpoch(ep) PROVE \E d \in Epochs : f \in exported'[d]
      BY <1>2
    <3>3. ASSUME NEW f \in frozen' PROVE \E d \in Epochs : f \in exported'[d]
      <4>1. f \in frozen \/ \E ep \in E : f \in InEpoch(ep)
        BY <1>2, <3>3
      <4> QED BY <3>1, <3>2, <4>1
    <3> QED BY <3>3
  <2>2. \A y \in live' : y.epoch <= now
    BY <1>2, <1>4
  <2>3. ASSUME NEW ep \in Epochs, exported'[ep] # {}
        PROVE  ep < now /\ \A y \in live' : y.epoch # ep
    <3>1. CASE ep \in E /\ InEpoch(ep) # {}
      <4>1. PICK y \in live : y.epoch = ep
        BY <3>1 DEF InEpoch
      <4> QED BY <1>2, <1>4, <3>1, <4>1
    <3>2. CASE ~(ep \in E /\ InEpoch(ep) # {})
      <4>1. exported[ep] # {}
        BY <1>2, <2>3, <3>2
      <4> QED BY <1>2, <1>3, <4>1 DEF ProofsKept
    <3> QED BY <3>1, <3>2
  <2> QED BY <2>1, <2>2, <2>3 DEF ProofsKept
<1>7. frozen' \subseteq 1 .. m
  <2>1. \A ep \in E : InEpoch(ep) \subseteq 1 .. m
    BY <1>4 DEF InEpoch
  <2> QED BY <1>2, <1>3, <2>1
<1>8. /\ rows' = rows /\ skipRow' = skipRow /\ treeFile' = treeFile /\ now' = now /\ cap' = cap
      /\ lastInserted' = m /\ tree' = tree /\ treeOpen' = treeOpen /\ seqNo' = seqNo
      /\ skipped' = skipped
  BY <1>1, <1>2 DEF durable, env
<1> QED BY <1>1, <1>5, <1>6, <1>7, <1>8 DEF InLine

(* Time that goes on and a larger cap disturb neither the files nor the     *)
(* memory of a process that is not changed.                                 *)
LEMMA LaterKept ==
  ASSUME TypeOK, TypeOK', now <= now', NEW L \in SUBSET Entry, NEW X, NEW F,
         ProofsKept(now, L, X, F)
  PROVE  ProofsKept(now', L, X, F)
<1>1. now \in Nat /\ now' \in Nat /\ \A ep \in Epochs : ep \in Nat
  BY DEF TypeOK, Epochs
<1>2. \A y \in L : y.epoch \in Nat
  BY DEF Entry, Epochs
<1> QED BY <1>1, <1>2 DEF ProofsKept

LEMMA FilesStay ==
  ASSUME TypeOK, TypeOK', FilesAgree, UNCHANGED <<rows, skipRow, treeFile>>,
         OnDisk' = OnDisk, ~metaFile'.exists => metaFile' = NoMetaFile,
         cap <= cap', now <= now'
  PROVE  FilesAgree'
<1>1. treeFile.cursor \in Nat /\ cap \in Nat /\ cap' \in Nat
  BY SmtAssumption DEF SmtAssumption, TypeOK, TreeFile
<1>2. OnDisk.live \in SUBSET Entry
  BY DEF TypeOK, OnDisk, MetaFile
<1>3. ProofsKept(now', OnDisk.live, OnDisk.exported, treeFile.frozen)
  BY <1>2, LaterKept DEF FilesAgree
<1>4. 2 * treeFile.cursor <= cap'
  BY <1>1 DEF FilesAgree
<1> QED BY <1>3, <1>4 DEF FilesAgree

LEMMA FilesGrow ==
  ASSUME TypeOK, TypeOK', FilesAgree, UNCHANGED <<treeFile, metaFile, writing, now, cap>>,
         Len(rows) <= Len(rows'), \A f \in 1 .. Len(rows) : rows'[f] = rows[f],
         NEW e \in Nat, treeFile.cursor < e, e <= Len(rows'),
         \A f \in skipRow' : f \in skipRow \/ f = e
  PROVE  FilesAgree'
<1>1. PICK k \in Nat : k = treeFile.cursor
  BY DEF TypeOK, TreeFile
<1>2. /\ rows \in Seq(Conv) /\ rows' \in Seq(Conv) /\ Len(rows) \in Nat /\ Len(rows') \in Nat
      /\ k <= Len(rows) /\ k <= Len(rows') /\ \A f \in 1 .. k : rows'[f] = rows[f]
  BY <1>1 DEF TypeOK, FilesAgree
<1>3. OnDisk' = OnDisk
  BY DEF OnDisk
<1>4. Straight(rows', k) = Straight(rows, k) /\ ChainsEnd(rows', OnDisk.live, k)
  BY <1>1, <1>2, PrefixKept DEF FilesAgree
<1>5. skipRow' \subseteq k + 1 .. Len(rows')
  <2>1. \A f \in skipRow : f \in Nat /\ k + 1 <= f /\ f <= Len(rows)
    BY <1>1, <1>2 DEF FilesAgree
  <2>2. \A f \in skipRow' : f \in Nat /\ k + 1 <= f /\ f <= Len(rows')
    BY <1>1, <1>2, <2>1
  <2> QED BY <1>1, <1>2, <2>2
<1> QED BY <1>1, <1>2, <1>3, <1>4, <1>5 DEF FilesAgree

LEMMA InLineStays ==
  ASSUME TypeOK, TypeOK', NEW n \in Nat, InLine(n),
         UNCHANGED <<rows, skipRow, tree, treeOpen, frozen, metadata, cap>>, now <= now',
         treeFile'.cursor <= lastInserted
  PROVE  InLine(n)'
<1>1. ProofsKept(now', live, exported, frozen)
  BY LaterKept DEF InLine, TypeOK
<1> QED BY <1>1 DEF InLine, metadata

(* The checkpoint of a serving process writes the tree and captures the     *)
(* metadata of one moment.                                                  *)
LEMMA WriteAgrees ==
  ASSUME TypeOK, TypeOK', Faults = {}, FilesAgree, InOrder, Serving,
         WriteTree \/ LoseTreeWrite, writing' = MetaSnapshot,
         UNCHANGED <<rows, skipRow, metaFile, now, cap, tree, frozen, treeOpen, metadata>>
  PROVE  FilesAgree' /\ InLine(Len(rows))'
<1>1. PICK n \in Nat : n = Len(rows)
  BY DEF TypeOK
<1>2. PICK m \in Nat : m = lastInserted
  BY DEF TypeOK
<1>3. InLine(n)
  BY <1>1 DEF InOrder
<1>4. /\ m <= n /\ 2 * m <= cap /\ tree = Straight(rows, m) /\ (~treeOpen => m = 0)
      /\ seqNo = 2 * m /\ frozen \subseteq 1 .. m /\ skipped = skipRow
      /\ skipped \cap (1 .. n) = m + 1 .. n
      /\ ChainsEnd(rows, live, m) /\ ProofsKept(now, live, exported, frozen)
      /\ treeFile.cursor <= m
  BY <1>2, <1>3 DEF InLine
<1>5. WriteTree /\ treeFile.cursor \in Nat
  BY DEF LoseTreeWrite, TypeOK, TreeFile
<1>6. /\ treeFile'.cursor = m /\ treeFile'.leaves = Straight(rows, m)
      /\ treeFile'.frozen \subseteq frozen /\ (~treeFile'.exists => m = 0)
  <2>1. CASE treeOpen
    BY <1>2, <1>4, <1>5, <2>1 DEF WriteTree, TreeSnapshot
  <2>2. CASE ~treeOpen
    <3>1. m = 0 /\ treeFile.cursor = 0 /\ treeFile' = treeFile
      BY <1>4, <1>5, <2>2 DEF WriteTree
    <3>2. treeFile.frozen = {}
      BY <3>1 DEF FilesAgree
    <3> QED BY <3>1, <3>2 DEF FilesAgree
  <2> QED BY <2>1, <2>2
<1>7. OnDisk' = MetaSnapshot
  BY DEF OnDisk, MetaSnapshot
<1>8. skipRow \subseteq m + 1 .. n
  <2>1. \A f \in skipRow : f \in 1 .. n
    BY <1>1, <1>5 DEF FilesAgree
  <2> QED BY <1>4, <2>1
<1>9. ProofsKept(now, live, exported, treeFile'.frozen)
  BY <1>4, <1>6 DEF ProofsKept
<1>10. /\ OnDisk'.seqNo = seqNo /\ OnDisk'.live = live /\ OnDisk'.exported = exported
       /\ m <= Len(rows)
  BY <1>1, <1>4, <1>7 DEF MetaSnapshot
<1>11. treeFile'.frozen \subseteq 1 .. m
  BY <1>4, <1>6
<1>12. ~metaFile.exists => metaFile = NoMetaFile
  BY DEF FilesAgree
<1>13. FilesAgree'
  BY <1>1, <1>4, <1>6, <1>8, <1>9, <1>10, <1>11, <1>12 DEF FilesAgree
<1>14. InLine(n)'
  <2>1. now <= now' /\ treeFile'.cursor <= lastInserted
    BY <1>2, <1>6 DEF TypeOK, Epochs
  <2> QED BY <1>3, <2>1, InLineStays
<1> QED BY <1>1, <1>13, <1>14

(* A process that is not serving yet has nothing to feed from. *)
LEMMA NotFed ==
  ASSUME phase' \in {"down", "registered", "restoring"}
  PROVE  InOrder'
BY DEF InOrder, Serving

LEMMA ProcessEndsInOrder ==
  ASSUME TypeOK, TypeOK', RInv, LoseMemory, UNCHANGED <<durable, now, cap>>, ~writing.exists
  PROVE  RInv'
<1>1. FilesAgree'
  <2>1. OnDisk' = OnDisk
    BY DEF OnDisk, LoseMemory, NoMetaFile, durable
  <2> QED BY <2>1, FilesStay, SmtAssumption
       DEF RInv, FilesAgree, durable, TypeOK, SmtAssumption, Epochs
<1> QED BY <1>1, NotFed DEF LoseMemory, RInv, NotRestored, HalfRestored, NoMetaFile

LEMMA InitInOrder == Init => RInv
<1> SUFFICES ASSUME Init PROVE RInv
  OBVIOUS
<1>1. TypeOK
  BY TypeInit
<1>2. /\ rows = <<>> /\ treeFile = NoTreeFile /\ OnDisk = NoMetaFile /\ metaFile = NoMetaFile
      /\ skipRow = {} /\ cap \in Nat
  BY SmtAssumption DEF SmtAssumption, Init, OnDisk, NoMetaFile
<1>3. Straight(rows, 0) = {}
  BY DEF Straight
<1>4. ChainsEnd(rows, {}, 0)
  BY DEF ChainsEnd, Chain
<1>5. ProofsKept(now, {}, NoExports, {})
  BY DEF ProofsKept, NoExports
<1>6. FilesAgree
  BY <1>2, <1>3, <1>4, <1>5 DEF FilesAgree, NoTreeFile, NoMetaFile
<1> QED BY <1>1, <1>6 DEF Init, RInv, NotRestored, HalfRestored, InOrder, Serving, NoMetaFile

LEMMA StepInOrder ==
  ASSUME Faults = {}, RInv, [Next]_vars
  PROVE  RInv'
<1>0. TypeOK /\ TypeOK' /\ now \in Nat /\ cap \in Nat /\ treeFile.cursor \in Nat
  <2>1. TypeOK /\ TypeOK'
    BY TypeStep DEF RInv
  <2>2. now \in Nat /\ cap \in Nat /\ treeFile.cursor \in Nat
    BY <2>1, SmtAssumption DEF SmtAssumption, TypeOK, Epochs, TreeFile
  <2> QED BY <2>1, <2>2
<1> DEFINE Unread == phase \in {"down", "registered", "restoring"}
<1>1. ASSUME NEW c \in Conv, OnEventAppended(c) PROVE RInv'
  <2>1. PICK n \in Nat : n = Len(rows)
    BY <1>0 DEF TypeOK
  <2>2. /\ phase = "up" /\ phase' = "up" /\ rows' = Append(rows, c) /\ Feed(n + 1, c)
        /\ UNCHANGED <<treeFile, metaFile, writing, now, cap>>
    BY <1>1, <2>1 DEF OnEventAppended, env
  <2>3. InLine(n)
    BY <2>1, <2>2 DEF RInv, InOrder, Serving
  <2>4. InLine(n + 1)' /\ \A f \in skipRow' : f \in skipRow \/ f = n + 1
    BY <1>0, <2>1, <2>2, <2>3, FeedInLine
  <2>5. Len(rows') = n + 1 /\ \A f \in 1 .. n : rows'[f] = rows[f]
    BY <1>0, <2>1, <2>2 DEF TypeOK
  <2>6. FilesAgree'
    <3>1. treeFile.cursor < n + 1
      BY <1>0, <2>1 DEF RInv, FilesAgree
    <3> QED BY <1>0, <2>1, <2>2, <2>4, <2>5, <3>1, FilesGrow DEF RInv
  <2>7. InOrder'
    BY <2>2, <2>4, <2>5 DEF InOrder, Serving
  <2> QED BY <1>0, <2>2, <2>6, <2>7 DEF RInv, NotRestored, HalfRestored
<1>2. CASE Register
  <2>1. /\ phase = "down" /\ phase' = "registered" /\ cap <= cap' /\ now' = now
        /\ UNCHANGED <<rows, skipRow, treeFile, metaFile, tree, frozen, treeOpen, queued, writing>>
    BY <1>0, <1>2 DEF Register, durable, trees, chain, TypeOK
  <2>2. FilesAgree'
    BY <1>0, <2>1, FilesStay DEF RInv, OnDisk, FilesAgree
  <2> QED BY <1>0, <2>1, <2>2, NotFed DEF RInv, NotRestored, HalfRestored
<1>3. CASE StartRestore
  <2>1. /\ phase = "registered" /\ phase' = "restoring" /\ UNCHANGED <<now, cap>>
        /\ UNCHANGED <<rows, skipRow, treeFile, metaFile, queued, writing>>
        /\ skipped' = skipRow /\ seqNo' = 0 /\ live' = {} /\ exported' = NoExports
    BY <1>3 DEF StartRestore, durable, env, chain
  <2>2. FilesAgree'
    BY <1>0, <2>1, FilesStay DEF RInv, OnDisk, FilesAgree
  <2>3. HalfRestored'
    <3>1. CASE treeFile.exists
      BY <1>3, <2>1, <3>1 DEF StartRestore, RInv, NotRestored, HalfRestored
    <3>2. CASE ~treeFile.exists
      <4>1. treeFile.leaves = {} /\ treeFile.frozen = {}
        <5>1. treeFile.cursor = 0
          BY <3>2 DEF RInv, FilesAgree
        <5> QED BY <5>1 DEF RInv, FilesAgree, Straight
      <4>2. tree' = {} /\ frozen' = {} /\ ~treeOpen'
        BY <1>3, <2>1, <3>2 DEF StartRestore, RInv, NotRestored, trees
      <4> QED BY <2>1, <3>2, <4>1, <4>2 DEF RInv, NotRestored, HalfRestored
    <3> QED BY <3>1, <3>2
  <2> QED BY <1>0, <2>1, <2>2, <2>3, NotFed DEF RInv, NotRestored
<1>4. CASE FinishRestore
  <2>1. PICK n \in Nat : n = treeFile.cursor
    BY <1>0
  <2>2. /\ phase = "restoring" /\ replayPos' = lastInserted' + 1
        /\ phase' = (IF lastInserted' < Len(rows) THEN "replaying" ELSE "up")
        /\ UNCHANGED <<rows, skipRow, treeFile, metaFile, now, cap>>
        /\ UNCHANGED <<tree, frozen, treeOpen, skipped, queued, writing>>
    BY <1>4 DEF FinishRestore, durable, env, trees, chain
  <2>3. FilesAgree'
    BY <1>0, <2>2, FilesStay DEF RInv, OnDisk, FilesAgree
  <2>4. HalfRestored /\ phase' \in {"replaying", "up"}
    BY <2>2 DEF RInv
  <2>5. lastInserted' = n
    <3>1. \A x : RestoredLast(x) = n
      <4>1. ~treeFile.exists => n = 0
        BY <2>1 DEF RInv, FilesAgree
      <4> QED BY <2>1, <2>2, <2>4, <4>1 DEF RestoredLast, NoCursor, HalfRestored
    <3> QED BY <1>4, <3>1 DEF FinishRestore
  <2>6. seqNo' = OnDisk.seqNo /\ live' = OnDisk.live /\ exported' = OnDisk.exported
    <3>1. ~writing.exists /\ seqNo = 0 /\ live = {} /\ exported = NoExports
      BY <2>2, <2>4 DEF HalfRestored
    <3>2. CASE metaFile.exists
      BY <1>4, <3>1, <3>2 DEF FinishRestore, OnDisk
    <3>3. CASE ~metaFile.exists
      <4>1. metaFile = NoMetaFile
        BY <3>3 DEF RInv, FilesAgree
      <4> QED BY <1>4, <3>1, <3>3, <4>1 DEF FinishRestore, OnDisk, NoMetaFile
    <3> QED BY <3>2, <3>3
  <2>7. InLine(n)'
    <3>1. /\ tree = treeFile.leaves /\ frozen = treeFile.frozen /\ skipped = skipRow
          /\ ~treeOpen => n = 0
      BY <2>1, <2>2, <2>4 DEF HalfRestored, RInv, FilesAgree
    <3>2. skipped \cap (1 .. n) = n + 1 .. n
      <4>1. \A f \in skipped : f \notin 1 .. n
        BY <2>1, <3>1 DEF RInv, FilesAgree
      <4>2. n + 1 .. n = {}
        OBVIOUS
      <4> QED BY <4>1, <4>2
    <3>3. /\ n <= Len(rows) /\ 2 * n <= cap /\ tree = Straight(rows, n) /\ frozen \subseteq 1 .. n
          /\ OnDisk.seqNo = 2 * n /\ ChainsEnd(rows, OnDisk.live, n)
          /\ ProofsKept(now, OnDisk.live, OnDisk.exported, frozen)
      BY <2>1, <3>1 DEF RInv, FilesAgree
    <3> QED BY <2>1, <2>2, <2>5, <2>6, <3>1, <3>2, <3>3 DEF InLine
  <2>8. InOrder'
    <3>1. n <= Len(rows) /\ Len(rows) \in Nat /\ replayPos' - 1 = n /\ replayPos' > 0
      <4>1. n <= Len(rows) /\ Len(rows) \in Nat
        BY <1>0, <2>1 DEF RInv, FilesAgree, TypeOK
      <4>2. replayPos' = n + 1
        BY <2>2, <2>5
      <4> QED BY <4>1, <4>2
    <3>2. CASE n < Len(rows)
      BY <2>2, <2>5, <2>7, <3>1, <3>2 DEF InOrder, Serving
    <3>3. CASE ~(n < Len(rows))
      <4>1. n = Len(rows')
        BY <2>2, <3>1, <3>3
      <4> QED BY <2>2, <2>5, <2>7, <3>3, <4>1 DEF InOrder, Serving
    <3> QED BY <3>2, <3>3
  <2> QED BY <1>0, <2>3, <2>4, <2>8 DEF RInv, NotRestored, HalfRestored
<1>5. CASE ReplayStep
  <2>1. /\ phase = "replaying" /\ phase' = "replaying" /\ replayPos <= Len(rows)
        /\ replayPos' = replayPos + 1 /\ Feed(replayPos, rows[replayPos])
        /\ UNCHANGED <<rows, treeFile, metaFile, writing, now, cap>>
    BY <1>5 DEF ReplayStep, env, chain
  <2>2. PICK n \in Nat : n = replayPos - 1
    BY <1>0, <2>1 DEF RInv, InOrder, TypeOK
  <2>3. replayPos = n + 1 /\ InLine(n) /\ Len(rows) \in Nat
    BY <1>0, <2>1, <2>2 DEF RInv, InOrder, TypeOK
  <2>4. PICK c \in Conv : c = rows[n + 1]
    BY <1>0, <2>1, <2>3 DEF TypeOK
  <2>5. InLine(n + 1)' /\ \A f \in skipRow' : f \in skipRow \/ f = n + 1
    BY <1>0, <2>1, <2>3, <2>4, FeedInLine
  <2>6. FilesAgree'
    <3>1. treeFile.cursor < n + 1
      BY <1>0, <2>3 DEF InLine, TypeOK
    <3>2. n + 1 <= Len(rows) /\ Len(rows) <= Len(rows') /\ n + 1 \in Nat
      BY <2>1, <2>3
    <3> QED BY <1>0, <2>1, <2>5, <3>1, <3>2, FilesGrow DEF RInv
  <2>7. InOrder'
    <3>1. replayPos' - 1 = n + 1 /\ replayPos' > 0
      BY <2>1, <2>3
    <3> QED BY <2>1, <2>5, <3>1 DEF InOrder, Serving
  <2> QED BY <1>0, <2>1, <2>6, <2>7 DEF RInv, NotRestored, HalfRestored
<1>6. CASE ReplayDone
  <2>1. /\ phase = "replaying" /\ replayPos > Len(rows) /\ phase' = "up"
        /\ UNCHANGED <<rows, skipRow, treeFile, metaFile, writing, now, cap>>
        /\ UNCHANGED <<tree, treeOpen, frozen, metadata, replayPos>>
    BY <1>6 DEF ReplayDone, durable, env, trees
  <2>2. FilesAgree'
    BY <1>0, <2>1, FilesStay DEF RInv, OnDisk, FilesAgree
  <2>3. PICK n \in Nat : n = replayPos - 1
    BY <1>0, <2>1 DEF RInv, InOrder, TypeOK
  <2>4. InLine(n) /\ n = Len(rows)
    <3>1. InLine(n)
      BY <2>1, <2>3 DEF RInv, InOrder
    <3> QED BY <1>0, <2>1, <2>3, <3>1 DEF InLine, TypeOK
  <2>5. InLine(n)'
    <3>1. treeFile'.cursor <= lastInserted /\ now <= now'
      BY <1>0, <2>1, <2>4 DEF InLine
    <3> QED BY <1>0, <2>1, <2>4, <3>1, InLineStays
  <2>6. InOrder'
    BY <2>1, <2>4, <2>5 DEF InOrder, Serving
  <2> QED BY <1>0, <2>1, <2>2, <2>6 DEF RInv, NotRestored, HalfRestored
<1>7. ASSUME UNCHANGED <<rows, skipRow, treeFile, cap, tree, treeOpen, frozen, metadata>>,
             UNCHANGED <<restoredCursor, replayPos>>,
             now <= now', phase' = phase \/ (Serving /\ Serving'), OnDisk' = OnDisk,
             ~metaFile'.exists => metaFile' = NoMetaFile,
             Unread => queued' = queued /\ (writing' = writing \/ writing' = NoMetaFile)
      PROVE  RInv'
  <2>1. FilesAgree'
    BY <1>0, <1>7, FilesStay DEF RInv
  <2>2. ASSUME NEW n \in Nat, InLine(n) PROVE InLine(n)'
    <3>1. treeFile'.cursor <= lastInserted
      BY <1>7, <2>2 DEF InLine
    <3> QED BY <1>0, <1>7, <2>2, <3>1, InLineStays
  <2>3. InOrder'
    <3>1. CASE phase = "replaying"
      <4>1. PICK n \in Nat : n = replayPos - 1
        BY <1>0, <3>1 DEF RInv, InOrder, TypeOK
      <4>2. InLine(n) /\ phase' = phase /\ replayPos > 0
        BY <1>7, <3>1, <4>1 DEF RInv, InOrder, Serving
      <4> QED BY <1>7, <2>2, <3>1, <4>1, <4>2 DEF InOrder, Serving
    <3>2. CASE Serving
      <4>1. PICK n \in Nat : n = Len(rows)
        BY <1>0 DEF TypeOK
      <4>2. InLine(n) /\ Serving'
        BY <1>7, <3>2, <4>1 DEF RInv, InOrder, Serving
      <4>3. n = Len(rows') /\ phase' # "replaying"
        BY <1>7, <4>1, <4>2 DEF Serving
      <4> QED BY <2>2, <4>2, <4>3 DEF InOrder
    <3>3. CASE Unread
      BY <1>7, <3>3 DEF InOrder, Serving
    <3> QED BY <1>0, <3>1, <3>2, <3>3 DEF TypeOK, Phases, Serving
  <2>4. NotRestored'
    BY <1>7 DEF RInv, NotRestored, Serving, NoMetaFile
  <2>5. HalfRestored'
    BY <1>7 DEF RInv, HalfRestored, Serving, NoMetaFile, metadata
  <2> QED BY <1>0, <2>1, <2>3, <2>4, <2>5 DEF RInv
<1>8. ~metaFile.exists => metaFile = NoMetaFile
  BY DEF RInv, FilesAgree
<1>9. CASE CheckpointTimer
  <2>1. phase = "up" /\ now' = now /\ cap' = cap
        /\ UNCHANGED <<rows, skipRow, treeFile, metaFile, writing, tree, treeOpen, frozen>>
        /\ UNCHANGED <<metadata, restoredCursor, replayPos, phase>>
    BY <1>9 DEF CheckpointTimer, durable, env, trees
  <2> QED BY <1>0, <1>7, <1>8, <2>1 DEF OnDisk
<1>10. ASSUME phase # "replaying", ~Unread, ~writing.exists,
              WriteTree \/ LoseTreeWrite, writing' = MetaSnapshot,
              UNCHANGED <<rows, skipRow, metaFile, now, cap, tree, frozen, treeOpen, metadata>>,
              phase' \in {"up", "stopping", "final"}
       PROVE  RInv'
  <2>1. Serving
    BY <1>0, <1>10 DEF TypeOK, Phases, Serving
  <2>2. FilesAgree' /\ InLine(Len(rows))'
    BY <1>0, <1>10, <2>1, WriteAgrees DEF RInv
  <2> QED BY <1>0, <1>10, <2>2 DEF RInv, NotRestored, HalfRestored, InOrder, Serving
<1>11. CASE StartCheckpoint
  <2>1. ~Unread
    BY <1>0, <1>11 DEF StartCheckpoint, RInv, NotRestored, HalfRestored, TypeOK
  <2> QED BY <1>0, <1>10, <1>11, <2>1 DEF StartCheckpoint, TypeOK, Phases
<1>12. CASE FinalCheckpoint
  BY <1>10, <1>12 DEF FinalCheckpoint
<1>13. CASE FinishCheckpoint
  <2>1. metaFile' = writing /\ writing.exists /\ writing' = NoMetaFile
    BY <1>13 DEF FinishCheckpoint, WriteMeta, LoseMetaWrite
  <2>2. /\ UNCHANGED <<rows, skipRow, treeFile, cap, tree, treeOpen, frozen, metadata>>
        /\ UNCHANGED <<restoredCursor, replayPos, queued, now, phase>>
    BY <1>13 DEF FinishCheckpoint, trees
  <2> QED BY <1>0, <1>7, <2>1, <2>2 DEF OnDisk, NoMetaFile
<1>14. CASE Stop
  <2>1. phase = "up" /\ phase' = "stopping" /\ now' = now
        /\ UNCHANGED <<rows, skipRow, treeFile, metaFile, writing, cap, tree, treeOpen, frozen>>
        /\ UNCHANGED <<metadata, restoredCursor, replayPos>>
    BY <1>14 DEF Stop, durable, env, trees, chain
  <2> QED BY <1>0, <1>7, <1>8, <2>1 DEF OnDisk, Serving
<1>15. CASE Exit
  BY <1>0, <1>15, ProcessEndsInOrder DEF Exit, env
<1>16. CASE Crash
  BY <1>0, <1>16, ProcessEndsInOrder DEF Crash
<1>17. CASE WipeTree
  BY <1>17 DEF WipeTree
<1>18. CASE Tick
  <2>1. now <= now' /\ phase' = phase
        /\ UNCHANGED <<rows, skipRow, treeFile, metaFile, writing, cap, tree, treeOpen, frozen>>
        /\ UNCHANGED <<metadata, restoredCursor, replayPos, queued>>
    BY <1>0, <1>18 DEF Tick, durable, trees, chain
  <2> QED BY <1>7, <1>8, <2>1 DEF OnDisk
<1>19. ASSUME NEW E \in SUBSET Epochs, PruneEpochs(E) PROVE RInv'
  <2>1. /\ phase = "up" /\ phase' = "up" /\ now' = now /\ cap' = cap
        /\ UNCHANGED <<rows, skipRow, treeFile, metaFile, writing>>
    BY <1>19 DEF PruneEpochs, durable, env, chain
  <2>2. FilesAgree'
    BY <1>0, <1>8, <2>1, FilesStay DEF RInv, OnDisk
  <2>3. PICK n \in Nat : n = Len(rows)
    BY <1>0 DEF TypeOK
  <2>4. InLine(n)'
    BY <1>0, <1>19, <2>1, <2>3, PruneInLine DEF RInv, InOrder, Serving
  <2>5. InOrder'
    BY <2>1, <2>3, <2>4 DEF InOrder, Serving
  <2> QED BY <1>0, <2>1, <2>2, <2>5 DEF RInv, NotRestored, HalfRestored
<1>20. CASE AutoPrune
  BY <1>19, <1>20 DEF AutoPrune
<1>21. CASE PruneTool
  BY <1>19, <1>21 DEF PruneTool
<1>22. CASE UNCHANGED vars
  <2>1. now <= now' /\ phase' = phase
        /\ UNCHANGED <<rows, skipRow, treeFile, metaFile, writing, cap, tree, treeOpen, frozen>>
        /\ UNCHANGED <<metadata, restoredCursor, replayPos, queued>>
    BY <1>0, <1>22 DEF vars, durable, env, trees, chain
  <2> QED BY <1>7, <1>8, <2>1 DEF OnDisk
<1> QED
  BY <1>1, <1>2, <1>3, <1>4, <1>5, <1>6, <1>9, <1>11, <1>12, <1>13, <1>14, <1>15, <1>16,
     <1>17, <1>18, <1>20, <1>21, <1>22 DEF Next

(* The tree of a gateway without faults is the clean replay of its rows. *)
LEMMA InOrderAgrees == ASSUME RInv PROVE ReplayAgrees
<1> SUFFICES ASSUME Serving PROVE tree = CleanReplay
  BY DEF ReplayAgrees
<1>1. PICK m \in Nat : m = lastInserted
  BY DEF RInv, TypeOK
<1>2. /\ tree = Straight(rows, m) /\ m <= Len(rows) /\ 2 * m <= cap /\ Len(rows) \in Nat
      /\ skipped \cap (1 .. Len(rows)) = m + 1 .. Len(rows) /\ cap \in Nat
  BY <1>1, SmtAssumption DEF SmtAssumption, RInv, InOrder, InLine, TypeOK
<1>3. Tracked = 1 .. m
  <2>1. \A e \in 1 .. Len(rows) : e \in skipped <=> e \in m + 1 .. Len(rows)
    BY <1>2
  <2> QED BY <1>2, <2>1 DEF Tracked
<1>4. ASSUME NEW e \in 1 .. m
      PROVE  ReplayLeaf(e) = LeafAt(rows, e) /\ 2 * Cardinality({f \in Tracked : f <= e}) <= cap
  <2>1. {f \in Tracked : f < e} = 1 .. e - 1 /\ {f \in Tracked : f <= e} = 1 .. e
    BY <1>3
  <2>2. Cardinality(1 .. e - 1) = e - 1 /\ Cardinality(1 .. e) = e
    BY FS_Interval
  <2>3. 2 * (e - 1) + 1 = 2 * e - 1 /\ 2 * e <= cap
    BY <1>2
  <2> QED BY <2>1, <2>2, <2>3 DEF ReplayLeaf, LeafAt
<1>5. CleanReplay = {ReplayLeaf(e) : e \in 1 .. m}
  BY <1>3, <1>4 DEF CleanReplay
<1> QED BY <1>2, <1>4, <1>5 DEF Straight

THEOREM InOrderInductive == ASSUME Faults = {} PROVE Spec => []RInv
<1>1. Init => RInv
  BY InitInOrder
<1>2. RInv /\ [Next]_vars => RInv'
  BY StepInOrder
<1> QED  BY <1>1, <1>2, PTL DEF Spec

(* An honest trail is never reported as a mismatch: after any history of    *)
(* stops, crashes between two checkpoints, restarts with the same or a      *)
(* larger tree, replays and prunes that keep the chains, the tree of a      *)
(* serving gateway is the one the verifier rebuilds from its rows.          *)
THEOREM TreeIsReplay == ASSUME Faults = {} PROVE Spec => []ReplayAgrees
<1>1. RInv => ReplayAgrees
  BY InOrderAgrees
<1> QED  BY <1>1, InOrderInductive, PTL

(* Under the same conditions freezing loses no proof, although the frozen   *)
(* leaves are in one file and their proofs in the other.                    *)
THEOREM FrozenKeepsProof == ASSUME Faults = {} PROVE Spec => []FrozenHasProof
<1>1. RInv => FrozenHasProof
  BY DEF RInv, InOrder, InLine, ProofsKept, FrozenHasProof
<1> QED  BY <1>1, InOrderInductive, PTL
=============================================================================
