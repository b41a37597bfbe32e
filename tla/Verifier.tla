------------------------------ MODULE Verifier ------------------------------
(***************************************************************************)
(* Verifier.verifyRange: the replay of the audit rows in batches, its      *)
(* comparison with the anchored checkpoints, and the scan that brackets    *)
(* the altered rows; over tables as appends, anchors, prunes, a raised     *)
(* smt.maxTreeSize, and changes made behind the plugin's back leave them.  *)
(*                                                                         *)
(* A leaf is the sequence of its event; an altered row hashes to no leaf.  *)
(* verifyRange is synchronous: the table does not change while it runs.    *)
(***************************************************************************)
EXTENDS Integers, FiniteSets, FiniteSetsExt

CONSTANTS
  MaxSeq,      (* bound on the number of events          *)
  Cap,         (* smt.maxTreeSize at first, in events    *)
  Batch,       (* BATCH                                  *)
  MaxPrunes,   (* bound on the prunes                    *)
  MaxTampers   (* bound on the rows altered or deleted   *)

ASSUME VerifierAssumption ==
  /\ MaxSeq \in Nat /\ Cap \in 1 .. MaxSeq /\ Batch \in Nat \ {0}
  /\ MaxPrunes \in Nat /\ MaxTampers \in Nat

VARIABLES
  last,         (* highest sequence assigned                        *)
  rows,         (* sequences in audit_events                        *)
  altered,      (* those whose content is not what was appended     *)
  deleted,      (* sequences deleted by other means than a prune    *)
  leaves,       (* sequences with a leaf in the live SMT            *)
  skips,        (* skippedSeqs                                      *)
  cap,          (* smt.maxTreeSize                                  *)
  checkpoints,  (* integrity_checkpoints                            *)
  flight,       (* the checkpoint of a submission under way         *)
  prunes, tampers,
  pc,           (* "idle", "replay", "scan", "done"                 *)
  seen,         (* lastSeqSeen, afterSeq in the scan                *)
  batch,        (* what is left of the batch                        *)
  cpIdx,
  tree,         (* the replay tree                                  *)
  verdict

table   == <<last, rows, altered, deleted, leaves, skips, cap, checkpoints, flight, prunes, tampers>>
replay  == <<pc, seen, batch, cpIdx, tree, verdict>>
verifierVars    == <<table, replay>>

Sequences  == 1 .. MaxSeq
Checkpoint == [start : Sequences, end : Sequences, root : SUBSET Sequences]

NoVerdict == [status |-> "none", checked |-> 0, from |-> 0, to |-> 0]

VerifierInit ==
  /\ last = 0 /\ rows = {} /\ altered = {} /\ deleted = {} /\ leaves = {} /\ skips = {}
  /\ cap = Cap /\ checkpoints = {} /\ flight = {} /\ prunes = 0 /\ tampers = 0
  /\ pc = "idle" /\ seen = 0 /\ batch = {} /\ cpIdx = 0 /\ tree = {} /\ verdict = NoVerdict

-----------------------------------------------------------------------------
(* What happens to the table before it is verified. *)

(* A full tree skips the event. *)
OnEventAppended ==
  /\ last < MaxSeq
  /\ last' = last + 1 /\ rows' = rows \cup {last + 1}
  /\ IF Cardinality(leaves) < cap
       THEN leaves' = leaves \cup {last + 1} /\ UNCHANGED skips
       ELSE skips' = skips \cup {last + 1} /\ UNCHANGED leaves
  /\ UNCHANGED <<altered, deleted, cap, checkpoints, flight, prunes, tampers>>

(* doAnchor up to its await, and after it. *)
Submit ==
  LET s == Max({0} \cup {c.end : c \in checkpoints}) + 1
      since == {r \in rows : r >= s}
  IN  /\ flight = {} /\ since # {}
      /\ flight' = {[start |-> s, end |-> Max(since), root |-> leaves]}
      /\ UNCHANGED <<last, rows, altered, deleted, leaves, skips, cap, checkpoints,
                     prunes, tampers>>

Anchored ==
  /\ flight # {}
  /\ checkpoints' = checkpoints \cup flight /\ flight' = {}
  /\ UNCHANGED <<last, rows, altered, deleted, leaves, skips, cap, prunes, tampers>>

(* AuditStore.prune of the rows below k. *)
Prune(k) ==
  /\ prunes < MaxPrunes /\ \E r \in rows : r < k
  /\ rows' = {r \in rows : r >= k}
  /\ altered' = altered \cap rows'
  /\ checkpoints' = {c \in checkpoints : c.start >= Min(rows' \cup {last + 1})}
  /\ prunes' = prunes + 1
  /\ UNCHANGED <<last, deleted, leaves, skips, cap, flight, tampers>>

(* A restart with room for all: the replay of the rows above the last leaf  *)
(* gives the skipped ones theirs.                                           *)
RaiseCap ==
  /\ cap < MaxSeq
  /\ cap' = MaxSeq
  /\ leaves' = leaves \cup (skips \cap rows)
  /\ skips' = skips \ rows
  /\ altered' = altered \ skips
  /\ flight' = {}
  /\ UNCHANGED <<last, rows, deleted, checkpoints, prunes, tampers>>

Tamper ==
  /\ tampers < MaxTampers /\ tampers' = tampers + 1
  /\ \E e \in rows :
       \/ altered' = altered \cup {e} /\ UNCHANGED <<rows, deleted>>
       \/ rows' = rows \ {e} /\ deleted' = deleted \cup {e} /\ altered' = altered \ {e}
  /\ UNCHANGED <<last, leaves, skips, cap, checkpoints, flight, prunes>>

History ==
  /\ pc = "idle"
  /\ OnEventAppended \/ Submit \/ Anchored \/ RaiseCap \/ Tamper \/ \E k \in 2 .. last + 1 : Prune(k)
  /\ UNCHANGED replay

-----------------------------------------------------------------------------
(* verifyRange. *)

Position(c) == Cardinality({d \in checkpoints : d.start < c.start})
LastEnd     == (CHOOSE c \in checkpoints : Position(c) = Cardinality(checkpoints) - 1).end

(* store.query with afterSequence and limit. *)
NextBatch == LET ahead == {r \in rows : r > seen}
             IN  {r \in ahead : Cardinality({q \in ahead : q < r}) < Batch}

VerifyRange ==
  /\ pc = "idle"
  /\ IF checkpoints = {}
       THEN pc' = "done" /\ verdict' = [verdict EXCEPT !.status = "anchor-pending"]
       ELSE pc' = "replay" /\ UNCHANGED verdict
  /\ UNCHANGED <<table, seen, batch, cpIdx, tree>>

(* Mutant: running out of rows is not an error but a reason to ask again. *)
FetchForever ==
  /\ pc = "replay" /\ batch = {} /\ seen < LastEnd
  /\ batch' = NextBatch
  /\ UNCHANGED <<table, pc, seen, cpIdx, tree, verdict>>

Fetch ==
  /\ pc = "replay" /\ batch = {} /\ seen < LastEnd
  /\ batch' = NextBatch
  /\ IF NextBatch = {}
       THEN pc' = "done" /\ verdict' = [verdict EXCEPT !.status = "events-missing"]
       ELSE UNCHANGED <<pc, verdict>>
  /\ UNCHANGED <<table, seen, cpIdx, tree>>

(* Mutant: the replay gives skipped events a leaf. *)
AppliedAll(e) == tree \cup {e}

Applied(e) == IF e \in skips THEN tree ELSE tree \cup {e}

(* The replay tree has c's root. *)
RootMatches(c) == tree' = c.root /\ tree' \cap altered = {}

(* Mutant: a checkpoint that ends below the row counts as passed. *)
DueLoose(e) == {c \in checkpoints : Position(c) = cpIdx /\ c.end <= e}

(* The checkpoint whose turn it is, if it ends at row e. *)
Due(e) == {c \in checkpoints : Position(c) = cpIdx /\ c.end = e}

Replay ==
  /\ pc = "replay" /\ batch # {}
  /\ IF Min(batch) > LastEnd
       THEN batch' = {} /\ UNCHANGED <<pc, seen, cpIdx, tree, verdict>>
       ELSE LET e == Min(batch)
            IN  /\ tree' = Applied(e)
                /\ verdict' = [verdict EXCEPT
                     !.checked = @ + Cardinality(Due(e)),
                     !.status  = IF \A c \in Due(e) : RootMatches(c) THEN @ ELSE "root-mismatch"]
                /\ IF \A c \in Due(e) : RootMatches(c)
                     THEN /\ seen' = e /\ batch' = batch \ {e}
                          /\ cpIdx' = cpIdx + Cardinality(Due(e))
                          /\ UNCHANGED pc
                     ELSE /\ pc' = "scan" /\ seen' = 0 /\ batch' = {} /\ UNCHANGED cpIdx
  /\ UNCHANGED table

(* lastCoversTo decides which of the two it is. *)
ReplayEnds ==
  /\ pc = "replay" /\ batch = {} /\ seen >= LastEnd
  /\ pc' = "done"
  /\ \E s \in {"verified", "anchor-pending"} : verdict' = [verdict EXCEPT !.status = s]
  /\ UNCHANGED <<table, seen, batch, cpIdx, tree>>

(* Mutant: a full batch is taken for the last one. *)
LastBatchFull(b) == Cardinality(b) <= Batch

LastBatch(b) == Cardinality(b) < Batch

(* findTamperedRange: up to the last leaf, leaving out what was skipped. *)
FindTampered ==
  LET tracked == {r \in NextBatch : r <= Max(leaves)}
      bad     == (tracked \cap altered) \ skips
  IN  /\ pc = "scan"
      /\ seen' = IF tracked = {} THEN seen ELSE Max(tracked)
      /\ verdict' = IF bad = {} THEN verdict
                    ELSE [verdict EXCEPT !.from = IF @ = 0 THEN Min(bad) ELSE @, !.to = Max(bad)]
      /\ pc' = IF tracked # NextBatch \/ LastBatch(NextBatch) THEN "done" ELSE "scan"
      /\ UNCHANGED <<table, batch, cpIdx, tree>>

-----------------------------------------------------------------------------
VerifierNext == History \/ VerifyRange \/ Fetch \/ Replay \/ ReplayEnds \/ FindTampered

(* The loop runs on, once it has begun. *)
VerifierSpec ==
  /\ VerifierInit /\ [][VerifierNext]_verifierVars
  /\ WF_verifierVars(Fetch) /\ WF_verifierVars(Replay)
  /\ WF_verifierVars(ReplayEnds) /\ WF_verifierVars(FindTampered)

-----------------------------------------------------------------------------
(* Properties. *)

Tracked == altered \ skips
Mismatch == verdict.status \in {"root-mismatch", "events-missing"}

(* The batches do not show: the verdict is the one a single pass over the   *)
(* rows gives.  A checkpoint is met if every one up to it has its end row.  *)
Met(c) == \A d \in checkpoints : d.start <= c.start => d.end \in rows
Fails(c) ==
  {r \in rows \ skips : r <= c.end} # c.root \/ \E r \in altered \ skips : r <= c.end
VerdictRight ==
  pc = "done" =>
    /\ verdict.status = "root-mismatch" <=> \E c \in checkpoints : Met(c) /\ Fails(c)
    /\ verdict.status = "events-missing" <=>
         /\ checkpoints # {} /\ \A r \in rows : r < LastEnd
         /\ \A c \in checkpoints : ~(Met(c) /\ Fails(c))

(* "Reports the exact tampered range": an altered row below the last anchor *)
(* is a mismatch, and the bracket spans the altered rows, across batches.   *)
AlterationFound ==
  /\ pc = "done" /\ \A c \in checkpoints : c.end \in rows
  /\ \E e \in Tracked, c \in checkpoints : e <= c.end
  => verdict.status = "root-mismatch" /\ verdict.from = Min(Tracked) /\ verdict.to = Max(Tracked)

(* A trail nobody touched verifies, with events skipped at capacity in it.  *)
NoFalseAlarm ==
  tampers = 0 /\ prunes = 0 /\ cap = Cap => ~Mismatch

(* "Events expected but missing": verifyRange returns, whatever a prune has *)
(* left of the last checkpoint's range.                                     *)
MissingEnds == pc = "replay" ~> pc = "done"

(* verifyRange returns, unless the last checkpoint's end row is gone while  *)
(* later rows are there.                                                    *)
Ends ==
  pc = "replay" /\ (LastEnd \in rows \/ \A r \in rows : r < LastEnd) ~> pc = "done"

-----------------------------------------------------------------------------
(* The invariant behind the first three. *)

(* What a history leaves: rows without a leaf are skipped ones, and the      *)
(* ranges follow one another, with that of a submission under way the last.  *)
TableSound ==
  /\ last \in 0 .. MaxSeq /\ rows \subseteq 1 .. last /\ altered \subseteq rows
  /\ leaves \cup skips \subseteq 1 .. last /\ rows \ skips \subseteq leaves
  /\ IsFiniteSet(checkpoints)
  /\ \A c \in checkpoints \cup flight :
       DOMAIN c = {"start", "end", "root"} /\ c.start \in 1 .. last /\ c.end \in c.start .. last
  /\ \A c, d \in checkpoints : c = d \/ c.end < d.start \/ d.end < c.start
  /\ \A c \in checkpoints, f \in flight : c.end < f.start
  /\ \A f, g \in flight : f = g

(* The roots of a table nobody touched are those of its rows. *)
Untouched == tampers = 0 /\ prunes = 0 /\ cap = Cap
RootsOfRows ==
  /\ tampers \in Nat /\ prunes \in Nat /\ cap \in {Cap, MaxSeq}
  /\ Untouched =>
       /\ altered = {} /\ rows = 1 .. last /\ leaves = rows \ skips
       /\ \A c \in checkpoints \cup flight : c.root = {r \in rows \ skips : r <= c.end}

(* Up to seen the replay is the single pass: the tree is that of the rows,   *)
(* the checkpoints passed were met, and the next one's row is still to come. *)
ReplayRight ==
  pc = "replay" =>
    /\ checkpoints # {} /\ verdict = [NoVerdict EXCEPT !.checked = verdict.checked]
    /\ seen \in rows \cup {0} /\ seen <= LastEnd /\ cpIdx \in Nat
    /\ batch \subseteq rows
    /\ \A b \in batch : b > seen /\ \A r \in rows : seen < r /\ r < b => r \in batch
    /\ tree = {r \in rows \ skips : r <= seen}
    /\ \A c \in checkpoints :
         /\ Position(c) < cpIdx => c.end \in rows /\ ~Fails(c)
         /\ Position(c) = cpIdx => c.end \notin rows \/ c.end > seen

Brackets(S) == IF S = {} THEN verdict.from = 0 /\ verdict.to = 0
                         ELSE verdict.from = Min(S) /\ verdict.to = Max(S)

VerdictSound ==
  /\ pc \in {"idle", "replay", "scan", "done"} /\ DOMAIN verdict = DOMAIN NoVerdict
  /\ pc = "idle" => seen = 0 /\ batch = {} /\ cpIdx = 0 /\ tree = {} /\ verdict = NoVerdict
  /\ verdict.status = "root-mismatch" => \E c \in checkpoints : Met(c) /\ Fails(c)
  /\ pc = "scan" => /\ verdict.status = "root-mismatch" /\ seen \in Nat
                    /\ Brackets({r \in Tracked : r <= seen})
  /\ pc = "done" => /\ VerdictRight
                    /\ verdict.status = "root-mismatch" => Brackets(Tracked)

VerifierInv == TableSound /\ RootsOfRows /\ ReplayRight /\ VerdictSound
=============================================================================
