--------------------------- MODULE SignalArchive ---------------------------
(* scripts/archive-signals-to-local-postgres.mjs and scripts/phase-a-backup.sh:
   the signals of the Neon database are copied, page by page, to a local archive
   behind a frozen watermark; a batch is VERIFIED when what Neon holds up to the
   watermark and what the archive holds are the same rows, and only a VERIFIED
   batch is backed up.  A signal is the pair <<created_at, id>>. *)
EXTENDS Integers, FiniteSets, FiniteSetsExt
CONSTANTS Signals,      \* the signals that may ever be written
          PageSize,     \* BATCH_SIZE
          MaxBatches, MaxNeonResets, MaxArchiveCrashes, \* bounds
          NoSignal

ASSUME ArchiveAssumption ==
    /\ Signals \subseteq Nat \X Nat /\ IsFiniteSet(Signals)
    /\ PageSize \in Nat \ {0} /\ MaxBatches \in Nat /\ NoSignal \notin Signals

VARIABLES neon,       \* public.signals
          written,    \* the signals written so far: an id is never used twice
          archived,   \* archive.signals
          batches,    \* archive.signal_archive_batches: what was frozen, and the verdict
          scriptRun,  \* the run of the script that is under way
          backup,     \* the dump that is being checked or was accepted
          neonResets, archiveCrashes

archiveVars == <<neon, written, archived, batches, scriptRun, backup, neonResets, archiveCrashes>>

Batches == 1..MaxBatches
Upto(r, m) == r[1] < m[1] \/ (r[1] = m[1] /\ r[2] <= m[2])
NoSession == [phase |-> "idle"]
NoBatch == [status |-> "none"]
NoDump == [phase |-> "none"]
Epochs(rows) == {r[1] : r \in rows}

ArchiveInit ==
    /\ neon = {} /\ written = {} /\ archived = {} /\ neonResets = 0 /\ archiveCrashes = 0
    /\ batches = [b \in Batches |-> NoBatch]
    /\ scriptRun = NoSession /\ backup = NoDump

(* One page of a keyset query: the next PageSize rows after the cursor, in order *)
Behind(cursor, r) == cursor # NoSignal => ~Upto(r, cursor)
NextPage(cursor, mark) ==
    LET rest == {r \in neon : Upto(r, mark) /\ Behind(cursor, r)}
    IN  {r \in rest : Cardinality({q \in rest : Upto(q, r)}) <= PageSize}
NewestOf(rows) == CHOOSE r \in rows : \A q \in rows : Upto(q, r)

----------------------------------------------------------------------------
(* The engine writes signals, not always in the order of created_at (a transaction
   that began earlier may commit later); an account reset deletes them. *)
SignalWritten(r) ==
    /\ r \notin written
    /\ neon' = neon \cup {r} /\ written' = written \cup {r}
    /\ UNCHANGED <<archived, batches, scriptRun, backup, neonResets, archiveCrashes>>

AccountReset ==
    /\ neon # {} /\ neonResets < MaxNeonResets
    /\ neon' = {} /\ neonResets' = neonResets + 1
    /\ UNCHANGED <<written, archived, batches, scriptRun, backup, archiveCrashes>>

(* main: the newest row becomes the watermark *)
Freeze ==
    /\ scriptRun = NoSession /\ neon # {}
    /\ \E b \in Batches : batches[b] = NoBatch
    /\ scriptRun' = [phase |-> "frozen", mark |-> NewestOf(neon)]
    /\ UNCHANGED <<neon, written, archived, batches, backup, neonResets, archiveCrashes>>

(* Count and bounds up to the watermark, then the manifest row; a source emptied in
   between has no bounds and the INSERT fails *)
Manifest ==
    /\ scriptRun.phase = "frozen"
    /\ LET rows == {r \in neon : Upto(r, scriptRun.mark)}
           b == CHOOSE c \in Batches : batches[c] = NoBatch /\ \A d \in Batches : d < c => batches[d] # NoBatch
       IN  IF rows = {}
           THEN scriptRun' = NoSession /\ UNCHANGED batches
           ELSE /\ batches' = [batches EXCEPT ![b] =
                      [status |-> "ARCHIVING", mark |-> scriptRun.mark, frozen |-> rows]]
                /\ scriptRun' = [phase |-> "paging", batch |-> b, cursor |-> NoSignal,
                               streamed |-> TRUE, staged |-> 0, seen |-> {}]
    /\ UNCHANGED <<neon, written, archived, backup, neonResets, archiveCrashes>>

(* --finish: an existing manifest row is verified again, nothing is streamed *)
Finish(b) ==
    /\ scriptRun = NoSession /\ batches[b] # NoBatch
    /\ scriptRun' = [phase |-> "digest", batch |-> b, cursor |-> NoSignal,
                   streamed |-> FALSE, staged |-> 0, seen |-> {}]
    /\ UNCHANGED <<neon, written, archived, batches, backup, neonResets, archiveCrashes>>

(* One page is read and upserted; the empty page ends the stream, and one page more
   than was frozen aborts it *)
Page ==
    /\ scriptRun.phase = "paging"
    /\ LET batch == batches[scriptRun.batch]
           rows == NextPage(scriptRun.cursor, batch.mark)
           staged == scriptRun.staged + Cardinality(rows)
       IN  /\ archived' = archived \cup rows
           /\ scriptRun' =
                IF rows = {} THEN [scriptRun EXCEPT !.phase = "digest", !.cursor = NoSignal]
                ELSE IF staged > Cardinality(batch.frozen) + PageSize THEN NoSession
                ELSE [scriptRun EXCEPT !.cursor = NewestOf(rows), !.staged = staged]
    /\ UNCHANGED <<neon, written, batches, backup, neonResets, archiveCrashes>>

(* fetchSourceDigestAndCount: the same keyset pages, identities only *)
DigestPage ==
    /\ scriptRun.phase = "digest"
    /\ LET rows == NextPage(scriptRun.cursor, batches[scriptRun.batch].mark)
       IN  scriptRun' = IF rows = {} THEN [scriptRun EXCEPT !.phase = "verify"]
                      ELSE [scriptRun EXCEPT !.cursor = NewestOf(rows), !.seen = @ \cup rows]
    /\ UNCHANGED <<neon, written, archived, batches, backup, neonResets, archiveCrashes>>

(* The archive is read by time only: every row received no later than the watermark *)
Received(mark) == {r \in archived : r[1] <= mark[1]}

Agrees_ByCount(batch) ==
    LET count == Cardinality(batch.frozen)
    IN  /\ Cardinality(scriptRun.seen) = count
        /\ scriptRun.streamed => scriptRun.staged = count
        /\ Cardinality(Received(batch.mark)) = count

Agrees(batch) ==
    LET count == Cardinality(batch.frozen)
        there == Received(batch.mark)
    IN  /\ Cardinality(scriptRun.seen) = count
        /\ scriptRun.streamed => scriptRun.staged = count
        /\ Cardinality(there) = count
        /\ Min(Epochs(there)) = Min(Epochs(batch.frozen))
        /\ Max(Epochs(there)) = Max(Epochs(batch.frozen))
        /\ scriptRun.seen = there

(* verifyAndFinalize.  An archive that holds nothing has no bounds and throws. *)
Verify ==
    /\ scriptRun.phase = "verify"
    /\ LET b == scriptRun.batch
       IN  batches' = IF Received(batches[b].mark) = {} THEN batches
                      ELSE [batches EXCEPT ![b].status = IF Agrees(batches[b]) THEN "VERIFIED" ELSE "FAILED"]
    /\ scriptRun' = NoSession
    /\ UNCHANGED <<neon, written, archived, backup, neonResets, archiveCrashes>>

(* The script dies, or loses one of its two databases *)
ScriptDies ==
    /\ scriptRun # NoSession /\ archiveCrashes < MaxArchiveCrashes
    /\ scriptRun' = NoSession /\ archiveCrashes' = archiveCrashes + 1
    /\ UNCHANGED <<neon, written, archived, batches, backup, neonResets>>

(* phase-a-backup.sh: the gate, the dump of the archive, and the count of the dump
   against the archive as it is by then *)
Dump(b) ==
    /\ backup.phase # "dumped"
    /\ batches[b].status = "VERIFIED"
    /\ backup' = [phase |-> "dumped", batch |-> b, rows |-> archived]
    /\ UNCHANGED <<neon, written, archived, batches, scriptRun, neonResets, archiveCrashes>>

RestoreCheck ==
    /\ backup.phase = "dumped"
    /\ backup' = IF Cardinality(backup.rows) = Cardinality(archived)
                 THEN [backup EXCEPT !.phase = "accepted"] ELSE NoDump
    /\ UNCHANGED <<neon, written, archived, batches, scriptRun, neonResets, archiveCrashes>>

ArchiveNext ==
    \/ \E r \in Signals : SignalWritten(r)
    \/ AccountReset \/ Freeze \/ Manifest \/ Page \/ DigestPage \/ Verify \/ ScriptDies \/ RestoreCheck
    \/ \E b \in Batches : Finish(b) \/ Dump(b)

ArchiveSpec == ArchiveInit /\ [][ArchiveNext]_archiveVars

----------------------------------------------------------------------------
ArchiveTypeOK ==
    /\ neon \subseteq written /\ written \subseteq Signals /\ archived \subseteq written
    /\ \A b \in Batches : batches[b].status \in {"none", "ARCHIVING", "VERIFIED", "FAILED"}
    /\ scriptRun.phase \in {"idle", "frozen", "paging", "digest", "verify"}
    /\ backup.phase \in {"none", "dumped", "accepted"}
    /\ scriptRun.phase \in {"paging", "digest", "verify"} =>
          scriptRun.staged <= Cardinality(batches[scriptRun.batch].frozen) + PageSize

(* A batch is VERIFIED only when every signal it froze that Neon still holds is in
   the archive, whatever was reset, committed late or left half-streamed: this is what
   the deletion of the source will rest on. *)
VerifiedCovers ==
    \A b \in Batches : batches[b].status = "VERIFIED" => batches[b].frozen \cap neon \subseteq archived

(* An accepted backup holds all of what its batch froze and Neon still has. *)
BackupCovers ==
    backup.phase = "accepted" => batches[backup.batch].frozen \cap neon \subseteq backup.rows

(* A stream over a source that stayed as it was frozen, into an archive that holds
   nothing else of that time, verifies: no row is skipped at a page's end, none is
   staged twice. *)
CleanRunVerifies ==
    [][\A b \in Batches :
          /\ scriptRun.phase = "verify" /\ scriptRun'.phase = "idle" /\ archiveCrashes' = archiveCrashes
          /\ scriptRun.streamed /\ scriptRun.batch = b
          /\ {r \in neon : Upto(r, batches[b].mark)} = batches[b].frozen
          /\ Received(batches[b].mark) \subseteq batches[b].frozen
          /\ neonResets = 0
          => batches'[b].status = "VERIFIED"]_archiveVars

(* Every run of the script ends: its cursors only move forward. *)
ScriptEnds == scriptRun # NoSession ~> scriptRun = NoSession

(* What the archive calls verified, or a backup accepted, is all there; an undisturbed run
   verifies, and every run ends. *)
ArchiveKeeps ==
    [](ArchiveTypeOK /\ VerifiedCovers /\ BackupCovers) /\ CleanRunVerifies /\ ScriptEnds

=============================================================================
