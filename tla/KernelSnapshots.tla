-------------------------- MODULE KernelSnapshots --------------------------
(***************************************************************************)
(* The durability core of KernelDO (apps/kernel/src/lib.rs with the dump   *)
(* and restore half of apps/kernel/src/kernel-glue.ts): how a cell's heap  *)
(* becomes a committed snapshot (a full base plus a chain of byte deltas,  *)
(* in SQLite or with the base in R2), and what a cold wake brings back.    *)
(*                                                                         *)
(* Every handler here runs under the VM mutex, so at most one job is in    *)
(* progress.  A job advances in one action per stretch of code between two *)
(* awaits; SQLite statements issued without an await between them are one  *)
(* step, because the Durable Object's write coalescing makes them atomic.  *)
(* What can strike between two steps is Evict (a mutex-free frame) and     *)
(* Crash (the isolate goes away: eviction, fault or deploy).               *)
(*                                                                         *)
(* Data abstraction.  A heap image is the sequence of the evaluations that *)
(* built it (each has a fresh number), a CRC is the image it was taken of, *)
(* and a byte delta is the pair (image diffed against, image produced).    *)
(* host.fs files, reply caching and the queue are modules of their own.    *)
(***************************************************************************)
EXTENDS Integers, Sequences

CONSTANTS
    Builds,         \* the engine builds (get_engine_hash) a deploy may install
    Durabilities,   \* the durability modes requests may ask for
    Shapes,         \* how a heap may present itself to dumpW4, see ShapeType
    Artifacts,      \* TRUE: a cell's result may carry artifact handles
    R2Faults,       \* TRUE: a request to R2 may fail, time out or be refused
    ProbeFaults,    \* TRUE: the post-restore sanity probe may fail
    BaseEvery,      \* BASE_EVERY, 20 in the code
    MaxEvals,       \* bound: evaluations in a behaviour
    MaxEpoch        \* bound: resets in a behaviour

(* admitted: _serializeForDump's size gates let it through.  sparse: prev  *)
(* is no longer than raw and the delta is under the density and blob caps. *)
(* retain: a full base is small enough to keep as the next delta's base.   *)
(* spill: the compressed base exceeds SQLITE_HOT_MAX.                      *)
ShapeType ==
    [admitted : BOOLEAN, sparse : BOOLEAN, retain : BOOLEAN, spill : BOOLEAN]

ASSUME ConstantsAssumption ==
    /\ Builds # {}
    /\ Durabilities \subseteq {"eagerDurable", "warmBuffered"}
    /\ Shapes \subseteq ShapeType
    /\ Artifacts \in BOOLEAN
    /\ R2Faults \in BOOLEAN
    /\ ProbeFaults \in BOOLEAN
    /\ BaseEvery \in Nat \ {0}
    /\ MaxEvals \in Nat
    /\ MaxEpoch \in Nat

VARIABLES
    \* SQLite: meta rows, the snap_manifest row and the three snapshot tables
    epoch, committedCell, liveCell, lastDirtySrc, lastArtifactCell,
    manifest, snapChunks, deltaChunks, oplog,
    \* durable, outside SQLite
    bucket,         \* the base objects in the SNAPSHOTS R2 bucket
    alarm,          \* the Durable Object alarm: "set" or "none"
    \* memory of the isolate
    glue,           \* self.glue: the live kernel with its two retained images
    engine,         \* the build this isolate runs
    job,            \* the handler that holds the mutex
    \* observations
    evals,          \* evaluations started so far
    acked,          \* the last image a reply reported as durable
    handles         \* artifact handles given to the client in this epoch

meta == <<epoch, committedCell, liveCell, lastDirtySrc, lastArtifactCell>>
tables == <<manifest, snapChunks, deltaChunks, oplog>>
observed == <<evals, acked, handles>>
vars == <<meta, tables, bucket, alarm, glue, engine, job, observed>>

-----------------------------------------------------------------------------
Eval == Nat \ {0}           \* evaluations are numbered from 1
Image == Seq(Eval)
NoImage == <<0>>
Corrupt == <<0, 0>>
NoKey == <<-1, -1>>

NoGlue == [live |-> FALSE, heap |-> <<>>, last |-> NoImage, pending |-> NoImage]

NoManifest ==
    [store |-> "none", cell |-> -1, key |-> NoKey, engine |-> "none",
     deltaSeq |-> 0, crc |-> NoImage]

IdleJob ==
    [pc |-> "idle", op |-> "none", cell |-> -1, src |-> 0,
     durability |-> "none", artifact |-> FALSE, trigger |-> "none",
     mode |-> "none", prev |-> NoImage, image |-> NoImage,
     toR2 |-> FALSE, oldKey |-> NoKey]

HasManifest == manifest.store # "none"

(* r2_key_for: one base object per (epoch, cell).                          *)
R2KeyFor(e, c) == <<e, c>>

Put(objects, k, img) ==
    {o \in objects : o.key # k} \cup {[key |-> k, image |-> img]}

Remove(objects, k) == {o \in objects : o.key # k}

(* next_cell: live_cell() + 1.                                             *)
NextCell == (IF liveCell > committedCell THEN liveCell ELSE committedCell) + 1

IsDirty == liveCell > committedCell

(* mark_clean(cell).                                                       *)
MarkClean(cell) ==
    /\ liveCell' = cell
    /\ lastDirtySrc' = 0

(* mark_dirty(cell, src); set_alarm is part of it.                         *)
MarkDirty(cell, src) ==
    /\ liveCell' = cell
    /\ lastDirtySrc' = src
    /\ alarm' = "set"

(* The stored base: SQLite chunks, or the object the manifest names.       *)
BaseImages ==
    IF manifest.store = "r2"
    THEN {o.image : o \in {p \in bucket : p.key = manifest.key}}
    ELSE {snapChunks}

(* restoreW4 patches the base with each delta in turn.  Patching anything  *)
(* but the image a delta was diffed against yields garbage.                *)
Reconstruct(base) ==
    IF /\ Len(deltaChunks) = manifest.deltaSeq
       /\ \A i \in 1..Len(deltaChunks) :
             deltaChunks[i].prev = IF i = 1 THEN base ELSE deltaChunks[i-1].next
    THEN IF deltaChunks = <<>> THEN base ELSE deltaChunks[Len(deltaChunks)].next
    ELSE Corrupt

(* replayJournal: a fresh VM that re-evaluates the oplog rows in order.    *)
Replayed == [i \in 1..Len(oplog) |-> oplog[i].src]

-----------------------------------------------------------------------------
Init ==
    /\ epoch = 0 /\ committedCell = -1 /\ liveCell = -1
    /\ lastDirtySrc = 0 /\ lastArtifactCell = -1
    /\ manifest = NoManifest
    /\ snapChunks = NoImage /\ deltaChunks = <<>> /\ oplog = <<>>
    /\ bucket = {}
    /\ alarm = "none"
    /\ glue = NoGlue
    /\ engine \in Builds
    /\ job = IdleJob
    /\ evals = 0 /\ acked = <<>> /\ handles = {}

(* {t:eval}: the mutex is held and the cell number planned.                *)
BeginEval ==
    /\ job.pc = "idle"
    /\ evals < MaxEvals
    /\ evals' = evals + 1
    /\ \E d \in Durabilities :
          job' = [IdleJob EXCEPT !.pc = "restore", !.op = "eval",
                                 !.cell = NextCell, !.src = evals + 1,
                                 !.durability = d]
    /\ UNCHANGED <<meta, tables, bucket, alarm, glue, engine, acked, handles>>

(* {t:create} and {t:artifact} only need a live kernel.                    *)
BeginCreate ==
    /\ job.pc = "idle"
    /\ job' = [IdleJob EXCEPT !.pc = "restore", !.op = "create"]
    /\ UNCHANGED <<meta, tables, bucket, alarm, glue, engine, observed>>

(* Where the job goes once the kernel is live.                             *)
AfterRestore ==
    IF job.op = "eval" THEN [job EXCEPT !.pc = "eval"] ELSE IdleJob

EnsureWarm ==
    /\ job.pc = "restore"
    /\ glue.live
    /\ job' = AfterRestore
    /\ UNCHANGED <<meta, tables, bucket, alarm, glue, engine, observed>>

(* The end of a cold ensure_glue: whatever was dirty is gone.              *)
Restored(heap, last) ==
    /\ glue' = [live |-> TRUE, heap |-> heap, last |-> last, pending |-> NoImage]
    /\ IF IsDirty THEN MarkClean(committedCell)
                  ELSE UNCHANGED <<liveCell, lastDirtySrc>>
    /\ job' = AfterRestore
    /\ UNCHANGED <<epoch, committedCell, lastArtifactCell, tables, bucket,
                   alarm, engine, observed>>

ColdStart == job.pc = "restore" /\ ~glue.live

(* Mutant: a cold create starts afresh over an existing snapshot.          *)
CreateFreshAlways ==
    /\ ColdStart
    /\ Restored(<<>>, NoImage)

(* No snapshot: createFresh.                                               *)
CreateFresh ==
    /\ ColdStart
    /\ ~HasManifest
    /\ Restored(<<>>, NoImage)

(* Mutant: the base comes back without the deltas stacked on it.           *)
RestoreBaseOnly ==
    /\ ColdStart
    /\ HasManifest
    /\ manifest.engine = engine
    /\ \E base \in BaseImages : Restored(base, base)

(* restoreW4 succeeds: the chain reproduces the recorded CRC and the probe *)
(* passes; the reconstructed image is retained as the delta base.          *)
RestoreBytes ==
    /\ ColdStart
    /\ HasManifest
    /\ manifest.engine = engine
    /\ \E base \in BaseImages :
          /\ Reconstruct(base) = manifest.crc
          /\ Restored(manifest.crc, manifest.crc)

(* The base object cannot be read: absent, exhausted, or breaker open.     *)
ReplayR2Unavailable ==
    /\ ColdStart
    /\ manifest.store = "r2"
    /\ R2Faults \/ BaseImages = {}
    /\ Restored(Replayed, NoImage)

(* The snapshot was written by another engine build.                       *)
ReplayEngineMigration ==
    /\ ColdStart
    /\ HasManifest
    /\ BaseImages # {}
    /\ manifest.engine # engine
    /\ Restored(Replayed, NoImage)

(* restoreW4 throws: on the CRC before the image is retained, or on the    *)
(* probe after it was, and createFresh does not drop the retained image.   *)
(* (A wrong number of delta rows is an error reply, CorruptDeltaError; no  *)
(* reachable state has one, see ChainReconstructs.)                        *)
ReplaySanityFallback ==
    /\ ColdStart
    /\ HasManifest
    /\ manifest.engine = engine
    /\ Len(deltaChunks) = manifest.deltaSeq
    /\ \E base \in BaseImages :
          IF Reconstruct(base) = manifest.crc
          THEN ProbeFaults /\ Restored(Replayed, manifest.crc)
          ELSE Restored(Replayed, NoImage)

-----------------------------------------------------------------------------
(* Mutant: the snapshot misses the cell that has just run.                 *)
DumpBeforeCell(j, img, forced, failed) ==
    /\ job' = [j EXCEPT !.pc = "txn", !.mode = "full", !.prev = glue.last,
                        !.image = glue.heap]
    /\ glue' = [glue EXCEPT !.heap = img, !.pending = glue.heap]

(* checkpoint_impl up to the end of dumpW4.  j is the job, with its cell   *)
(* and source, that asks for the checkpoint of image img; forced is        *)
(* force_full_override.  failed is the job's continuation when a size gate *)
(* throws.  Sets glue' and job'.                                           *)
Dump(j, img, forced, failed) ==
    LET forceFull == forced \/ ~HasManifest \/ manifest.deltaSeq + 1 >= BaseEvery
    IN  \E shape \in Shapes :
          LET mode == IF ~forceFull /\ glue.last # NoImage /\ shape.sparse
                      THEN "delta" ELSE "full"
              staged == mode = "delta" \/ shape.retain
          IN  IF shape.admitted
              THEN /\ job' = [j EXCEPT
                                !.pc = IF mode = "full" /\ shape.spill
                                       THEN "put" ELSE "txn",
                                !.mode = mode, !.prev = glue.last, !.image = img]
                   /\ glue' = [glue EXCEPT
                                !.heap = img,
                                !.last = IF staged THEN @ ELSE NoImage,
                                !.pending = IF staged THEN img ELSE NoImage]
              ELSE /\ job' = failed
                   /\ glue' = [glue EXCEPT !.heap = img]

(* Handles are stamped into the reply whether or not the checkpoint of     *)
(* their cell succeeds.                                                    *)
Stamped(j) ==
    IF j.artifact THEN handles \cup {[cell |-> j.cell, src |-> j.src]} ELSE handles

(* Mutant: artifacts do not force eager durability.                        *)
EvalReturnsBufferedArtifact ==
    /\ job.pc = "eval"
    /\ job.durability = "warmBuffered"
    /\ glue' = IF glue.live THEN [glue EXCEPT !.heap = Append(@, job.src)] ELSE glue
    /\ MarkDirty(job.cell, job.src)
    /\ lastArtifactCell' = -1
    /\ handles' = handles \cup {[cell |-> job.cell, src |-> job.src]}
    /\ job' = IdleJob
    /\ UNCHANGED <<epoch, committedCell, tables, bucket, engine, evals, acked>>

(* The cell returns in warmBuffered mode: no snapshot work, only a dirty   *)
(* mark and an alarm.  An evicted kernel makes the cell fail, but the      *)
(* bookkeeping is the same.                                                *)
EvalReturnsBuffered ==
    /\ job.pc = "eval"
    /\ job.durability = "warmBuffered"
    /\ glue' = IF glue.live THEN [glue EXCEPT !.heap = Append(@, job.src)] ELSE glue
    /\ MarkDirty(job.cell, job.src)
    /\ lastArtifactCell' = -1
    /\ job' = IdleJob
    /\ UNCHANGED <<epoch, committedCell, tables, bucket, engine, observed>>

(* The cell returns in eagerDurable mode, or with artifacts, which force   *)
(* it; its checkpoint starts at once.                                      *)
EvalReturnsEager ==
    /\ job.pc = "eval"
    /\ glue.live
    /\ \E artifact \in {FALSE, Artifacts} :
          LET j == [job EXCEPT !.artifact = artifact]
          IN  /\ job.durability = "eagerDurable" \/ artifact
              /\ Dump(j, Append(glue.heap, job.src), FALSE, IdleJob)
              /\ handles' = IF job'.pc = "idle" THEN Stamped(j) ELSE handles
    /\ UNCHANGED <<meta, tables, bucket, alarm, engine, evals, acked>>

(* An evict frame dropped the kernel under the parked cell: checkpoint_impl *)
(* unwraps None and the handler traps with the mutex held.                 *)
EvalTraps ==
    /\ job.pc = "eval"
    /\ ~glue.live
    /\ job.durability = "eagerDurable"
    /\ job' = [job EXCEPT !.pc = "trapped"]
    /\ UNCHANGED <<meta, tables, bucket, alarm, glue, engine, observed>>

(* The base exceeds SQLITE_HOT_MAX: PUT it to R2 before the transaction.   *)
PutBase ==
    /\ job.pc = "put"
    /\ bucket' = Put(bucket, R2KeyFor(epoch, job.cell), job.image)
    /\ job' = [job EXCEPT !.pc = "verify"]
    /\ UNCHANGED <<meta, tables, alarm, glue, engine, observed>>

(* The PUT is reported as failed (it may have landed all the same): the    *)
(* checkpoint returns Err; an eval replies with checkpoint.ok false, a     *)
(* flush leaves the session dirty.                                         *)
PutBaseFails ==
    /\ job.pc = "put"
    /\ R2Faults
    /\ bucket' \in {bucket, Put(bucket, R2KeyFor(epoch, job.cell), job.image)}
    /\ handles' = Stamped(job)
    /\ job' = IdleJob
    /\ UNCHANGED <<meta, tables, alarm, glue, engine, evals, acked>>

(* Verify before truncate: the new base is trusted only once it was read   *)
(* back; otherwise it goes into SQLite chunks.                             *)
VerifyBase ==
    /\ job.pc = "verify"
    /\ \E readable \in BOOLEAN :
          /\ readable \/ R2Faults
          /\ job' = [job EXCEPT !.pc = "txn", !.toR2 = readable]
    /\ UNCHANGED <<meta, tables, bucket, alarm, glue, engine, observed>>

OplogRow == [cell |-> job.cell, src |-> job.src]

(* Mutant: the manifest's delta_seq is not advanced with its chain.        *)
CommitDeltaStaleSeq ==
    /\ job.pc = "txn"
    /\ job.mode = "delta"
    /\ deltaChunks' = Append(deltaChunks, [prev |-> job.prev, next |-> job.image])
    /\ oplog' = Append(oplog, OplogRow)
    /\ manifest' = [manifest EXCEPT !.cell = job.cell, !.crc = job.image]
    /\ committedCell' = job.cell
    /\ job' = [job EXCEPT !.pc = "promote"]
    /\ UNCHANGED <<epoch, liveCell, lastDirtySrc, lastArtifactCell,
                   snapChunks, bucket, alarm, glue, engine, observed>>

(* The delta transaction: append a row, keep the base.                     *)
CommitDelta ==
    /\ job.pc = "txn"
    /\ job.mode = "delta"
    /\ deltaChunks' = Append(deltaChunks, [prev |-> job.prev, next |-> job.image])
    /\ oplog' = Append(oplog, OplogRow)
    /\ manifest' = [manifest EXCEPT !.cell = job.cell, !.crc = job.image,
                                    !.deltaSeq = @ + 1]
    /\ committedCell' = job.cell
    /\ job' = [job EXCEPT !.pc = "promote"]
    /\ UNCHANGED <<epoch, liveCell, lastDirtySrc, lastArtifactCell, snapChunks,
                   bucket, alarm, glue, engine, observed>>

(* The full-base transaction: everything old goes, the new base and an     *)
(* oplog of this one cell come in.                                         *)
CommitBase ==
    /\ job.pc = "txn"
    /\ job.mode = "full"
    /\ snapChunks' = IF job.toR2 THEN NoImage ELSE job.image
    /\ deltaChunks' = <<>>
    /\ oplog' = <<OplogRow>>
    /\ manifest' =
          [store |-> IF job.toR2 THEN "r2" ELSE "sqlite", cell |-> job.cell,
           key |-> IF job.toR2 THEN R2KeyFor(epoch, job.cell) ELSE NoKey,
           engine |-> engine, deltaSeq |-> 0, crc |-> job.image]
    /\ committedCell' = job.cell
    /\ job' = [job EXCEPT !.pc = "promote", !.oldKey = manifest.key]
    /\ UNCHANGED <<epoch, liveCell, lastDirtySrc, lastArtifactCell,
                   bucket, alarm, glue, engine, observed>>

(* The caller's tail once checkpoint returned ok: eval_critical and        *)
(* flush_critical mark the session clean; only a flush deletes the alarm.  *)
Finish ==
    /\ MarkClean(job.cell)
    /\ IF job.op = "eval"
       THEN /\ lastArtifactCell' = IF job.artifact THEN job.cell ELSE -1
            /\ UNCHANGED alarm
       ELSE /\ alarm' = "none"
            /\ UNCHANGED lastArtifactCell
    /\ acked' = job.image
    /\ handles' = Stamped(job)
    /\ job' = IdleJob
    /\ UNCHANGED <<epoch, committedCell, tables, engine, evals>>

(* commitDump: the staged image becomes the base of the next delta.        *)
CommitDump ==
    glue' = IF glue.live /\ glue.pending # NoImage
            THEN [glue EXCEPT !.last = glue.pending, !.pending = NoImage]
            ELSE glue

Superseded == job.oldKey \notin {NoKey, manifest.key}

(* After the transaction, and after export_manifest's await.               *)
Promote ==
    /\ job.pc = "promote"
    /\ CommitDump
    /\ UNCHANGED bucket
    /\ IF Superseded
       THEN /\ job' = [job EXCEPT !.pc = "deleteOld"]
            /\ UNCHANGED <<meta, tables, alarm, engine, observed>>
       ELSE Finish

(* The old base object is deleted last; a failure is ignored.              *)
DeleteOldBase ==
    /\ job.pc = "deleteOld"
    /\ \/ bucket' = Remove(bucket, job.oldKey)
       \/ R2Faults /\ UNCHANGED bucket
    /\ UNCHANGED glue
    /\ Finish

-----------------------------------------------------------------------------
(* flush_critical, entered by a flush frame, a closing socket (only when   *)
(* dirty) or the alarm, which the platform clears as it fires.             *)
FlushTrigger(t) ==
    /\ job.pc = "idle"
    /\ t = "websocket-close" => IsDirty
    /\ t = "alarm" => alarm = "set"

(* Nothing to flush.                                                       *)
FlushClean ==
    /\ \E t \in {"flush", "alarm"} : FlushTrigger(t)
    /\ ~IsDirty
    /\ alarm' = "none"
    /\ UNCHANGED <<meta, tables, bucket, glue, engine, job, observed>>

(* Mutant: the lost heap is reported but the session stays dirty.          *)
FlushLostStaysDirty ==
    /\ \E t \in {"flush", "alarm", "websocket-close"} : FlushTrigger(t)
    /\ IsDirty
    /\ ~glue.live
    /\ alarm' = "none"
    /\ UNCHANGED <<meta, tables, bucket, glue, engine, job, observed>>

(* The dirty heap is no longer in memory: DirtyHeapLost.                   *)
FlushLost ==
    /\ \E t \in {"flush", "alarm", "websocket-close"} : FlushTrigger(t)
    /\ IsDirty
    /\ ~glue.live
    /\ MarkClean(committedCell)
    /\ alarm' = "none"
    /\ UNCHANGED <<epoch, committedCell, lastArtifactCell, tables, bucket,
                   glue, engine, job, observed>>

(* Checkpoint the live heap as a forced full base under the live cell.     *)
(* When it fails, the error is returned (alarm() turns it into a normal    *)
(* response) and the session stays dirty.                                  *)
FlushLive ==
    /\ \E t \in {"flush", "alarm", "websocket-close"} :
          /\ FlushTrigger(t)
          /\ IsDirty
          /\ glue.live
          /\ alarm' = IF t = "alarm" THEN "none" ELSE alarm
          /\ Dump([IdleJob EXCEPT !.op = "flush", !.cell = liveCell,
                                  !.src = lastDirtySrc, !.trigger = t],
                  glue.heap, TRUE, IdleJob)
    /\ UNCHANGED <<meta, tables, bucket, engine, observed>>

-----------------------------------------------------------------------------
(* reset_critical after its await: a new epoch.                            *)
NewEpoch ==
    /\ epoch' = epoch + 1
    /\ committedCell' = -1
    /\ MarkClean(-1)
    /\ lastArtifactCell' = -1
    /\ alarm' = "none"
    /\ job' = IdleJob

(* reset drops the kernel and every snapshot table; when the base is in R2 *)
(* its deletion is awaited before the epoch moves.                         *)
BeginReset ==
    /\ job.pc = "idle"
    /\ epoch < MaxEpoch
    /\ glue' = NoGlue
    /\ manifest' = NoManifest
    /\ snapChunks' = NoImage /\ deltaChunks' = <<>> /\ oplog' = <<>>
    /\ acked' = <<>> /\ handles' = {}
    /\ IF manifest.store = "r2"
       THEN /\ job' = [IdleJob EXCEPT !.pc = "reset", !.op = "reset",
                                      !.oldKey = manifest.key]
            /\ UNCHANGED <<meta, alarm>>
       ELSE NewEpoch
    /\ UNCHANGED <<bucket, engine, evals>>

FinishReset ==
    /\ job.pc = "reset"
    /\ \/ bucket' = Remove(bucket, job.oldKey)
       \/ R2Faults /\ UNCHANGED bucket
    /\ NewEpoch
    /\ UNCHANGED <<tables, glue, engine, observed>>

-----------------------------------------------------------------------------
(* {t:evict}: drops the kernel, mutex or no mutex.                         *)
Evict ==
    /\ glue.live
    /\ glue' = NoGlue
    /\ UNCHANGED <<meta, tables, bucket, alarm, engine, job, observed>>

(* A request to R2 in flight when the isolate dies may have landed.        *)
InFlight ==
    CASE job.pc = "put" -> {bucket, Put(bucket, R2KeyFor(epoch, job.cell), job.image)}
      [] job.pc \in {"deleteOld", "reset"} -> {bucket, Remove(bucket, job.oldKey)}
      [] OTHER -> {bucket}

(* The isolate goes away and another, maybe of another build, takes over.  *)
(* The platform delivers an interrupted alarm again.                       *)
Crash ==
    /\ bucket' \in InFlight
    /\ glue' = NoGlue
    /\ engine' \in Builds
    /\ alarm' = IF job.trigger = "alarm" THEN "set" ELSE alarm
    /\ job' = IdleJob
    /\ UNCHANGED <<meta, tables, observed>>

-----------------------------------------------------------------------------
Restore ==
    \/ EnsureWarm \/ CreateFresh \/ RestoreBytes
    \/ ReplayR2Unavailable \/ ReplayEngineMigration \/ ReplaySanityFallback

Checkpoint ==
    \/ PutBase \/ PutBaseFails \/ VerifyBase \/ CommitDelta \/ CommitBase
    \/ Promote \/ DeleteOldBase

EvalReturns == EvalReturnsBuffered \/ EvalReturnsEager \/ EvalTraps

Flush == FlushClean \/ FlushLost \/ FlushLive

Next ==
    \/ BeginEval \/ BeginCreate \/ Restore \/ EvalReturns \/ Checkpoint
    \/ Flush \/ BeginReset \/ FinishReset \/ Evict \/ Crash

Spec == Init /\ [][Next]_vars

(* A started job is carried through (host calls time out after 60 s, R2    *)
(* requests are bounded), and an alarm that is due gets its turn on the    *)
(* FIFO mutex however often other requests come and go.                    *)
Progress == Restore \/ EvalReturns \/ Checkpoint \/ FinishReset

AlarmFires == alarm = "set" /\ Flush

FairSpec == Spec /\ WF_vars(Progress) /\ SF_vars(AlarmFires)

-----------------------------------------------------------------------------
Elements(s) == {s[i] : i \in 1..Len(s)}

(* What the stored snapshot stands for.                                    *)
CommittedImage == IF HasManifest THEN manifest.crc ELSE <<>>

R2Key == Int \X Int

ManifestType ==
    [store : {"none", "sqlite", "r2"}, cell : Int, key : R2Key,
     engine : Builds \cup {"none"}, deltaSeq : Nat, crc : Image \cup {NoImage}]

GlueType ==
    [live : BOOLEAN, heap : Image, last : Image \cup {NoImage},
     pending : Image \cup {NoImage}]

JobType ==
    [pc : {"idle", "restore", "eval", "trapped", "put", "verify", "txn",
           "promote", "deleteOld", "reset"},
     op : {"none", "eval", "create", "flush", "reset"},
     cell : Int, src : Nat,
     durability : {"none", "eagerDurable", "warmBuffered"},
     artifact : BOOLEAN, trigger : {"none", "flush", "alarm", "websocket-close"},
     mode : {"none", "delta", "full"},
     prev : Image \cup {NoImage}, image : Image \cup {NoImage},
     toR2 : BOOLEAN, oldKey : R2Key]

(* Type invariant: the meta rows, tables, retained images and the job in   *)
(* progress of KernelDO keep their shapes.                                 *)
TypeOK ==
    /\ epoch \in Nat /\ committedCell \in Int /\ liveCell \in Int
    /\ lastDirtySrc \in Nat /\ lastArtifactCell \in Int
    /\ manifest \in ManifestType
    /\ snapChunks \in Image \cup {NoImage}
    /\ deltaChunks \in Seq([prev : Image, next : Image])
    /\ oplog \in Seq([cell : Int, src : Eval])
    /\ bucket \subseteq [key : R2Key, image : Image]
    /\ alarm \in {"set", "none"}
    /\ glue \in GlueType
    /\ engine \in Builds
    /\ job \in JobType
    /\ evals \in 0..MaxEvals /\ acked \in Image
    /\ handles \subseteq [cell : Int, src : Nat]

(* The stored base and delta chain always rebuild exactly the image whose  *)
(* CRC the manifest records, whichever commits, failed checkpoints, evicts *)
(* and crashes came before: restoreW4 never meets CorruptDeltaError or a   *)
(* CRC mismatch of the kernel's own making, and the chain stays below      *)
(* BASE_EVERY.                                                             *)
ChainReconstructs ==
    HasManifest =>
        /\ BaseImages # {}
        /\ \A base \in BaseImages : Reconstruct(base) = manifest.crc
        /\ manifest.deltaSeq < BaseEvery

(* W4 commit ordering: except between the transaction and commitDump, the  *)
(* image the next delta will be diffed against is the tail of the stored   *)
(* chain, even after a checkpoint that failed half way.                    *)
DeltaBaseIsChainTail ==
    glue.live /\ glue.last # NoImage /\ job.pc # "promote" =>
        HasManifest /\ glue.last = manifest.crc

(* Swap then delete: no crash, failed PUT or reset leaves a manifest that  *)
(* names a base object R2 no longer holds, or holds with other contents.   *)
BaseReadable ==
    manifest.store = "r2" =>
        \E o \in bucket :
            /\ o.key = manifest.key
            /\ Reconstruct(o.image) = manifest.crc

(* Everything a reply reported as durable (an eager cell, or a flush) is   *)
(* part of what a cold wake restores, until a reset.                       *)
AckedSurvives == Elements(acked) \subseteq Elements(CommittedImage)

(* A cold wake brings back exactly the committed heap: lib.rs calls the    *)
(* oplog replay it may fall back to "always correct".                      *)
RestoreRecoversCommitted ==
    [][ColdStart /\ glue'.live => glue'.heap = CommittedImage]_vars

(* committedCell only moves forward, together with the manifest and its    *)
(* image, or goes back to -1 with a new epoch; no other step touches what  *)
(* is committed, except a reset that wipes it.                             *)
CommitMovesForward ==
    [][ /\ committedCell' # committedCell =>
              \/ committedCell' > committedCell /\ manifest'.cell = committedCell'
              \/ committedCell' = -1 /\ epoch' = epoch + 1
        /\ manifest' # manifest =>
              \/ manifest'.cell = committedCell' /\ committedCell' > committedCell
              \/ manifest' = NoManifest /\ job'.pc \in {"reset", "idle"} ]_vars

(* "a later flush/alarm commits the live heap" (eval_critical): a dirty    *)
(* session settles, committed or reported lost, unless a handler trapped.  *)
DirtySettles == IsDirty ~> (~IsDirty \/ job.pc = "trapped")

(* The last evaluation of heap s that made an artifact.                    *)
LastArtifact(s) ==
    LET made == {i \in 1..Len(s) : \E h \in handles : h.src = s[i]}
    IN  s[CHOOSE i \in made : \A k \in made : k <= i]

(* "Artifact handles are durable addresses keyed by committed cell"        *)
(* (eval_critical): when artifact_critical accepts a handle, the text in   *)
(* the heap is the one that handle was given out for.                      *)
ArtifactServesItsCell ==
    job.pc = "idle" /\ glue.live =>
        \A h \in handles :
            h.cell = committedCell /\ h.cell = lastArtifactCell =>
                /\ h.src \in Elements(glue.heap)
                /\ LastArtifact(glue.heap) = h.src

-----------------------------------------------------------------------------
(* The inductive invariant behind the safety properties above.             *)

Checkpointing == job.pc \in {"put", "verify", "txn"}
Committed == job.pc \in {"promote", "deleteOld"}

(* The job in progress knows what it must: its cell is beyond the committed *)
(* one until it commits, its image is the live heap, a delta was diffed    *)
(* against the committed image, and an R2 base is there before the commit. *)
JobInv ==
    /\ job.op = "eval" \/ Checkpointing \/ Committed => job.src \in 1..evals
    /\ job.pc \in {"restore", "eval"} => job.op \in {"eval", "create"}
    /\ job.pc = "eval" => job.op = "eval" /\ ~job.toR2
    /\ job.pc = "restore" => ~job.toR2
    /\ job.op = "eval" /\ job.pc \in {"restore", "eval"} => job.cell > committedCell
    /\ Checkpointing =>
          /\ job.op \in {"eval", "flush"}
          /\ job.cell > committedCell
          /\ job.image \in Image
          /\ job.mode \in {"delta", "full"}
          /\ glue.live =>
                /\ glue.heap = job.image
                /\ glue.pending = job.image \/ (glue.pending = NoImage /\ glue.last = NoImage)
    /\ job.pc \in {"put", "verify"} => job.mode = "full" /\ ~job.toR2
    /\ job.pc = "verify" \/ (job.pc = "txn" /\ job.toR2) =>
          [key |-> R2KeyFor(epoch, job.cell), image |-> job.image] \in bucket
    /\ job.pc = "txn" /\ job.mode = "delta" =>
          /\ HasManifest
          /\ job.prev = manifest.crc
          /\ manifest.deltaSeq + 1 < BaseEvery
    /\ Committed =>
          /\ job.op \in {"eval", "flush"}
          /\ HasManifest
          /\ job.cell = committedCell
          /\ job.image = manifest.crc
          /\ glue.live => glue.heap = job.image
    /\ job.pc = "promote" /\ glue.live =>
          glue.pending = job.image \/ (glue.pending = NoImage /\ glue.last = NoImage)
    /\ job.pc = "deleteOld" => job.oldKey # manifest.key
    /\ job.pc = "reset" => ~HasManifest /\ ~glue.live

(* What the SQLite rows say of each other and of the bucket.               *)
StoreInv ==
    /\ \A o \in bucket, p \in bucket : o.key = p.key => o = p
    /\ HasManifest => manifest.cell = committedCell /\ manifest.crc \in Image
    /\ manifest.store = "r2" => manifest.key = R2KeyFor(epoch, manifest.key[2])
                                /\ manifest.key[2] <= committedCell
    /\ manifest.store = "sqlite" => manifest.key = NoKey /\ snapChunks \in Image
    /\ committedCell >= -1
    /\ IsDirty => lastDirtySrc \in 1..evals

IInv ==
    /\ TypeOK
    /\ StoreInv
    /\ JobInv
    /\ ChainReconstructs
    /\ DeltaBaseIsChainTail

(* No cold wake takes one of the replay paths: R2 answers, the probe      *)
(* passes, and every isolate runs the build that wrote the snapshot.       *)
NoFallback ==
    /\ ~R2Faults /\ ~ProbeFaults
    /\ \A a, b \in Builds : a = b

(* Under NoFallback the live heap, and the image being checkpointed,       *)
(* contain everything that is committed.                                   *)
LineageInv ==
    /\ HasManifest => manifest.engine \in Builds
    /\ glue.live => Elements(CommittedImage) \subseteq Elements(glue.heap)
    /\ Checkpointing => Elements(CommittedImage) \subseteq Elements(job.image)
    /\ AckedSurvives

(* The session the snapshots stand for; see DurableSession.                *)
Session == INSTANCE DurableSession WITH
    Evals <- 1..MaxEvals,
    committed <- CommittedImage,
    live <- IF glue.live THEN glue.heap ELSE CommittedImage,
    snapshot <- IF job.pc \in {"put", "verify", "txn"} THEN job.image ELSE NoImage

(* The chunks, deltas, buckets and restarts implement DurableSession.      *)
ImplementsDurableSession == Session!Spec
=============================================================================
