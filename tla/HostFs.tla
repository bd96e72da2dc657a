------------------------------- MODULE HostFs -------------------------------
(***************************************************************************)
(* The session file system of KernelDO (apps/kernel/src/lib.rs): bodies in *)
(* R2 under fs/<doId>/, the fs_files rows in SQLite, and the writers that  *)
(* share them.  A cell's writes are staged in memory and flushed by its    *)
(* checkpoint, under the VM mutex.  vfs-write frames commit at once and do *)
(* not take the mutex; a container or a registry worker writes bodies with *)
(* no row at all, and vfs-sync (or the end of a worker invocation), under  *)
(* the mutex, rebuilds the rows from a listing.                            *)
(*                                                                         *)
(* One action per stretch of code between two awaits.  A SQLite statement  *)
(* is durable as soon as its handler awaits.                               *)
(*                                                                         *)
(* Data abstraction.  Every write has a fresh number; a body is the        *)
(* sequence of the writes it is made of, a row's size is the body it was   *)
(* measured on, paths are numbered in their byte order, and a checkpoint   *)
(* is reduced to the moment its transaction commits (KernelSnapshots has   *)
(* the rest).                                                              *)
(***************************************************************************)
EXTENDS Integers, Sequences, FiniteSetsExt

CONSTANTS
    NumPaths,       \* paths in play
    Frames,         \* connections that send vfs-write frames
    FrameWindow,    \* "any", or "parked": a client writes only while the
                    \* session is idle or a cell waits for its host call
    Durabilities,   \* durability modes in use
    R2Faults,       \* TRUE: retried R2 requests may still fail
    GetFaults,      \* TRUE: vfs_write's single GET may fail
    DumpFaults,     \* TRUE: a checkpoint may fail before its flush
    Container,      \* TRUE: bodies may be written behind the kernel's back
    MaxWrites,      \* bound: writes, by anyone, in a behaviour
    MaxEvals,       \* bound: cells in a behaviour
    MaxVersion      \* bound: no reconciliation starts beyond this fsVersion

ASSUME HostFsAssumption ==
    /\ NumPaths \in Nat \ {0}
    /\ FrameWindow \in {"any", "parked"}
    /\ Durabilities \subseteq {"eagerDurable", "warmBuffered"}
    /\ {R2Faults, GetFaults, DumpFaults, Container} \subseteq BOOLEAN
    /\ MaxWrites \in Nat /\ MaxEvals \in Nat /\ MaxVersion \in Nat

VARIABLES
    rows,           \* fs_files
    fsVersion,      \* meta row fsVersion
    dirty,          \* liveCell > committedCell: "yes" or "no"
    bucket,         \* the bodies in R2
    exported,       \* the fsVersion recorded in .engram/manifest.json
    kernel,         \* self.glue: "live" or "none"
    staged,         \* staged_fs: the last staged operation on each path
    evalStart,      \* eval_start_fs_version
    job,            \* the handler that holds the mutex
    frames,         \* the vfs-write handlers in progress
    \* observations
    evals, writes,
    heapOps,        \* last operation on each path by uncommitted live cells
    heapWrites,     \* the writes made by uncommitted live cells
    doomed,         \* the writes of cells that never committed
    dropped,        \* paths whose staged operation was forgotten, not flushed
    acked,          \* settled frame writes that nothing later has replaced
    foreign         \* paths the container touched since the last listing

durable == <<rows, fsVersion, dirty, bucket, exported>>
memory == <<kernel, staged, evalStart, job, frames>>
observed == <<evals, writes, heapOps, heapWrites, doomed, dropped, acked, foreign>>
vars == <<durable, memory, observed>>

Paths == 1..NumPaths
Write == Nat \ {0}
Body == Seq(Write)
NoBody == <<0>>
Tombstone == <<0, 0>>
NoOp == <<0, 0, 0>>
NoOps == [p \in Paths |-> NoOp]

NoRow == [body |-> NoBody, origin |-> "none"]

IdleJob ==
    [pc |-> "idle", mode |-> "none", ops |-> NoOps, todo |-> {}, path |-> 0,
     raced |-> FALSE, version |-> 0, listing |-> [p \in Paths |-> NoBody],
     refused |-> {}]

IdleFrame ==
    [pc |-> "idle", path |-> 0, write |-> 0, body |-> NoBody, version |-> 0]

Ids(body) == {body[i] : i \in 1..Len(body)}

Fresh == writes + 1

Init ==
    /\ rows = [p \in Paths |-> NoRow]
    /\ fsVersion = 0 /\ dirty = "no"
    /\ bucket = [p \in Paths |-> NoBody]
    /\ exported = 0
    /\ kernel = "none" /\ staged = NoOps /\ evalStart = 0
    /\ job = IdleJob /\ frames = [f \in Frames |-> IdleFrame]
    /\ evals = 0 /\ writes = 0
    /\ heapOps = NoOps /\ heapWrites = {} /\ doomed = {} /\ dropped = {}
    /\ acked = [p \in Paths |-> {}] /\ foreign = {}

-----------------------------------------------------------------------------
(* Cells.                                                                  *)

(* The live heap, and every write only it knew of, is gone.                *)
LoseHeap ==
    /\ heapOps' = NoOps
    /\ heapWrites' = {}
    /\ doomed' = doomed \cup heapWrites
    /\ dropped' = {}

(* eval_start_fs_version.                                                  *)
StartVersion == fsVersion

(* Mutant: staged ops outlive the heap that made them.                     *)
BeginEvalKeepsStaged ==
    /\ job.pc = "idle"
    /\ evals < MaxEvals
    /\ evals' = evals + 1
    /\ evalStart' = StartVersion
    /\ kernel' = "live"
    /\ \E d \in Durabilities : job' = [IdleJob EXCEPT !.pc = "eval", !.mode = d]
    /\ UNCHANGED <<rows, fsVersion, dirty, bucket, exported, staged, frames, writes,
                   heapOps, heapWrites, doomed, dropped, acked, foreign>>

(* An eval takes the mutex; ensure_glue finds or restores the kernel and   *)
(* marks a lost dirty session clean; a clean session drops staged ops.     *)
BeginEval ==
    /\ job.pc = "idle"
    /\ evals < MaxEvals
    /\ evals' = evals + 1
    /\ evalStart' = StartVersion
    /\ kernel' = "live"
    /\ dirty' = IF kernel = "none" THEN "no" ELSE dirty
    /\ staged' = IF dirty' = "no" THEN NoOps ELSE staged
    /\ dropped' = IF dirty' = "no" THEN {p \in Paths : heapOps[p] # NoOp} ELSE dropped
    /\ \E d \in Durabilities : job' = [IdleJob EXCEPT !.pc = "eval", !.mode = d]
    /\ UNCHANGED <<rows, fsVersion, bucket, exported, frames, writes, heapOps,
                   heapWrites, doomed, acked, foreign>>

(* r2_fs_op write (chunk 0 replaces, later chunks extend the same staged   *)
(* body) and delete.                                                       *)
StageOp(p, op) ==
    /\ job.pc = "eval"
    /\ kernel = "live"
    /\ staged' = [staged EXCEPT ![p] = op]
    /\ heapOps' = [heapOps EXCEPT ![p] = op]
    /\ dropped' = dropped \ {p}
    /\ acked' = [acked EXCEPT ![p] = {}]
    /\ UNCHANGED <<durable, kernel, evalStart, job, frames, evals, doomed, foreign>>

StageWrite(p) ==
    /\ writes < MaxWrites
    /\ StageOp(p, <<Fresh>>)
    /\ writes' = Fresh
    /\ heapWrites' = heapWrites \cup {Fresh}

StageDelete(p) ==
    /\ staged[p] # Tombstone
    /\ StageOp(p, Tombstone)
    /\ UNCHANGED <<writes, heapWrites>>

(* mark_dirty: the cell's writes stay staged.                              *)
ReturnBuffered ==
    /\ job.pc = "eval"
    /\ job.mode = "warmBuffered"
    /\ dirty' = "yes"
    /\ job' = IdleJob
    /\ UNCHANGED <<rows, fsVersion, bucket, exported, kernel, staged, evalStart,
                   frames, observed>>

-----------------------------------------------------------------------------
(* flush_staged_fs and the transaction behind it.                          *)

(* The transaction commits the heap; export_manifest reads what it will    *)
(* put.  No await separates it from the last row of the flush.             *)
Commit(j, bumped) ==
    /\ fsVersion' = IF bumped THEN fsVersion + 1 ELSE fsVersion
    /\ dirty' = "no"
    /\ job' = [IdleJob EXCEPT !.pc = "export", !.mode = j.mode, !.refused = j.refused,
                              !.version = fsVersion']
    /\ heapOps' = NoOps
    /\ heapWrites' = {}
    /\ dropped' = {}

(* Mutant: the frame's ownership of a path is not looked at.               *)
OwnedByFrameNever(j, r, p) == FALSE

(* A frame write won this path during the eval.                            *)
OwnedByFrame(j, r, p) == j.raced /\ r[p].origin = "frame"

(* Mutant: the row of a deleted file outlives its body.                    *)
ContinueKeepsRow(j, r) ==
    LET left == {p \in j.todo : ~OwnedByFrame(j, r, p)}
    IN  IF left = {}
        THEN rows' = r /\ Commit(j, TRUE)
        ELSE LET p == Min(left)
             IN  /\ job' = [j EXCEPT !.pc = "flush", !.path = p,
                                     !.todo = {q \in j.todo : q > p}]
                 /\ rows' = r
                 /\ UNCHANGED <<fsVersion, dirty, heapOps, heapWrites, dropped>>

(* From one await of the flush to the next, over rows r: paths in order,   *)
(* frame-owned ones skipped, until a PUT or a delete is under way or the   *)
(* transaction is reached.  A deletion removes the row before the body.    *)
Continue(j, r) ==
    LET left == {p \in j.todo : ~OwnedByFrame(j, r, p)}
    IN  IF left = {}
        THEN rows' = r /\ Commit(j, TRUE)
        ELSE LET p == Min(left)
             IN  /\ job' = [j EXCEPT !.pc = "flush", !.path = p,
                                     !.todo = {q \in j.todo : q > p}]
                 /\ rows' = IF j.ops[p] = Tombstone THEN [r EXCEPT ![p] = NoRow] ELSE r
                 /\ UNCHANGED <<fsVersion, dirty, heapOps, heapWrites, dropped>>

(* A checkpoint begins: for the eager cell that has just returned, or for  *)
(* a dirty session (flush frame, closing socket, alarm).  It may fail      *)
(* before the flush, and then the staged ops stay where they are.          *)
Checkpoint ==
    /\ \/ job.pc = "eval" /\ job.mode = "eagerDurable"
       \/ job.pc = "idle" /\ dirty = "yes"
    /\ kernel = "live"
    /\ FrameWindow = "parked" => \A f \in Frames : frames[f].pc = "idle"
    /\ \E failed \in {FALSE, DumpFaults} :
          IF failed
          THEN /\ job' = IdleJob
               /\ UNCHANGED <<rows, fsVersion, dirty, staged, heapOps, heapWrites, dropped>>
          ELSE LET todo == {p \in Paths : staged[p] # NoOp}
                   j == [job EXCEPT !.mode = "checkpoint", !.ops = staged,
                                    !.todo = todo, !.raced = fsVersion > evalStart]
               IN  /\ staged' = NoOps
                   /\ IF todo = {}
                      THEN UNCHANGED rows /\ Commit(j, FALSE)
                      ELSE Continue(j, rows)
    /\ UNCHANGED <<bucket, exported, kernel, evalStart, frames, evals, writes,
                   doomed, acked, foreign>>

(* Mutant: the row is written although the PUT failed.                     *)
FlushRefusedKeepsRow ==
    /\ job.pc = "flush"
    /\ R2Faults
    /\ Continue([job EXCEPT !.refused = @ \cup {job.path}],
                [rows EXCEPT ![job.path] = [body |-> job.ops[job.path], origin |-> "cell"]])
    /\ UNCHANGED <<bucket, exported, kernel, staged, evalStart, frames, evals,
                   writes, doomed, acked, foreign>>

(* The PUT or delete of the current path is answered.                      *)
FlushLands ==
    /\ job.pc = "flush"
    /\ LET p == job.path
           op == job.ops[p]
       IN  /\ bucket' = [bucket EXCEPT ![p] = IF op = Tombstone THEN NoBody ELSE op]
           /\ Continue(job, IF op = Tombstone THEN rows
                            ELSE [rows EXCEPT ![p] = [body |-> op, origin |-> "cell"]])
           /\ foreign' = foreign \ {p}
    /\ UNCHANGED <<exported, kernel, staged, evalStart, frames, evals, writes,
                   doomed, acked>>

(* It is given up, although it may have landed: no row, on to the next.    *)
FlushRefused ==
    /\ job.pc = "flush"
    /\ R2Faults
    /\ LET p == job.path
           op == job.ops[p]
       IN  /\ bucket' \in {bucket, [bucket EXCEPT ![p] = IF op = Tombstone
                                                        THEN NoBody ELSE op]}
           /\ Continue([job EXCEPT !.refused = @ \cup {p}], rows)
    /\ UNCHANGED <<exported, kernel, staged, evalStart, frames, evals, writes,
                   doomed, acked, foreign>>

(* export_manifest ends the checkpoint, or the reconciliation.             *)
Export ==
    /\ job.pc = "export"
    /\ exported' \in {job.version} \cup (IF R2Faults THEN {exported} ELSE {})
    /\ job' = IdleJob
    /\ UNCHANGED <<rows, fsVersion, dirty, bucket, kernel, staged, evalStart,
                   frames, observed>>

(* A dirty session whose kernel is gone: DirtyHeapLost.                    *)
FlushLost ==
    /\ job.pc = "idle"
    /\ dirty = "yes"
    /\ kernel = "none"
    /\ dirty' = "no"
    /\ UNCHANGED <<rows, fsVersion, bucket, exported, memory, observed>>

-----------------------------------------------------------------------------
(* vfs_write, mutex-free.                                                  *)

SetFrame(f, fr) == frames' = [frames EXCEPT ![f] = fr]

(* A truncating write, or one to a path with no row, needs no old body; an *)
(* offset write to an existing row GETs it first.                          *)
VfsWrite(f, p) ==
    /\ frames[f].pc = "idle"
    /\ FrameWindow = "parked" => job.pc \in {"idle", "eval"}
    /\ writes < MaxWrites
    /\ writes' = Fresh
    /\ \E truncate \in BOOLEAN :
          IF truncate \/ rows[p] = NoRow
          THEN /\ SetFrame(f, [IdleFrame EXCEPT !.pc = "put", !.path = p,
                                                !.write = Fresh, !.body = <<Fresh>>])
               /\ acked' = [acked EXCEPT ![p] = {}]
          ELSE /\ SetFrame(f, [IdleFrame EXCEPT !.pc = "get", !.path = p,
                                                !.write = Fresh])
               /\ UNCHANGED acked
    /\ UNCHANGED <<durable, kernel, staged, evalStart, job, evals, heapOps,
                   heapWrites, doomed, dropped, foreign>>

(* The GET is answered; a missing object and a failed request both count   *)
(* as an empty file.                                                       *)
VfsSplice(f) ==
    /\ frames[f].pc = "get"
    /\ \E base \in {bucket[frames[f].path]} \cup (IF GetFaults THEN {NoBody} ELSE {}) :
          SetFrame(f, [frames[f] EXCEPT
                        !.pc = "put",
                        !.body = IF base = NoBody THEN <<frames[f].write>>
                                 ELSE Append(base, frames[f].write)])
    /\ UNCHANGED <<durable, kernel, staged, evalStart, job, observed>>

(* The PUT is answered: row and version follow at once.                    *)
VfsCommit(f) ==
    /\ frames[f].pc = "put"
    /\ LET p == frames[f].path
       IN  /\ bucket' = [bucket EXCEPT ![p] = frames[f].body]
           /\ rows' = [rows EXCEPT ![p] = [body |-> frames[f].body, origin |-> "frame"]]
           /\ foreign' = foreign \ {p}
           /\ acked' = [acked EXCEPT ![p] = @ \cup {[write |-> frames[f].write,
                                        version |-> fsVersion + 1, exported |-> FALSE]}]
    /\ fsVersion' = fsVersion + 1
    /\ SetFrame(f, [frames[f] EXCEPT !.pc = "export", !.body = NoBody,
                                      !.version = fsVersion'])
    /\ UNCHANGED <<dirty, exported, kernel, staged, evalStart, job, evals, writes,
                   heapOps, heapWrites, doomed, dropped>>

(* The PUT is given up: an error reply, though the body may have landed.   *)
VfsRefused(f) ==
    /\ frames[f].pc = "put"
    /\ R2Faults
    /\ LET p == frames[f].path
       IN  /\ bucket' \in {bucket, [bucket EXCEPT ![p] = frames[f].body]}
           /\ SetFrame(f, IdleFrame)
    /\ UNCHANGED <<rows, fsVersion, dirty, exported, kernel, staged, evalStart,
                   job, observed>>

(* The manifest is exported and the client gets its ok.                    *)
VfsAck(f) ==
    /\ frames[f].pc = "export"
    /\ \E refused \in {FALSE, R2Faults} :
          /\ exported' = IF refused THEN exported ELSE frames[f].version
          /\ acked' = [acked EXCEPT ![frames[f].path] =
                         {IF a.write = frames[f].write /\ ~refused
                          THEN [a EXCEPT !.exported = TRUE] ELSE a : a \in @}]
    /\ SetFrame(f, IdleFrame)
    /\ UNCHANGED <<rows, fsVersion, dirty, bucket, kernel, staged, evalStart, job,
                   evals, writes, heapOps, heapWrites, doomed, dropped, foreign>>

-----------------------------------------------------------------------------
(* A container or registry worker changes a body; the kernel is not told.  *)
ContainerWrites(p) ==
    /\ Container
    /\ writes < MaxWrites
    /\ writes' = Fresh
    /\ bucket' \in {[bucket EXCEPT ![p] = <<Fresh>>], [bucket EXCEPT ![p] = NoBody]}
    /\ foreign' = foreign \cup {p}
    /\ acked' = [acked EXCEPT ![p] = {}]
    /\ UNCHANGED <<rows, fsVersion, dirty, exported, memory, evals, heapOps,
                   heapWrites, doomed, dropped>>

(* reconcile_fs_files: the listing is taken, and answered later.           *)
BeginReconcile ==
    /\ job.pc = "idle"
    /\ FrameWindow = "parked" => \A f \in Frames : frames[f].pc = "idle"
    /\ fsVersion < MaxVersion
    /\ job' = [IdleJob EXCEPT !.pc = "list", !.mode = "reconcile", !.listing = bucket]
    /\ UNCHANGED <<durable, kernel, staged, evalStart, frames, observed>>

(* A row for every listed object, none for the others.                     *)
Reconcile ==
    /\ job.pc = "list"
    /\ rows' = [p \in Paths |-> IF job.listing[p] = NoBody THEN NoRow
                                ELSE [body |-> job.listing[p], origin |-> "reconcile"]]
    /\ IF \E p \in Paths : job.listing[p] # NoBody \/ rows[p] # NoRow
       THEN /\ fsVersion' = fsVersion + 1
            /\ job' = [IdleJob EXCEPT !.pc = "export", !.mode = job.mode,
                                      !.version = fsVersion']
       ELSE /\ job' = IdleJob
            /\ UNCHANGED fsVersion
    /\ foreign' = {p \in foreign : bucket[p] # job.listing[p]}
    /\ UNCHANGED <<dirty, bucket, exported, kernel, staged, evalStart, frames,
                   evals, writes, heapOps, heapWrites, doomed, dropped, acked>>

(* The listing fails: everything stays as it is.                           *)
ReconcileFails ==
    /\ job.pc = "list"
    /\ R2Faults
    /\ job' = IdleJob
    /\ UNCHANGED <<durable, kernel, staged, evalStart, frames, observed>>

-----------------------------------------------------------------------------
(* {t:evict} drops the kernel; the staging buffer is not part of it, and a *)
(* checkpoint that already has its dump goes on.                           *)
Evict ==
    /\ kernel = "live"
    /\ kernel' = "none"
    /\ IF job.pc = "flush" THEN UNCHANGED <<heapOps, heapWrites, doomed, dropped>>
                           ELSE LoseHeap
    /\ UNCHANGED <<durable, staged, evalStart, job, frames, evals, writes, acked,
                   foreign>>

(* reset drops the kernel and the snapshots; the files, their rows and the *)
(* staging buffer stay.                                                    *)
Reset ==
    /\ job.pc = "idle"
    /\ kernel' = "none"
    /\ dirty' = "no"
    /\ LoseHeap
    /\ UNCHANGED <<rows, fsVersion, bucket, exported, staged, evalStart, job, frames,
                   evals, writes, acked, foreign>>

(* What R2 may hold once every request in flight has landed or been lost.  *)
InFlight ==
    LET flushed == IF job.pc # "flush" THEN {} ELSE
                     {[p \in Paths |-> IF p # job.path THEN bucket[p]
                                       ELSE IF job.ops[p] = Tombstone THEN NoBody
                                       ELSE job.ops[p]]}
        framed == {[bucket EXCEPT ![frames[f].path] = frames[f].body] :
                     f \in {g \in Frames : frames[g].pc = "put"}}
    IN  {bucket} \cup flushed \cup framed

(* The isolate goes away: all memory is lost.                              *)
Crash ==
    /\ bucket' \in InFlight
    /\ kernel' = "none" /\ staged' = NoOps /\ evalStart' = 0
    /\ job' = IdleJob /\ frames' = [f \in Frames |-> IdleFrame]
    /\ LoseHeap
    /\ UNCHANGED <<rows, fsVersion, dirty, exported, evals, writes, acked, foreign>>

Cells ==
    \/ BeginEval \/ ReturnBuffered
    \/ \E p \in Paths : StageWrite(p) \/ StageDelete(p)
    \/ Checkpoint \/ FlushLands \/ FlushRefused \/ Export \/ FlushLost

VfsFrames ==
    \E f \in Frames :
        \/ \E p \in Paths : VfsWrite(f, p)
        \/ VfsSplice(f) \/ VfsCommit(f) \/ VfsRefused(f) \/ VfsAck(f)

Next ==
    \/ Cells \/ VfsFrames
    \/ \E p \in Paths : ContainerWrites(p)
    \/ BeginReconcile \/ Reconcile \/ ReconcileFails
    \/ Reset \/ Evict \/ Crash

Spec == Init /\ [][Next]_vars

-----------------------------------------------------------------------------
OpType == Body \cup {NoOp, Tombstone}
BodyType == Body \cup {NoBody}

(* Type invariant: rows, bodies, staged operations and handlers of the     *)
(* session file system keep their shapes.                                  *)
TypeOK ==
    /\ rows \in [Paths -> [body : BodyType, origin : {"none", "cell", "frame", "reconcile"}]]
    /\ fsVersion \in Nat /\ exported \in Nat /\ evalStart \in Nat
    /\ dirty \in {"yes", "no"} /\ kernel \in {"live", "none"}
    /\ bucket \in [Paths -> BodyType]
    /\ staged \in [Paths -> OpType] /\ heapOps \in [Paths -> OpType]
    /\ job \in [pc : {"idle", "eval", "flush", "export", "list"},
                mode : Durabilities \cup {"none", "checkpoint", "reconcile"},
                ops : [Paths -> OpType], todo : SUBSET Paths, path : 0..NumPaths,
                raced : BOOLEAN, version : Nat, listing : [Paths -> BodyType],
                refused : SUBSET Paths]
    /\ frames \in [Frames -> [pc : {"idle", "get", "put", "export"},
                             path : 0..NumPaths, write : Nat, body : BodyType,
                             version : Nat]]
    /\ evals \in 0..MaxEvals /\ writes \in 0..MaxWrites
    /\ heapWrites \subseteq Write /\ doomed \subseteq Write /\ dropped \subseteq Paths
    /\ acked \in [Paths -> SUBSET [write : Write, version : Nat, exported : BOOLEAN]]
    /\ foreign \subseteq Paths

(* A row never dangles: flush_staged_fs and vfs_write put the body before  *)
(* the row and drop the row before the body, over failed requests, crashes *)
(* and reconciliations.  Only a path that a container has touched since    *)
(* the last listing may have a row without a body (a "torn file").         *)
RowHasBody ==
    \A p \in Paths : rows[p] # NoRow /\ p \notin foreign => bucket[p] # NoBody

(* BUG-3: no step destroys a frame write settled since the current cell    *)
(* started; flush_staged_fs steps aside for it (as long as no vfs-sync has *)
(* relabelled its row, see AckedFrameSurvives for the rest).               *)
ParkedAckSurvives ==
    [][\A p \in Paths : \A a \in acked[p] :
          /\ a.version > evalStart
          /\ a.write \in Ids(bucket[p]) /\ rows[p].origin = "frame"
          /\ \E b \in acked'[p] : b.write = a.write
          => a.write \in Ids(bucket'[p]) /\ rows'[p] # NoRow]_vars

(* Heap and files commit together: when a checkpoint's transaction is done *)
(* every file operation of the cells in that heap is durable, except where *)
(* R2 refused it, someone else now owns the path, or the next eval dropped *)
(* what an eager cell had staged when its checkpoint failed (a heap that   *)
(* does reference a file that is not durable).                             *)
CommitPublishes ==
    [][job'.pc = "export" /\ job'.mode = "checkpoint" /\ job.pc # "export" =>
          \A p \in Paths : heapOps[p] # NoOp =>
              \/ p \in job'.refused \cup foreign' \cup dropped \/ rows'[p].origin = "frame"
              \/ heapOps[p] = Tombstone /\ rows'[p] = NoRow /\ bucket'[p] = NoBody
              \/ rows'[p].body = heapOps[p] /\ bucket'[p] = heapOps[p]]_vars

(* A flush carries only writes of cells whose heap is being committed: an  *)
(* operation staged by a heap that was lost (evict, then a cold wake) is   *)
(* never published by a later cell's checkpoint.                           *)
FlushesOnlyLiveWrites ==
    job.pc = "flush" => \A p \in Paths : Ids(job.ops[p]) \cap doomed = {}

(* An acknowledged vfs-write stays part of its file until something later  *)
(* replaces it.                                                            *)
AckedFrameSurvives ==
    \A p \in Paths : \A a \in acked[p] : a.write \in Ids(bucket[p])

(* "a cold restore can never see a file written by a cell whose checkpoint *)
(* did not commit" (FsStageOp).                                            *)
UncommittedInvisible ==
    kernel = "none" /\ job.pc = "idle" =>
        \A p \in Paths : Ids(bucket[p]) \cap doomed = {}
=============================================================================
