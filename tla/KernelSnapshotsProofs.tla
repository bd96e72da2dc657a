----------------------- MODULE KernelSnapshotsProofs -----------------------
(***************************************************************************)
(* The safety properties of KernelSnapshots for every set of builds and    *)
(* dump shapes, any BASE_EVERY, and with R2 and probe faults.  IInv is     *)
(* inductive; there is one lemma per action of Next.                       *)
(***************************************************************************)
EXTENDS KernelSnapshots, SequenceTheorems, TLAPS

(* The job record of a free mutex is well formed.                          *)
LEMMA IdleJobType == IdleJob \in JobType
BY DEF IdleJob, JobType, NoKey, R2Key

(* The kernel slot of a cold isolate is well formed.                       *)
LEMMA NoGlueType == NoGlue \in GlueType
BY DEF NoGlue, GlueType, Image

(* A fresh Durable Object satisfies the inductive invariant.               *)
LEMMA InitIInv == Init => IInv
<1> SUFFICES ASSUME Init PROVE IInv
  OBVIOUS
<1>1. TypeOK
  <2>1. manifest \in ManifestType
    BY DEF Init, NoManifest, ManifestType, NoKey, R2Key
  <2>2. glue \in GlueType /\ job \in JobType
    BY IdleJobType, NoGlueType DEF Init
  <2> QED
    BY <2>1, <2>2, ConstantsAssumption DEF Init, TypeOK, Image, ConstantsAssumption
<1>2. StoreInv
  BY DEF Init, StoreInv, NoManifest, HasManifest, IsDirty
<1>3. JobInv
  BY DEF Init, JobInv, IdleJob, Checkpointing, Committed
<1>4. ChainReconstructs /\ DeltaBaseIsChainTail
  BY DEF Init, ChainReconstructs, DeltaBaseIsChainTail, HasManifest, NoManifest, NoGlue
<1> QED BY <1>1, <1>2, <1>3, <1>4 DEF IInv

-----------------------------------------------------------------------------
(* Frame lemmas: what a step leaves alone.                                 *)

(* A step that touches neither the tables nor the bucket keeps the chain.  *)
LEMMA ChainUnchanged ==
    ASSUME ChainReconstructs, UNCHANGED <<tables, bucket>>
    PROVE  ChainReconstructs'
BY SMTT(30) DEF ChainReconstructs, HasManifest, BaseImages, Reconstruct, tables

(* A step that leaves SQLite and the bucket alone keeps their relations.   *)
LEMMA StoreUnchanged ==
    ASSUME TypeOK, StoreInv, UNCHANGED <<meta, tables, bucket>>,
           evals' \in Nat, evals' >= evals
    PROVE  StoreInv'
BY DEF StoreInv, TypeOK, meta, tables, HasManifest, IsDirty

(* A free mutex asks nothing of the rest of the state.                     *)
LEMMA IdleJobInv == job' = IdleJob => JobInv'
BY DEF JobInv, IdleJob, Checkpointing, Committed

-----------------------------------------------------------------------------
(* A step of an eval request that only plans its cell.                     *)
LEMMA BeginEvalInv == IInv /\ BeginEval => IInv'
<1> SUFFICES ASSUME IInv, BeginEval PROVE IInv'
  OBVIOUS
<1> USE DEF IInv
<1>0. NextCell \in Int /\ NextCell > committedCell /\ evals \in Nat
        /\ evals + 1 \in Nat /\ evals + 1 \in 0..MaxEvals
  BY ConstantsAssumption DEF ConstantsAssumption, BeginEval, TypeOK, NextCell
<1>1. PICK d \in Durabilities :
         job' = [IdleJob EXCEPT !.pc = "restore", !.op = "eval",
                                !.cell = NextCell, !.src = evals + 1,
                                !.durability = d]
  BY DEF BeginEval
<1>2. d \in {"eagerDurable", "warmBuffered"}
  BY ConstantsAssumption DEF ConstantsAssumption
<1>3. job' \in JobType
  BY <1>0, <1>1, <1>2, IdleJobType DEF JobType
<1>4. TypeOK'
  BY <1>0, <1>3, ConstantsAssumption DEF ConstantsAssumption, BeginEval, TypeOK, meta, tables
<1>5. StoreInv'
  BY <1>0, StoreUnchanged DEF BeginEval
<1>6. JobInv'
  BY <1>0, <1>1 DEF BeginEval, JobInv, IdleJob, Checkpointing, Committed, meta
<1>7. ChainReconstructs'
  BY ChainUnchanged DEF BeginEval
<1>8. DeltaBaseIsChainTail'
  BY <1>1 DEF BeginEval, DeltaBaseIsChainTail, tables, HasManifest, IdleJob
<1> QED BY <1>4, <1>5, <1>6, <1>7, <1>8

(* create and artifact requests.                                           *)
LEMMA BeginCreateInv == IInv /\ BeginCreate => IInv'
<1> SUFFICES ASSUME IInv, BeginCreate PROVE IInv'
  OBVIOUS
<1> USE DEF IInv
<1>1. job' \in JobType
  BY IdleJobType DEF BeginCreate, JobType
<1>2. TypeOK'
  BY <1>1 DEF BeginCreate, TypeOK, meta, tables, observed
<1>3. StoreInv'
  BY StoreUnchanged DEF BeginCreate, observed, TypeOK
<1>4. JobInv'
  BY DEF BeginCreate, JobInv, IdleJob, Checkpointing, Committed
<1>5. ChainReconstructs'
  BY ChainUnchanged DEF BeginCreate
<1>6. DeltaBaseIsChainTail'
  BY DEF BeginCreate, DeltaBaseIsChainTail, tables, HasManifest, IdleJob
<1> QED BY <1>2, <1>3, <1>4, <1>5, <1>6

(* Where a restore leaves the job: well typed and satisfying JobInv.       *)
LEMMA AfterRestoreInv ==
    ASSUME TypeOK, JobInv, job.pc = "restore", job' = AfterRestore,
           evals' = evals, committedCell' = committedCell
    PROVE  job' \in JobType /\ JobInv' /\ job'.pc \in {"idle", "eval"}
<1>1. CASE job.op = "eval"
  BY <1>1 DEF AfterRestore, TypeOK, JobType, JobInv, Checkpointing, Committed
<1>2. CASE job.op # "eval"
  <2>1. job' = IdleJob
    BY <1>2 DEF AfterRestore
  <2> QED BY <2>1, IdleJobType, IdleJobInv DEF IdleJob
<1> QED BY <1>1, <1>2

(* The kernel is already live.                                             *)
LEMMA EnsureWarmInv == IInv /\ EnsureWarm => IInv'
<1> SUFFICES ASSUME IInv, EnsureWarm PROVE IInv'
  OBVIOUS
<1> USE DEF IInv
<1>1. job' \in JobType /\ JobInv' /\ job'.pc \in {"idle", "eval"}
  BY AfterRestoreInv DEF EnsureWarm, meta, observed
<1>2. TypeOK'
  BY <1>1 DEF EnsureWarm, TypeOK, meta, tables, observed
<1>3. StoreInv'
  BY StoreUnchanged DEF EnsureWarm, observed, TypeOK
<1>5. ChainReconstructs'
  BY ChainUnchanged DEF EnsureWarm
<1>6. DeltaBaseIsChainTail'
  BY <1>1 DEF EnsureWarm, DeltaBaseIsChainTail, tables, HasManifest
<1> QED BY <1>1, <1>2, <1>3, <1>5, <1>6

(* A cold ensure_glue, whatever the source of the heap, as long as the     *)
(* retained image is absent or the committed one.                          *)
LEMMA RestoredInv ==
    ASSUME IInv, ColdStart,
           NEW h \in Image, NEW l \in Image \cup {NoImage}, Restored(h, l),
           l = NoImage \/ (HasManifest /\ l = manifest.crc)
    PROVE  IInv'
<1> USE DEF IInv
<1>1. job' \in JobType /\ JobInv' /\ job'.pc \in {"idle", "eval"}
  BY AfterRestoreInv DEF Restored, ColdStart, observed
<1>2. glue' \in GlueType
  BY DEF Restored, GlueType
<1>3. liveCell' \in Int /\ lastDirtySrc' \in Nat
  BY DEF Restored, MarkClean, TypeOK
<1>4. TypeOK'
  BY <1>1, <1>2, <1>3 DEF Restored, TypeOK, tables, observed
<1>5. StoreInv'
  BY DEF Restored, StoreInv, TypeOK, MarkClean, tables, observed, HasManifest, IsDirty
<1>6. ChainReconstructs'
  BY ChainUnchanged DEF Restored
<1>7. DeltaBaseIsChainTail'
  BY <1>1 DEF Restored, DeltaBaseIsChainTail, tables, HasManifest
<1> QED BY <1>1, <1>4, <1>5, <1>6, <1>7

(* The journal replays into a heap of evaluations.                         *)
LEMMA ReplayedImage == TypeOK => Replayed \in Image
<1> SUFFICES ASSUME TypeOK PROVE Replayed \in Image
  OBVIOUS
<1>1. Len(oplog) \in Nat
  BY DEF TypeOK
<1>2. ASSUME NEW i \in 1..Len(oplog) PROVE oplog[i] \in [cell : Int, src : Eval]
  BY ElementOfSeq DEF TypeOK
<1>3. \A i \in 1..Len(oplog) : oplog[i].src \in Eval
  BY <1>2
<1> QED BY <1>1, <1>3 DEF Replayed, Image

(* All five sources of a cold restore.                                     *)
LEMMA ColdRestoreInv ==
    ASSUME IInv,
           \/ CreateFresh \/ RestoreBytes \/ ReplayR2Unavailable
           \/ ReplayEngineMigration \/ ReplaySanityFallback
    PROVE  IInv'
<1>1. <<>> \in Image /\ Replayed \in Image
  BY ReplayedImage DEF Image, IInv
<1>2. HasManifest => manifest.crc \in Image
  BY DEF IInv, StoreInv
<1>3. CASE CreateFresh
  BY <1>1, <1>3, RestoredInv DEF CreateFresh
<1>4. CASE RestoreBytes
  BY <1>2, <1>4, RestoredInv DEF RestoreBytes
<1>5. CASE ReplayR2Unavailable
  BY <1>1, <1>5, RestoredInv DEF ReplayR2Unavailable
<1>6. CASE ReplayEngineMigration
  BY <1>1, <1>6, RestoredInv DEF ReplayEngineMigration
<1>7. CASE ReplaySanityFallback
  BY <1>1, <1>2, <1>7, RestoredInv DEF ReplaySanityFallback
<1> QED BY <1>3, <1>4, <1>5, <1>6, <1>7

-----------------------------------------------------------------------------
(* dumpW4 on a live kernel: the job it sets up satisfies JobInv, and the   *)
(* retained image is kept or dropped, never moved.                         *)
LEMMA DumpInv ==
    ASSUME IInv, NEW j \in JobType, NEW img \in Image, NEW forced \in BOOLEAN,
           glue.live, job.pc \in {"idle", "eval"},
           j.op \in {"eval", "flush"}, j.src \in 1..evals, j.cell > committedCell,
           ~j.toR2, Dump(j, img, forced, IdleJob),
           UNCHANGED <<meta, tables, bucket, evals>>
    PROVE  /\ job' \in JobType /\ glue' \in GlueType
           /\ JobInv' /\ DeltaBaseIsChainTail'
           /\ job'.pc \in {"idle", "put", "txn"}
<1> DEFINE forceFull == forced \/ ~HasManifest \/ manifest.deltaSeq + 1 >= BaseEvery
           mode(shape) == IF ~forceFull /\ glue.last # NoImage /\ shape.sparse
                          THEN "delta" ELSE "full"
           staged(shape) == mode(shape) = "delta" \/ shape.retain
           nextPc(shape) == IF mode(shape) = "full" /\ shape.spill THEN "put" ELSE "txn"
<1>1. PICK shape \in Shapes :
         IF shape.admitted
         THEN /\ job' = [j EXCEPT !.pc = nextPc(shape), !.mode = mode(shape),
                                  !.prev = glue.last, !.image = img]
              /\ glue' = [glue EXCEPT !.heap = img,
                                      !.last = IF staged(shape) THEN @ ELSE NoImage,
                                      !.pending = IF staged(shape) THEN img ELSE NoImage]
         ELSE /\ job' = IdleJob
              /\ glue' = [glue EXCEPT !.heap = img]
  BY DEF Dump
<1>2. glue \in GlueType /\ glue.last \in Image \cup {NoImage}
  BY DEF IInv, TypeOK, GlueType
<1>3. glue.last # NoImage => HasManifest /\ glue.last = manifest.crc
  BY DEF IInv, DeltaBaseIsChainTail
<1>4. CASE ~shape.admitted
  <2>1. job' = IdleJob /\ glue' = [glue EXCEPT !.heap = img]
    BY <1>1, <1>4
  <2>2. job' \in JobType /\ JobInv' /\ job'.pc = "idle"
    BY <2>1, IdleJobType, IdleJobInv DEF IdleJob
  <2>3. glue' \in GlueType
    BY <1>2, <2>1 DEF GlueType
  <2>4. DeltaBaseIsChainTail'
    BY <1>2, <1>3, <2>1 DEF DeltaBaseIsChainTail, GlueType, HasManifest, tables
  <2> QED BY <2>2, <2>3, <2>4
<1>5. CASE shape.admitted
  <2> HIDE DEF forceFull
  <2>1. mode(shape) \in {"delta", "full"} /\ nextPc(shape) \in {"put", "txn"}
    OBVIOUS
  <2>2. job' = [j EXCEPT !.pc = nextPc(shape), !.mode = mode(shape),
                         !.prev = glue.last, !.image = img]
    BY <1>1, <1>5
  <2>3. glue' = [glue EXCEPT !.heap = img,
                             !.last = IF staged(shape) THEN @ ELSE NoImage,
                             !.pending = IF staged(shape) THEN img ELSE NoImage]
    BY <1>1, <1>5
  <2>4. nextPc(shape) = "put" => mode(shape) = "full"
    OBVIOUS
  <2>5. mode(shape) = "delta" => /\ HasManifest /\ glue.last = manifest.crc
                                 /\ manifest.deltaSeq + 1 < BaseEvery
    BY <1>3, ConstantsAssumption DEF forceFull, ConstantsAssumption, IInv, TypeOK, ManifestType
  <2> HIDE DEF mode, nextPc
  <2>6. job' \in JobType
    BY <1>2, <2>1, <2>2 DEF JobType
  <2>7. /\ job'.pc = nextPc(shape) /\ job'.mode = mode(shape) /\ job'.prev = glue.last
        /\ job'.image = img /\ job'.op = j.op /\ job'.src = j.src
        /\ job'.cell = j.cell /\ job'.toR2 = j.toR2
    BY <2>2 DEF JobType
  <2> HIDE DEF staged
  <2>8. glue' \in GlueType
    BY <1>2, <2>3 DEF GlueType
  <2>9. /\ glue'.live /\ glue'.heap = img
        /\ glue'.last = IF staged(shape) THEN glue.last ELSE NoImage
        /\ glue'.pending = IF staged(shape) THEN img ELSE NoImage
    BY <1>2, <2>3 DEF GlueType
  <2>10. JobInv'
    BY <2>1, <2>4, <2>5, <2>7, <2>9 DEF JobInv, Checkpointing, Committed, HasManifest, meta, tables
  <2>11. DeltaBaseIsChainTail'
    BY <1>3, <2>9 DEF DeltaBaseIsChainTail, HasManifest, tables
  <2> QED BY <2>1, <2>6, <2>7, <2>8, <2>10, <2>11
<1> QED BY <1>4, <1>5

(* Running a cell appends one evaluation.                                  *)
LEMMA RunImage ==
    ASSUME IInv, job.pc = "eval"
    PROVE  /\ job.op = "eval" /\ job.src \in 1..evals /\ evals \in Nat
           /\ job.cell \in Int /\ job.cell > committedCell /\ committedCell >= -1
           /\ Append(glue.heap, job.src) \in Image
<1>1. job.op = "eval" /\ job.src \in 1..evals /\ job.cell > committedCell
  BY DEF IInv, JobInv
<1>2. evals \in Nat /\ job.cell \in Int /\ committedCell >= -1
  BY DEF IInv, TypeOK, JobType, StoreInv
<1>3. glue.heap \in Seq(Eval) /\ job.src \in Eval
  BY <1>1, <1>2 DEF IInv, TypeOK, GlueType, Image, Eval
<1> QED BY <1>1, <1>2, <1>3 DEF Image

(* A warmBuffered cell returns.                                            *)
LEMMA EvalReturnsBufferedInv == IInv /\ EvalReturnsBuffered => IInv'
<1> SUFFICES ASSUME IInv, EvalReturnsBuffered PROVE IInv'
  OBVIOUS
<1> USE DEF IInv
<1>1. /\ job.src \in 1..evals /\ evals \in Nat /\ job.cell \in Int
      /\ Append(glue.heap, job.src) \in Image
  BY RunImage DEF EvalReturnsBuffered
<1>2. glue' \in GlueType /\ glue'.live = glue.live /\ glue'.last = glue.last
  BY <1>1 DEF EvalReturnsBuffered, TypeOK, GlueType
<1>3. TypeOK'
  BY <1>1, <1>2, IdleJobType DEF EvalReturnsBuffered, MarkDirty, TypeOK, tables, observed
<1>4. StoreInv'
  BY <1>1 DEF EvalReturnsBuffered, MarkDirty, StoreInv, tables, observed, HasManifest, IsDirty
<1>5. JobInv'
  BY IdleJobInv DEF EvalReturnsBuffered
<1>6. ChainReconstructs'
  BY ChainUnchanged DEF EvalReturnsBuffered
<1>7. DeltaBaseIsChainTail'
  BY <1>2 DEF EvalReturnsBuffered, DeltaBaseIsChainTail, tables, HasManifest
<1> QED BY <1>3, <1>4, <1>5, <1>6, <1>7

(* An eagerDurable cell returns and its checkpoint starts.                 *)
LEMMA EvalReturnsEagerInv == IInv /\ EvalReturnsEager => IInv'
<1> SUFFICES ASSUME IInv, EvalReturnsEager PROVE IInv'
  OBVIOUS
<1> USE DEF IInv
<1>1. /\ job.op = "eval" /\ job.src \in 1..evals /\ evals \in Nat
      /\ job.cell \in Int /\ job.cell > committedCell
      /\ Append(glue.heap, job.src) \in Image
  BY RunImage DEF EvalReturnsEager
<1>2. PICK artifact \in {FALSE, Artifacts} :
         /\ Dump([job EXCEPT !.artifact = artifact], Append(glue.heap, job.src), FALSE, IdleJob)
         /\ handles' = IF job'.pc = "idle" THEN Stamped([job EXCEPT !.artifact = artifact])
                                           ELSE handles
  BY DEF EvalReturnsEager
<1> DEFINE j == [job EXCEPT !.artifact = artifact]
<1>3. artifact \in BOOLEAN
  BY ConstantsAssumption DEF ConstantsAssumption
<1>4. /\ j \in JobType /\ j.op = job.op /\ j.src = job.src /\ j.cell = job.cell
      /\ j.toR2 = job.toR2
  BY <1>3 DEF TypeOK, JobType
<1>5. ~job.toR2
  BY DEF EvalReturnsEager, JobInv
<1>6. /\ job' \in JobType /\ glue' \in GlueType /\ JobInv' /\ DeltaBaseIsChainTail'
  <2> HIDE DEF j
  <2>1. Dump(j, Append(glue.heap, job.src), FALSE, IdleJob)
    BY <1>2 DEF j
  <2> QED
    BY <1>1, <1>4, <1>5, <2>1, DumpInv DEF EvalReturnsEager
<1>7. handles' \subseteq [cell : Int, src : Nat]
  <2>1. [cell |-> j.cell, src |-> j.src] \in [cell : Int, src : Nat]
    BY <1>1, <1>4
  <2> QED BY <1>2, <2>1 DEF Stamped, TypeOK
<1>8. TypeOK'
  BY <1>6, <1>7 DEF EvalReturnsEager, TypeOK, meta, tables
<1>9. StoreInv'
  BY <1>1, StoreUnchanged DEF EvalReturnsEager
<1>10. ChainReconstructs'
  BY ChainUnchanged DEF EvalReturnsEager
<1> QED BY <1>6, <1>8, <1>9, <1>10

(* The handler traps.                                                      *)
LEMMA EvalTrapsInv == IInv /\ EvalTraps => IInv'
<1> SUFFICES ASSUME IInv, EvalTraps PROVE IInv'
  OBVIOUS
<1> USE DEF IInv
<1>1. job' \in JobType /\ job'.pc = "trapped" /\ job'.op = job.op /\ job'.src = job.src
  BY DEF EvalTraps, TypeOK, JobType
<1>2. TypeOK'
  BY <1>1 DEF EvalTraps, TypeOK, meta, tables, observed
<1>3. StoreInv'
  BY StoreUnchanged DEF EvalTraps, observed, TypeOK
<1>4. JobInv'
  BY <1>1 DEF EvalTraps, JobInv, Checkpointing, Committed, observed
<1>5. ChainReconstructs'
  BY ChainUnchanged DEF EvalTraps
<1>6. DeltaBaseIsChainTail'
  BY DEF EvalTraps, DeltaBaseIsChainTail
<1> QED BY <1>2, <1>3, <1>4, <1>5, <1>6

-----------------------------------------------------------------------------
(* Writing or deleting any object but the committed base leaves the chain  *)
(* and the uniqueness of keys alone.                                       *)
LEMMA OtherObject ==
    ASSUME IInv, UNCHANGED <<tables, epoch, committedCell, liveCell, lastDirtySrc>>,
           evals' = evals,
           NEW k \in R2Key, NEW img \in Image,
           manifest.store = "r2" => k # manifest.key,
           bucket' \in {bucket, Put(bucket, k, img), Remove(bucket, k)}
    PROVE  /\ ChainReconstructs' /\ StoreInv'
           /\ bucket' \subseteq [key : R2Key, image : Image]
<1> USE DEF IInv
<1>1. bucket' \subseteq [key : R2Key, image : Image]
  BY DEF TypeOK, Put, Remove
<1>2. \A o \in bucket', p \in bucket' : o.key = p.key => o = p
  BY DEF StoreInv, Put, Remove
<1>3. StoreInv'
  BY <1>2 DEF StoreInv, HasManifest, IsDirty, tables
<1>4. manifest.store = "r2" =>
         {p \in bucket' : p.key = manifest.key} = {p \in bucket : p.key = manifest.key}
  BY DEF Put, Remove
<1>5. BaseImages' = BaseImages
  BY <1>4 DEF BaseImages, tables
<1>6. ChainReconstructs'
  BY <1>5 DEF ChainReconstructs, HasManifest, Reconstruct, tables
<1> QED BY <1>1, <1>3, <1>6

(* The key a checkpoint PUTs to is never the committed base's.             *)
LEMMA FreshKey ==
    ASSUME IInv, Checkpointing
    PROVE  /\ R2KeyFor(epoch, job.cell) \in R2Key
           /\ manifest.store = "r2" => R2KeyFor(epoch, job.cell) # manifest.key
<1>1. job.cell > committedCell
  BY DEF IInv, JobInv
<1>2. job.cell \in Int /\ epoch \in Nat /\ committedCell \in Int /\ manifest \in ManifestType
  BY DEF IInv, TypeOK, JobType
<1>3. manifest.store = "r2" => manifest.key[2] <= committedCell
  BY DEF IInv, StoreInv
<1>4. manifest.key[2] \in Int
  BY <1>2 DEF ManifestType, R2Key
<1> QED BY <1>1, <1>2, <1>3, <1>4 DEF R2KeyFor, R2Key

(* The PUT of a new base succeeds.                                         *)
LEMMA PutBaseInv == IInv /\ PutBase => IInv'
<1> SUFFICES ASSUME IInv, PutBase PROVE IInv'
  OBVIOUS
<1> USE DEF IInv
<1>1. Checkpointing /\ job.image \in Image
  BY DEF PutBase, Checkpointing, JobInv
<1>2. ChainReconstructs' /\ StoreInv' /\ bucket' \subseteq [key : R2Key, image : Image]
  BY <1>1, FreshKey, OtherObject DEF PutBase, meta, observed
<1>3. job' \in JobType /\ job' = [job EXCEPT !.pc = "verify"]
  BY DEF PutBase, TypeOK, JobType
<1>4. TypeOK'
  BY <1>2, <1>3 DEF PutBase, TypeOK, meta, tables, observed
<1>5. [key |-> R2KeyFor(epoch, job.cell), image |-> job.image] \in bucket'
  BY DEF PutBase, Put
<1>6. JobInv'
  <2>1. /\ job'.pc = "verify" /\ job'.op = job.op /\ job'.src = job.src
        /\ job'.cell = job.cell /\ job'.image = job.image /\ job'.mode = job.mode
        /\ job'.toR2 = job.toR2
    BY <1>3 DEF TypeOK, JobType
  <2> QED BY <1>5, <2>1 DEF PutBase, JobInv, Checkpointing, Committed, meta, observed
<1>7. DeltaBaseIsChainTail'
  BY <1>3 DEF PutBase, DeltaBaseIsChainTail, tables, HasManifest
<1> QED BY <1>2, <1>4, <1>6, <1>7

(* The handles of a reply are well typed.                                  *)
LEMMA StampedType ==
    ASSUME TypeOK
    PROVE  Stamped(job) \subseteq [cell : Int, src : Nat]
<1>1. [cell |-> job.cell, src |-> job.src] \in [cell : Int, src : Nat]
  BY DEF TypeOK, JobType
<1> QED BY <1>1 DEF TypeOK, Stamped

(* The PUT of a new base is reported as failed.                            *)
LEMMA PutBaseFailsInv == IInv /\ PutBaseFails => IInv'
<1> SUFFICES ASSUME IInv, PutBaseFails PROVE IInv'
  OBVIOUS
<1> USE DEF IInv
<1>1. Checkpointing /\ job.image \in Image
  BY DEF PutBaseFails, Checkpointing, JobInv
<1>2. ChainReconstructs' /\ StoreInv' /\ bucket' \subseteq [key : R2Key, image : Image]
  BY <1>1, FreshKey, OtherObject DEF PutBaseFails, meta
<1>3. TypeOK'
  BY <1>2, IdleJobType, StampedType DEF PutBaseFails, TypeOK, meta, tables
<1>4. JobInv'
  BY IdleJobInv DEF PutBaseFails
<1>5. DeltaBaseIsChainTail'
  BY DEF PutBaseFails, DeltaBaseIsChainTail, tables, HasManifest
<1> QED BY <1>2, <1>3, <1>4, <1>5

(* The new base is read back, or not.                                      *)
LEMMA VerifyBaseInv == IInv /\ VerifyBase => IInv'
<1> SUFFICES ASSUME IInv, VerifyBase PROVE IInv'
  OBVIOUS
<1> USE DEF IInv
<1>1. PICK readable \in BOOLEAN : job' = [job EXCEPT !.pc = "txn", !.toR2 = readable]
  BY DEF VerifyBase
<1>2. job' \in JobType
  BY <1>1 DEF TypeOK, JobType
<1>3. TypeOK'
  BY <1>2 DEF VerifyBase, TypeOK, meta, tables, observed
<1>4. StoreInv'
  BY StoreUnchanged DEF VerifyBase, observed, TypeOK
<1>5. JobInv'
  <2>1. /\ job'.pc = "txn" /\ job'.op = job.op /\ job'.src = job.src
        /\ job'.cell = job.cell /\ job'.image = job.image /\ job'.mode = job.mode
    BY <1>1 DEF TypeOK, JobType
  <2> QED BY <2>1 DEF VerifyBase, JobInv, Checkpointing, Committed, meta, observed
<1>6. ChainReconstructs'
  BY ChainUnchanged DEF VerifyBase
<1>7. DeltaBaseIsChainTail'
  BY <1>1 DEF VerifyBase, DeltaBaseIsChainTail, tables, HasManifest
<1> QED BY <1>3, <1>4, <1>5, <1>6, <1>7

-----------------------------------------------------------------------------
(* What every transaction knows of its job.                                *)
LEMMA TxnFacts ==
    ASSUME IInv, job.pc = "txn"
    PROVE  /\ job.image \in Image /\ job.src \in Eval /\ job.cell \in Int
           /\ job.cell > committedCell /\ committedCell >= -1 /\ committedCell \in Int
           /\ job.op \in {"eval", "flush"} /\ job.src \in 1..evals
           /\ OplogRow \in [cell : Int, src : Eval]
<1>1. Checkpointing
  BY DEF Checkpointing
<1>2. /\ job.image \in Image /\ job.cell > committedCell /\ job.op \in {"eval", "flush"}
      /\ job.src \in 1..evals
  BY <1>1 DEF IInv, JobInv
<1>3. evals \in Nat /\ job.cell \in Int /\ committedCell \in Int /\ committedCell >= -1
  BY DEF IInv, TypeOK, JobType, StoreInv
<1>4. job.src \in Eval
  BY <1>2, <1>3 DEF Eval
<1> QED BY <1>2, <1>3, <1>4 DEF OplogRow

(* After a transaction the job waits for commitDump.                       *)
LEMMA PromoteJobInv ==
    ASSUME IInv, job.pc = "txn", UNCHANGED <<glue, evals, epoch>>,
           job' \in JobType, job'.pc = "promote",
           job'.op = job.op, job'.src = job.src, job'.cell = job.cell,
           job'.image = job.image,
           HasManifest', committedCell' = job.cell, manifest'.crc = job.image
    PROVE  JobInv' /\ DeltaBaseIsChainTail'
<1>1. Checkpointing
  BY DEF Checkpointing
<1> QED BY <1>1 DEF IInv, JobInv, DeltaBaseIsChainTail, Checkpointing, Committed

(* The delta transaction extends the chain by the committed image.         *)
LEMMA CommitDeltaInv == IInv /\ CommitDelta => IInv'
<1> SUFFICES ASSUME IInv, CommitDelta PROVE IInv'
  OBVIOUS
<1>1. /\ job.image \in Image /\ job.cell \in Int /\ job.cell > committedCell
      /\ committedCell >= -1 /\ committedCell \in Int
      /\ OplogRow \in [cell : Int, src : Eval]
  BY TxnFacts DEF CommitDelta
<1>2. /\ HasManifest /\ job.prev = manifest.crc /\ manifest.crc \in Image
      /\ manifest.deltaSeq + 1 < BaseEvery /\ manifest \in ManifestType
      /\ manifest.deltaSeq \in Nat
  BY DEF CommitDelta, IInv, JobInv, StoreInv, TypeOK, ManifestType
<1> DEFINE d == [prev |-> job.prev, next |-> job.image]
<1>3. d \in [prev : Image, next : Image]
  BY <1>1, <1>2
<1>4. deltaChunks \in Seq([prev : Image, next : Image])
  BY DEF IInv, TypeOK
<1>5. /\ deltaChunks' \in Seq([prev : Image, next : Image])
      /\ Len(deltaChunks) \in Nat
      /\ Len(deltaChunks') = Len(deltaChunks) + 1
      /\ \A i \in 1..Len(deltaChunks) : deltaChunks'[i] = deltaChunks[i]
      /\ deltaChunks'[Len(deltaChunks) + 1] = d
  <2> HIDE DEF d
  <2>1. deltaChunks' = Append(deltaChunks, d)
    BY DEF CommitDelta, d
  <2> QED BY <1>3, <1>4, <2>1
<1>6. oplog' \in Seq([cell : Int, src : Eval])
  BY <1>1 DEF CommitDelta, IInv, TypeOK
<1>7. manifest' \in ManifestType /\ manifest'.store = manifest.store
      /\ manifest'.key = manifest.key /\ manifest'.cell = job.cell
      /\ manifest'.crc = job.image /\ manifest'.deltaSeq = manifest.deltaSeq + 1
  <2>1. manifest' = [manifest EXCEPT !.cell = job.cell, !.crc = job.image,
                                     !.deltaSeq = manifest.deltaSeq + 1]
    BY DEF CommitDelta
  <2>2. manifest.deltaSeq + 1 \in Nat
    BY <1>2
  <2> QED BY <1>1, <1>2, <2>1, <2>2 DEF ManifestType
<1>8. job' \in JobType /\ job'.pc = "promote" /\ job'.op = job.op /\ job'.src = job.src
      /\ job'.cell = job.cell /\ job'.image = job.image
  BY DEF CommitDelta, IInv, TypeOK, JobType
<1>9. TypeOK'
  BY <1>1, <1>5, <1>6, <1>7, <1>8 DEF CommitDelta, IInv, TypeOK, observed
<1>10. StoreInv'
  <2>1. manifest.key[2] \in Int /\ liveCell \in Int
    BY DEF IInv, TypeOK, ManifestType, R2Key
  <2>2. manifest.store = "r2" => manifest'.key = R2KeyFor(epoch, manifest'.key[2])
                                 /\ manifest'.key[2] <= job.cell
    BY <1>1, <1>7, <2>1 DEF IInv, StoreInv
  <2>3. IsDirty' => lastDirtySrc' \in 1..evals'
    BY <1>1, <2>1 DEF CommitDelta, IInv, StoreInv, IsDirty, observed
  <2> QED
    BY <1>1, <1>7, <2>2, <2>3 DEF CommitDelta, IInv, StoreInv, HasManifest
<1>11. JobInv' /\ DeltaBaseIsChainTail'
  BY <1>2, <1>7, <1>8, PromoteJobInv DEF CommitDelta, HasManifest, observed
<1>12. ChainReconstructs'
  <2>1. BaseImages' = BaseImages
    BY <1>7 DEF BaseImages, CommitDelta
  <2>2. ASSUME NEW base \in BaseImages PROVE Reconstruct(base)' = job.image
    <3>1. /\ Len(deltaChunks) = manifest.deltaSeq
          /\ \A i \in 1..Len(deltaChunks) :
               deltaChunks[i].prev = IF i = 1 THEN base ELSE deltaChunks[i-1].next
          /\ manifest.crc = IF deltaChunks = <<>> THEN base
                            ELSE deltaChunks[Len(deltaChunks)].next
      <4>1. Reconstruct(base) = manifest.crc
        BY <1>2 DEF IInv, ChainReconstructs
      <4>2. Corrupt \notin Image
        BY DEF Corrupt, Image, Eval
      <4> QED BY <4>1, <4>2, <1>2 DEF Reconstruct
    <3>2. Len(deltaChunks') = manifest'.deltaSeq
      BY <1>5, <1>7, <3>1
    <3>3. deltaChunks = <<>> <=> Len(deltaChunks) = 0
      BY <1>4
    <3>4. ASSUME NEW i \in 1..Len(deltaChunks')
          PROVE  deltaChunks'[i].prev = IF i = 1 THEN base ELSE deltaChunks'[i-1].next
      <4>1. i # 1 => i - 1 \in 1..Len(deltaChunks) /\ deltaChunks'[i-1] = deltaChunks[i-1]
        BY <1>5
      <4>2. CASE i = Len(deltaChunks) + 1
        <5>1. deltaChunks'[i].prev = manifest.crc
          BY <4>2, <1>2, <1>5
        <5>2. CASE i = 1
          BY <4>2, <5>1, <5>2, <1>5, <3>1, <3>3
        <5>3. CASE i # 1
          <6>1. deltaChunks # <<>> /\ i - 1 = Len(deltaChunks)
            BY <4>2, <5>3, <1>5, <3>3
          <6> QED BY <4>1, <5>1, <5>3, <6>1, <3>1
        <5> QED BY <5>2, <5>3
      <4>3. CASE i \in 1..Len(deltaChunks)
        BY <4>1, <4>3, <1>5, <3>1
      <4> QED BY <4>2, <4>3, <1>5
    <3>5. deltaChunks' # <<>> /\ deltaChunks'[Len(deltaChunks')].next = job.image
      BY <1>5
    <3> QED BY <3>2, <3>4, <3>5 DEF Reconstruct
  <2> QED
    BY <1>2, <1>7, <2>1, <2>2 DEF ChainReconstructs, IInv
<1> QED BY <1>9, <1>10, <1>11, <1>12 DEF IInv

(* The full-base transaction starts a new chain on a base that is there.   *)
LEMMA CommitBaseInv == IInv /\ CommitBase => IInv'
<1> SUFFICES ASSUME IInv, CommitBase PROVE IInv'
  OBVIOUS
<1>1. /\ job.image \in Image /\ job.cell \in Int /\ job.cell > committedCell
      /\ committedCell >= -1 /\ committedCell \in Int
      /\ OplogRow \in [cell : Int, src : Eval]
  BY TxnFacts DEF CommitBase
<1>2. epoch \in Nat /\ engine \in Builds /\ liveCell \in Int /\ job.toR2 \in BOOLEAN
      /\ manifest.key \in R2Key
  BY DEF IInv, TypeOK, JobType, ManifestType
<1>3. /\ manifest'.store = IF job.toR2 THEN "r2" ELSE "sqlite"
      /\ manifest'.cell = job.cell
      /\ manifest'.key = IF job.toR2 THEN R2KeyFor(epoch, job.cell) ELSE NoKey
      /\ manifest'.deltaSeq = 0 /\ manifest'.crc = job.image
  BY DEF CommitBase
<1>4. R2KeyFor(epoch, job.cell) \in R2Key /\ NoKey \in R2Key
      /\ R2KeyFor(epoch, job.cell)[2] = job.cell
  BY <1>1, <1>2 DEF R2KeyFor, R2Key, NoKey
<1>5. manifest' \in ManifestType
  BY <1>1, <1>2, <1>4 DEF CommitBase, ManifestType
<1>6. /\ job' \in JobType /\ job'.pc = "promote" /\ job'.op = job.op /\ job'.src = job.src
      /\ job'.cell = job.cell /\ job'.image = job.image
  BY <1>2 DEF CommitBase, IInv, TypeOK, JobType
<1>7. oplog' \in Seq([cell : Int, src : Eval])
  BY <1>1 DEF CommitBase
<1>8. TypeOK'
  BY <1>1, <1>5, <1>6, <1>7 DEF CommitBase, IInv, TypeOK, observed
<1>9. StoreInv'
  <2>1. IsDirty' => lastDirtySrc' \in 1..evals'
    BY <1>1, <1>2 DEF CommitBase, IInv, StoreInv, IsDirty, observed
  <2> QED
    BY <1>1, <1>3, <1>4, <2>1 DEF CommitBase, IInv, StoreInv, HasManifest
<1>10. JobInv' /\ DeltaBaseIsChainTail'
  BY <1>3, <1>6, PromoteJobInv DEF CommitBase, HasManifest, observed
<1>11. ChainReconstructs'
  <2>1. BaseImages' = {job.image}
    <3>1. CASE job.toR2
      <4>1. [key |-> R2KeyFor(epoch, job.cell), image |-> job.image] \in bucket
        BY <3>1 DEF CommitBase, IInv, JobInv
      <4>2. {p \in bucket : p.key = R2KeyFor(epoch, job.cell)}
              = {[key |-> R2KeyFor(epoch, job.cell), image |-> job.image]}
        BY <4>1 DEF IInv, StoreInv
      <4>3. BaseImages' = {o.image : o \in {p \in bucket : p.key = R2KeyFor(epoch, job.cell)}}
        BY <3>1, <1>3 DEF BaseImages, CommitBase
      <4>4. \A o \in {p \in bucket : p.key = R2KeyFor(epoch, job.cell)} : o.image = job.image
        BY <4>2
      <4> QED BY <4>1, <4>3, <4>4
    <3>2. CASE ~job.toR2
      BY <3>2, <1>3 DEF BaseImages, CommitBase
    <3> QED BY <3>1, <3>2
  <2>2. Reconstruct(job.image)' = job.image
    BY <1>3 DEF Reconstruct, CommitBase
  <2>3. manifest'.deltaSeq < BaseEvery
    BY <1>3, ConstantsAssumption DEF ConstantsAssumption
  <2> QED BY <1>3, <2>1, <2>2, <2>3 DEF ChainReconstructs, CommitBase
<1> QED BY <1>8, <1>9, <1>10, <1>11 DEF IInv

-----------------------------------------------------------------------------
(* A committed job that returns leaves a clean session and a free mutex.   *)
LEMMA FinishInv ==
    ASSUME IInv, Committed, Finish, bucket' \subseteq [key : R2Key, image : Image],
           glue' \in GlueType
    PROVE  /\ TypeOK' /\ JobInv' /\ job' = IdleJob
           /\ UNCHANGED <<tables, epoch, committedCell>>
           /\ evals' = evals /\ ~IsDirty'
<1>1. job.cell = committedCell /\ job.image = manifest.crc /\ HasManifest
  BY DEF IInv, JobInv
<1>2. job.image \in Image /\ job.cell \in Int
  BY <1>1 DEF IInv, StoreInv, TypeOK
<1>3. handles' \subseteq [cell : Int, src : Nat]
  BY StampedType DEF Finish, IInv
<1>4. TypeOK'
  BY <1>2, <1>3, IdleJobType DEF Finish, MarkClean, IInv, TypeOK, tables
<1>5. ~IsDirty'
  BY <1>1, <1>2 DEF Finish, MarkClean, IsDirty
<1> QED BY <1>4, <1>5, IdleJobInv DEF Finish

(* A store whose rows and bucket are as before, and clean, keeps StoreInv. *)
LEMMA CleanStore ==
    ASSUME StoreInv, UNCHANGED <<tables, epoch, committedCell, bucket>>, ~IsDirty'
    PROVE  StoreInv'
BY DEF StoreInv, HasManifest, tables

(* commitDump makes the committed image the next delta's base.             *)
LEMMA PromoteInv == IInv /\ Promote => IInv'
<1> SUFFICES ASSUME IInv, Promote PROVE IInv'
  OBVIOUS
<1>1. Committed /\ job.pc = "promote"
  BY DEF Promote, Committed
<1>2. /\ HasManifest /\ job.image = manifest.crc /\ manifest.crc \in Image
      /\ glue.live => /\ glue.heap = job.image
                      /\ glue.pending = job.image \/ (glue.pending = NoImage /\ glue.last = NoImage)
  BY <1>1 DEF IInv, JobInv, StoreInv
<1>3. NoImage \notin Image
  BY DEF NoImage, Image, Eval
<1>4. /\ glue' \in GlueType /\ glue'.live = glue.live /\ glue'.heap = glue.heap
      /\ glue'.live => glue'.last = NoImage \/ glue'.last = manifest.crc
  BY <1>2, <1>3, ZenonT(60) DEF Promote, CommitDump, IInv, TypeOK, GlueType
<1>5. bucket' = bucket /\ bucket' \subseteq [key : R2Key, image : Image]
  BY DEF Promote, IInv, TypeOK
<1>6. CASE Superseded
  <2>1. /\ job' \in JobType /\ job'.pc = "deleteOld" /\ job'.op = job.op
        /\ job'.src = job.src /\ job'.cell = job.cell /\ job'.image = job.image
        /\ job'.oldKey = job.oldKey /\ job.oldKey # manifest.key
    BY <1>6, ZenonT(60) DEF Promote, Superseded, IInv, TypeOK, JobType
  <2>2. UNCHANGED <<meta, tables, alarm, engine, observed>>
    BY <1>6 DEF Promote
  <2>3. TypeOK'
    BY <1>4, <1>5, <2>1, <2>2 DEF IInv, TypeOK, meta, tables, observed
  <2>4. StoreInv' /\ ChainReconstructs'
    BY <1>5, <2>2, StoreUnchanged, ChainUnchanged DEF IInv, observed, TypeOK
  <2>5. JobInv'
    BY <1>1, <1>2, <1>4, <2>1, <2>2
       DEF IInv, JobInv, Checkpointing, Committed, HasManifest, meta, tables, observed
  <2>6. DeltaBaseIsChainTail'
    BY <1>2, <1>4, <2>2 DEF DeltaBaseIsChainTail, HasManifest, tables
  <2> QED BY <2>3, <2>4, <2>5, <2>6 DEF IInv
<1>7. CASE ~Superseded
  <2>1. Finish
    BY <1>7 DEF Promote
  <2>2. /\ TypeOK' /\ JobInv' /\ UNCHANGED <<tables, epoch, committedCell>> /\ ~IsDirty'
    BY <1>1, <1>4, <1>5, <2>1, FinishInv
  <2>3. StoreInv' /\ ChainReconstructs'
    BY <1>5, <2>2, CleanStore, ChainUnchanged DEF IInv
  <2>4. DeltaBaseIsChainTail'
    BY <1>2, <1>4, <2>2 DEF DeltaBaseIsChainTail, HasManifest, tables
  <2> QED BY <2>2, <2>3, <2>4 DEF IInv
<1> QED BY <1>6, <1>7

(* Deleting the superseded base.                                           *)
LEMMA DeleteOldBaseInv == IInv /\ DeleteOldBase => IInv'
<1> SUFFICES ASSUME IInv, DeleteOldBase PROVE IInv'
  OBVIOUS
<1>1. Committed /\ job.pc = "deleteOld" /\ Finish /\ glue' = glue
      /\ bucket' \in {bucket, Remove(bucket, job.oldKey)}
  BY DEF DeleteOldBase, Committed
<1>2. /\ job.oldKey # manifest.key /\ job.oldKey \in R2Key /\ glue' \in GlueType
      /\ manifest.crc \in Image
  BY <1>1 DEF IInv, JobInv, StoreInv, TypeOK, JobType
<1>3. bucket' \subseteq [key : R2Key, image : Image]
  BY <1>1 DEF Remove, IInv, TypeOK
<1>4. /\ TypeOK' /\ JobInv' /\ UNCHANGED <<tables, epoch, committedCell>>
      /\ evals' = evals /\ ~IsDirty'
  BY <1>1, <1>2, <1>3, FinishInv
<1>5. {p \in bucket' : p.key = manifest.key} = {p \in bucket : p.key = manifest.key}
  BY <1>1, <1>2 DEF Remove
<1>6. BaseImages' = BaseImages
  BY <1>4, <1>5 DEF BaseImages, tables
<1>7. ChainReconstructs'
  BY <1>4, <1>6 DEF IInv, ChainReconstructs, HasManifest, Reconstruct, tables
<1>8. StoreInv'
  BY <1>1, <1>4 DEF IInv, StoreInv, HasManifest, tables, Remove
<1>9. DeltaBaseIsChainTail'
  BY <1>1, <1>4 DEF IInv, DeltaBaseIsChainTail, HasManifest, tables
<1> QED BY <1>4, <1>7, <1>8, <1>9 DEF IInv

-----------------------------------------------------------------------------
(* A flush with nothing to do, or whose heap is gone.                      *)
LEMMA FlushIdleInv == IInv /\ (FlushClean \/ FlushLost) => IInv'
<1> SUFFICES ASSUME IInv, FlushClean \/ FlushLost PROVE IInv'
  OBVIOUS
<1> USE DEF IInv
<1>1. /\ UNCHANGED <<epoch, committedCell, lastArtifactCell, tables, bucket, glue,
                     engine, job, observed>>
      /\ alarm' = "none"
      /\ \/ UNCHANGED <<liveCell, lastDirtySrc>>
         \/ liveCell' = committedCell /\ lastDirtySrc' = 0
  BY DEF FlushClean, FlushLost, MarkClean, meta
<1>2. TypeOK'
  BY <1>1 DEF TypeOK, tables, observed
<1>3. StoreInv'
  BY <1>1 DEF StoreInv, TypeOK, HasManifest, IsDirty, tables, observed
<1>4. JobInv'
  BY <1>1 DEF JobInv, Checkpointing, Committed, HasManifest, tables, observed
<1>5. ChainReconstructs'
  BY <1>1, ChainUnchanged
<1>6. DeltaBaseIsChainTail'
  BY <1>1 DEF DeltaBaseIsChainTail, HasManifest, tables
<1> QED BY <1>2, <1>3, <1>4, <1>5, <1>6

(* A flush of a live dirty heap starts a forced full checkpoint.           *)
LEMMA FlushLiveInv == IInv /\ FlushLive => IInv'
<1> SUFFICES ASSUME IInv, FlushLive PROVE IInv'
  OBVIOUS
<1> USE DEF IInv
<1>1. PICK t \in {"flush", "alarm", "websocket-close"} :
        /\ FlushTrigger(t) /\ IsDirty /\ glue.live
        /\ alarm' = IF t = "alarm" THEN "none" ELSE alarm
        /\ Dump([IdleJob EXCEPT !.op = "flush", !.cell = liveCell,
                                !.src = lastDirtySrc, !.trigger = t],
                glue.heap, TRUE, IdleJob)
  BY DEF FlushLive
<1> DEFINE j == [IdleJob EXCEPT !.op = "flush", !.cell = liveCell,
                                !.src = lastDirtySrc, !.trigger = t]
<1>2. /\ liveCell \in Int /\ lastDirtySrc \in Nat /\ lastDirtySrc \in 1..evals
      /\ liveCell > committedCell /\ evals \in Nat /\ glue.heap \in Image
  BY <1>1 DEF TypeOK, StoreInv, IsDirty, GlueType
<1>3. j \in JobType
  BY <1>1, <1>2, IdleJobType DEF JobType
<1>4. j.op = "flush" /\ j.src = lastDirtySrc /\ j.cell = liveCell /\ ~j.toR2
  BY DEF IdleJob
<1>5. job' \in JobType /\ glue' \in GlueType /\ JobInv' /\ DeltaBaseIsChainTail'
  <2>1. Dump(j, glue.heap, TRUE, IdleJob) /\ job.pc = "idle" /\ glue.live
    BY <1>1 DEF FlushTrigger
  <2> HIDE DEF j
  <2> QED
    BY <1>2, <1>3, <1>4, <2>1, DumpInv DEF FlushLive, observed
<1>6. TypeOK'
  BY <1>1, <1>5 DEF FlushLive, TypeOK, meta, tables, observed
<1>7. StoreInv' /\ ChainReconstructs'
  BY <1>2, StoreUnchanged, ChainUnchanged DEF FlushLive, observed
<1> QED BY <1>5, <1>6, <1>7

-----------------------------------------------------------------------------
(* With no manifest there is no chain, and with no kernel no delta base.   *)
LEMMA NothingStored ==
    ASSUME manifest' = NoManifest, ~glue'.live
    PROVE  ChainReconstructs' /\ DeltaBaseIsChainTail' /\ ~HasManifest'
BY DEF ChainReconstructs, DeltaBaseIsChainTail, HasManifest, NoManifest

(* reset, up to the deletion of an R2 base.                                *)
LEMMA BeginResetInv == IInv /\ BeginReset => IInv'
<1> SUFFICES ASSUME IInv, BeginReset PROVE IInv'
  OBVIOUS
<1>1. /\ manifest' = NoManifest /\ snapChunks' = NoImage /\ deltaChunks' = <<>>
      /\ oplog' = <<>> /\ acked' = <<>> /\ handles' = {} /\ glue' = NoGlue
      /\ UNCHANGED <<bucket, engine, evals>>
  BY DEF BeginReset
<1>2. manifest' \in ManifestType /\ glue' \in GlueType /\ ~glue'.live
  BY <1>1, NoGlueType DEF NoManifest, ManifestType, NoKey, R2Key, NoGlue
<1>3. ChainReconstructs' /\ DeltaBaseIsChainTail' /\ ~HasManifest' /\ manifest'.store = "none"
  BY <1>1, <1>2, NothingStored DEF NoManifest
<1>4. CASE manifest.store = "r2"
  <2>1. job' = [IdleJob EXCEPT !.pc = "reset", !.op = "reset", !.oldKey = manifest.key]
        /\ UNCHANGED <<meta, alarm>>
    BY <1>4 DEF BeginReset
  <2>2. manifest.key \in R2Key
    BY DEF IInv, TypeOK, ManifestType
  <2>3. job' \in JobType
    BY <2>1, <2>2, IdleJobType DEF JobType
  <2>4. job'.pc = "reset" /\ job'.op = "reset"
    BY <2>1 DEF IdleJob
  <2>5. JobInv'
    BY <1>2, <1>3, <2>4 DEF JobInv, Checkpointing, Committed
  <2>6. TypeOK'
    BY <1>1, <1>2, <2>1, <2>3 DEF IInv, TypeOK, meta, Image
  <2>7. StoreInv'
    BY <1>1, <1>3, <2>1 DEF IInv, StoreInv, meta, IsDirty
  <2> QED BY <1>3, <2>5, <2>6, <2>7 DEF IInv
<1>5. CASE manifest.store # "r2"
  <2>1. NewEpoch
    BY <1>5 DEF BeginReset
  <2>2. JobInv' /\ job' \in JobType
    BY <2>1, IdleJobInv, IdleJobType DEF NewEpoch
  <2>3. TypeOK'
    BY <1>1, <1>2, <2>1, <2>2 DEF NewEpoch, MarkClean, IInv, TypeOK, Image
  <2>4. StoreInv'
    BY <1>1, <1>3, <2>1 DEF NewEpoch, MarkClean, IInv, StoreInv, IsDirty
  <2> QED BY <1>3, <2>2, <2>3, <2>4 DEF IInv
<1> QED BY <1>4, <1>5

(* reset, after the deletion of an R2 base.                                *)
LEMMA FinishResetInv == IInv /\ FinishReset => IInv'
<1> SUFFICES ASSUME IInv, FinishReset PROVE IInv'
  OBVIOUS
<1>1. ~HasManifest /\ ~glue.live /\ bucket' \in {bucket, Remove(bucket, job.oldKey)}
      /\ UNCHANGED <<tables, glue, engine, observed>> /\ NewEpoch
  BY DEF FinishReset, IInv, JobInv
<1>2. bucket' \subseteq [key : R2Key, image : Image]
      /\ \A o \in bucket', p \in bucket' : o.key = p.key => o = p
  BY <1>1 DEF Remove, IInv, TypeOK, StoreInv
<1>3. JobInv' /\ job' \in JobType
  BY <1>1, IdleJobInv, IdleJobType DEF NewEpoch
<1>4. TypeOK'
  BY <1>1, <1>2, <1>3 DEF NewEpoch, MarkClean, IInv, TypeOK, tables, observed
<1>5. manifest' = manifest /\ manifest.store = "none" /\ ~HasManifest'
  BY <1>1 DEF HasManifest, tables
<1>6. StoreInv'
  BY <1>1, <1>2, <1>5 DEF NewEpoch, MarkClean, StoreInv, IsDirty
<1>7. ChainReconstructs' /\ DeltaBaseIsChainTail'
  BY <1>1, <1>5 DEF ChainReconstructs, DeltaBaseIsChainTail
<1> QED BY <1>3, <1>4, <1>6, <1>7 DEF IInv

(* An evict frame, at any moment.                                          *)
LEMMA EvictInv == IInv /\ Evict => IInv'
<1> SUFFICES ASSUME IInv, Evict PROVE IInv'
  OBVIOUS
<1> USE DEF IInv
<1>1. glue' \in GlueType /\ ~glue'.live
  BY NoGlueType DEF Evict, NoGlue
<1>2. TypeOK'
  BY <1>1 DEF Evict, TypeOK, meta, tables, observed
<1>3. StoreInv' /\ ChainReconstructs'
  BY StoreUnchanged, ChainUnchanged DEF Evict, observed, TypeOK
<1>4. JobInv'
  BY <1>1 DEF Evict, JobInv, Checkpointing, Committed, HasManifest, meta, tables, observed
<1>5. DeltaBaseIsChainTail'
  BY <1>1 DEF DeltaBaseIsChainTail
<1> QED BY <1>2, <1>3, <1>4, <1>5

(* A crash, at any moment.                                                 *)
LEMMA CrashInv == IInv /\ Crash => IInv'
<1> SUFFICES ASSUME IInv, Crash PROVE IInv'
  OBVIOUS
<1>1. glue' \in GlueType /\ ~glue'.live /\ job' \in JobType /\ JobInv'
  BY NoGlueType, IdleJobType, IdleJobInv DEF Crash, NoGlue
<1>2. ChainReconstructs' /\ StoreInv' /\ bucket' \subseteq [key : R2Key, image : Image]
  <2>0. UNCHANGED <<tables, epoch, committedCell, liveCell, lastDirtySrc>> /\ evals' = evals
        /\ bucket' \in InFlight
    BY DEF Crash, meta, observed
  <2>1. CASE job.pc = "put"
    <3>1. Checkpointing /\ job.image \in Image
      BY <2>1 DEF Checkpointing, IInv, JobInv
    <3>2. bucket' \in {bucket, Put(bucket, R2KeyFor(epoch, job.cell), job.image)}
      BY <2>0, <2>1 DEF InFlight
    <3> QED BY <2>0, <3>1, <3>2, FreshKey, OtherObject
  <2>2. CASE job.pc \in {"deleteOld", "reset"}
    <3>1. bucket' \in {bucket, Remove(bucket, job.oldKey)}
      BY <2>0, <2>2 DEF InFlight
    <3>2. job.oldKey \in R2Key
      BY DEF IInv, TypeOK, JobType
    <3>3. manifest.store = "r2" => job.oldKey # manifest.key
      BY <2>2 DEF IInv, JobInv, HasManifest
    <3>4. <<>> \in Image
      BY DEF Image
    <3> QED BY <2>0, <3>1, <3>2, <3>3, <3>4, OtherObject
  <2>3. CASE job.pc \notin {"put", "deleteOld", "reset"}
    <3>1. bucket' = bucket
      BY <2>0, <2>3 DEF InFlight
    <3> QED
      BY <2>0, <3>1, StoreUnchanged, ChainUnchanged DEF Crash, IInv, TypeOK
  <2> QED BY <2>1, <2>2, <2>3
<1>3. TypeOK'
  BY <1>1, <1>2 DEF Crash, IInv, TypeOK, meta, tables, observed
<1>4. DeltaBaseIsChainTail'
  BY <1>1 DEF DeltaBaseIsChainTail
<1> QED BY <1>1, <1>2, <1>3, <1>4 DEF IInv

-----------------------------------------------------------------------------
(* Every step of KernelDO, whichever handler takes it, keeps the inductive *)
(* invariant.                                                              *)
LEMMA NextIInv == IInv /\ [Next]_vars => IInv'
<1> SUFFICES ASSUME IInv, [Next]_vars PROVE IInv'
  OBVIOUS
<1>1. CASE BeginEval \/ BeginCreate
  BY <1>1, BeginEvalInv, BeginCreateInv
<1>2. CASE Restore
  BY <1>2, EnsureWarmInv, ColdRestoreInv DEF Restore
<1>3. CASE EvalReturns
  BY <1>3, EvalReturnsBufferedInv, EvalReturnsEagerInv, EvalTrapsInv DEF EvalReturns
<1>4. CASE Checkpoint
  BY <1>4, PutBaseInv, PutBaseFailsInv, VerifyBaseInv, CommitDeltaInv,
     CommitBaseInv, PromoteInv, DeleteOldBaseInv DEF Checkpoint
<1>5. CASE Flush
  BY <1>5, FlushIdleInv, FlushLiveInv DEF Flush
<1>6. CASE BeginReset \/ FinishReset
  BY <1>6, BeginResetInv, FinishResetInv
<1>7. CASE Evict \/ Crash
  BY <1>7, EvictInv, CrashInv
<1>8. CASE UNCHANGED vars
  <2>1. UNCHANGED <<meta, tables, bucket, alarm, glue, engine, job, observed>>
    BY <1>8 DEF vars
  <2>2. TypeOK'
    BY <2>1 DEF IInv, TypeOK, meta, tables, observed
  <2>3. StoreInv'
    BY <2>1, StoreUnchanged DEF IInv, TypeOK, observed
  <2>4. JobInv'
    BY <2>1 DEF IInv, JobInv, Checkpointing, Committed, HasManifest, meta, tables, observed
  <2>5. ChainReconstructs'
    BY <2>1, ChainUnchanged DEF IInv
  <2>6. DeltaBaseIsChainTail'
    BY <2>1 DEF IInv, DeltaBaseIsChainTail, HasManifest, tables
  <2> QED BY <2>2, <2>3, <2>4, <2>5, <2>6 DEF IInv
<1> QED BY <1>1, <1>2, <1>3, <1>4, <1>5, <1>6, <1>7, <1>8 DEF Next

(* The inductive invariant holds in every reachable state, for every set   *)
(* of builds, every shape of heap and every fault.                         *)
THEOREM SpecIInv == Spec => []IInv
BY InitIInv, NextIInv, PTL DEF Spec

(* The meta rows, the snapshot tables, the retained images and the job     *)
(* keep their types.                                                       *)
THEOREM TypeCorrect == Spec => []TypeOK
<1>1. IInv => TypeOK
  BY DEF IInv
<1> QED BY <1>1, SpecIInv, PTL

(* restoreW4 never meets a chain of the kernel's own making that does not  *)
(* rebuild the recorded CRC.                                               *)
THEOREM ChainAlwaysReconstructs == Spec => []ChainReconstructs
<1>1. IInv => ChainReconstructs
  BY DEF IInv
<1> QED BY <1>1, SpecIInv, PTL

(* The delta base retained in memory is the tail of the durable chain.     *)
THEOREM DeltaBaseAlwaysChainTail == Spec => []DeltaBaseIsChainTail
<1>1. IInv => DeltaBaseIsChainTail
  BY DEF IInv
<1> QED BY <1>1, SpecIInv, PTL

(* The manifest never names an R2 base that is gone or was overwritten:    *)
(* swap-then-delete, against every crash, failed PUT and reset.            *)
THEOREM BaseAlwaysReadable == Spec => []BaseReadable
<1>1. IInv => BaseReadable
  <2> SUFFICES ASSUME IInv, manifest.store = "r2"
               PROVE  \E o \in bucket : o.key = manifest.key
                                        /\ Reconstruct(o.image) = manifest.crc
    BY DEF BaseReadable
  <2>1. BaseImages # {} /\ \A base \in BaseImages : Reconstruct(base) = manifest.crc
    BY DEF IInv, ChainReconstructs, HasManifest
  <2>2. BaseImages = {o.image : o \in {p \in bucket : p.key = manifest.key}}
    BY DEF BaseImages
  <2>3. PICK o \in bucket : o.key = manifest.key
    BY <2>1, <2>2
  <2>4. o.image \in BaseImages
    BY <2>2, <2>3
  <2> QED BY <2>1, <2>3, <2>4
<1> QED BY <1>1, SpecIInv, PTL

(* Commits only move forward, the manifest with them, until a reset.       *)
THEOREM CommitsMoveForward == Spec => CommitMovesForward
<1> DEFINE Forward ==
      /\ committedCell' # committedCell =>
            \/ committedCell' > committedCell /\ manifest'.cell = committedCell'
            \/ committedCell' = -1 /\ epoch' = epoch + 1
      /\ manifest' # manifest =>
            \/ manifest'.cell = committedCell' /\ committedCell' > committedCell
            \/ manifest' = NoManifest /\ job'.pc \in {"reset", "idle"}
<1>1. IInv /\ [Next]_vars => [Forward]_vars
  <2> SUFFICES ASSUME IInv, Next PROVE Forward
    BY DEF vars
  <2>1. CASE CommitDelta
    <3>1. job.cell > committedCell /\ manifest \in ManifestType
      BY <2>1, TxnFacts DEF CommitDelta, IInv, TypeOK
    <3>2. manifest'.cell = job.cell /\ committedCell' = job.cell
      BY <2>1, <3>1 DEF CommitDelta, ManifestType
    <3> QED BY <3>1, <3>2
  <2>2. CASE CommitBase
    <3>1. job.cell > committedCell
      BY <2>2, TxnFacts DEF CommitBase
    <3>2. manifest'.cell = job.cell /\ committedCell' = job.cell
      BY <2>2 DEF CommitBase
    <3> QED BY <3>1, <3>2
  <2>3. CASE BeginReset
    <3>1. manifest' = NoManifest
      BY <2>3 DEF BeginReset
    <3>2. CASE manifest.store = "r2"
      <4>1. job'.pc = "reset" /\ committedCell' = committedCell
        BY <2>3, <3>2 DEF BeginReset, IdleJob, meta
      <4> QED BY <3>1, <4>1
    <3>3. CASE manifest.store # "r2"
      <4>1. job'.pc = "idle" /\ committedCell' = -1 /\ epoch' = epoch + 1
        BY <2>3, <3>3 DEF BeginReset, NewEpoch, IdleJob
      <4> QED BY <3>1, <4>1
    <3> QED BY <3>2, <3>3
  <2>4. CASE FinishReset
    BY <2>4 DEF FinishReset, NewEpoch, tables
  <2>5. CASE Restore
    BY <2>5 DEF Restore, EnsureWarm, CreateFresh, RestoreBytes, ReplayR2Unavailable,
       ReplayEngineMigration, ReplaySanityFallback, Restored, meta, tables
  <2>6. CASE EvalReturns
    BY <2>6 DEF EvalReturns, EvalReturnsBuffered, EvalReturnsEager, EvalTraps, meta, tables
  <2>7. CASE PutBase \/ PutBaseFails \/ VerifyBase \/ Promote \/ DeleteOldBase
    BY <2>7 DEF PutBase, PutBaseFails, VerifyBase, Promote, DeleteOldBase, Finish, meta, tables
  <2>8. CASE Flush
    BY <2>8 DEF Flush, FlushClean, FlushLost, FlushLive, meta, tables
  <2>9. CASE BeginEval \/ BeginCreate \/ Evict \/ Crash
    BY <2>9 DEF BeginEval, BeginCreate, Evict, Crash, meta, tables
  <2> QED BY <2>1, <2>2, <2>3, <2>4, <2>5, <2>6, <2>7, <2>8, <2>9 DEF Next, Checkpoint
<1> QED BY <1>1, SpecIInv, PTL DEF Spec, CommitMovesForward

-----------------------------------------------------------------------------
(* What the snapshots are for, proved for every instance in which no cold  *)
(* wake falls back to the oplog (NoFallback): a cold wake brings back      *)
(* exactly the committed heap, acknowledged work survives, and             *)
(* KernelSnapshots implements DurableSession.  When the size gates admit   *)
(* every dump, an artifact handle serves the text of its own cell.         *)

(* Without fallback, a cold ensure_glue ends with the committed heap.      *)
LEMMA ColdWake ==
    ASSUME NoFallback, IInv, LineageInv,
           \/ CreateFresh \/ RestoreBytes \/ ReplayR2Unavailable
           \/ ReplayEngineMigration \/ ReplaySanityFallback
    PROVE  \E last \in {NoImage, CommittedImage} : Restored(CommittedImage, last)
<1>1. HasManifest => manifest.engine = engine
  BY DEF NoFallback, LineageInv, IInv, TypeOK
<1>2. HasManifest => /\ BaseImages # {}
                     /\ \A base \in BaseImages : Reconstruct(base) = manifest.crc
  BY DEF IInv, ChainReconstructs
<1>3. CASE CreateFresh
  BY <1>3 DEF CreateFresh, CommittedImage
<1>4. CASE RestoreBytes
  BY <1>4 DEF RestoreBytes, CommittedImage
<1>5. CASE ReplayR2Unavailable
  BY <1>2, <1>5 DEF ReplayR2Unavailable, NoFallback, HasManifest
<1>6. CASE ReplayEngineMigration
  BY <1>1, <1>6 DEF ReplayEngineMigration
<1>7. CASE ReplaySanityFallback
  BY <1>2, <1>7 DEF ReplaySanityFallback, NoFallback
<1> QED BY <1>3, <1>4, <1>5, <1>6, <1>7

(* What is committed is unchanged when the manifest is.                    *)
LEMMA CommittedUnchanged ==
    ASSUME manifest' = manifest
    PROVE  CommittedImage' = CommittedImage /\ HasManifest' = HasManifest
BY DEF CommittedImage, HasManifest

(* A heap contains what it contained, after one more evaluation.           *)
LEMMA AppendElements ==
    ASSUME NEW s \in Image, NEW e \in Eval
    PROVE  Elements(s) \subseteq Elements(Append(s, e))
<1>1. Len(Append(s, e)) = Len(s) + 1 /\ Len(s) \in Nat
  BY DEF Image
<1>2. \A i \in 1..Len(s) : Append(s, e)[i] = s[i] /\ i \in 1..Len(Append(s, e))
  BY <1>1 DEF Image
<1> QED BY <1>2 DEF Elements

(* Dump keeps the lineage: the heap and the image it dumps are img.        *)
LEMMA DumpLineage ==
    ASSUME IInv, LineageInv, NEW j \in JobType, NEW img, NEW forced \in BOOLEAN,
           j.pc \notin {"put", "verify", "txn"}, glue.live,
           Elements(CommittedImage) \subseteq Elements(img),
           Dump(j, img, forced, IdleJob), manifest' = manifest, acked' = acked
    PROVE  LineageInv'
<1>1. glue \in GlueType
  BY DEF IInv, TypeOK
<1>2. glue'.live /\ glue'.heap = img
  BY <1>1 DEF Dump, GlueType
<1>3. job'.image = img \/ job' = IdleJob
  BY DEF Dump, JobType
<1>4. ~Checkpointing' \/ job'.image = img
  BY <1>3 DEF Checkpointing, IdleJob
<1>5. HasManifest' => manifest'.engine \in Builds
  BY CommittedUnchanged DEF LineageInv
<1>6. AckedSurvives'
  BY CommittedUnchanged DEF LineageInv, AckedSurvives
<1> QED BY <1>2, <1>4, <1>5, <1>6, CommittedUnchanged DEF LineageInv

(* Marking a job as artifact-producing changes nothing else.               *)
LEMMA EagerJob ==
    ASSUME job \in JobType, NEW a \in BOOLEAN
    PROVE  /\ [job EXCEPT !.artifact = a] \in JobType
           /\ [job EXCEPT !.artifact = a].pc = job.pc
BY DEF JobType

(* The two jobs a reset may leave behind it.                               *)
LEMMA ResetJob ==
    ASSUME NEW k
    PROVE  /\ IdleJob.pc = "idle"
           /\ [IdleJob EXCEPT !.pc = "reset", !.op = "reset", !.oldKey = k].pc = "reset"
BY DEF IdleJob

(* A step that commits nothing, leaves the acknowledgements alone, starts  *)
(* no checkpoint and drops or keeps the heap keeps the lineage.            *)
LEMMA QuietLineage ==
    ASSUME LineageInv, manifest' = manifest, acked' = acked,
           glue'.live => glue.live /\ glue'.heap = glue.heap,
           Checkpointing' => Checkpointing /\ job'.image = job.image
    PROVE  LineageInv'
<1>1. CommittedImage' = CommittedImage /\ HasManifest' = HasManifest
  BY CommittedUnchanged
<1> QED BY <1>1 DEF LineageInv, AckedSurvives

(* Commits, resets and everything else keep the lineage.                   *)
LEMMA NextLineage ==
    ASSUME NoFallback, IInv, LineageInv, [Next]_vars
    PROVE  LineageInv'
<1> USE DEF Checkpointing
<1>0. glue \in GlueType /\ job \in JobType /\ glue.heap \in Image
  BY DEF IInv, TypeOK, GlueType
<1>1. CASE BeginEval \/ BeginCreate
  <2>1. manifest' = manifest /\ acked' = acked /\ glue' = glue /\ job'.pc = "restore"
    BY <1>1 DEF BeginEval, BeginCreate, tables, observed, IdleJob
  <2> QED BY <2>1, QuietLineage
<1>2. CASE EnsureWarm
  <2>1. manifest' = manifest /\ acked' = acked /\ glue' = glue /\ job' = AfterRestore
    BY <1>2 DEF EnsureWarm, tables, observed
  <2>2. job'.pc \in {"idle", "eval"}
    BY <2>1, <1>0 DEF AfterRestore, IdleJob, JobType
  <2> QED BY <2>1, <2>2, QuietLineage
<1>3. CASE \/ CreateFresh \/ RestoreBytes \/ ReplayR2Unavailable
           \/ ReplayEngineMigration \/ ReplaySanityFallback
  <2>1. PICK last \in {NoImage, CommittedImage} : Restored(CommittedImage, last)
    BY <1>3, ColdWake
  <2>2. manifest' = manifest /\ acked' = acked /\ job' = AfterRestore
        /\ glue'.heap = CommittedImage
    BY <2>1 DEF Restored, tables, observed
  <2>3. job'.pc \in {"idle", "eval"}
    BY <2>2, <1>0 DEF AfterRestore, IdleJob, JobType
  <2>4. CommittedImage' = CommittedImage /\ HasManifest' = HasManifest
    BY <2>2, CommittedUnchanged
  <2> QED BY <2>2, <2>3, <2>4 DEF LineageInv, AckedSurvives
<1>4. CASE EvalReturnsBuffered
  <2>1. manifest' = manifest /\ acked' = acked /\ job' = IdleJob
    BY <1>4 DEF EvalReturnsBuffered, tables, observed
  <2>2. CommittedImage' = CommittedImage /\ HasManifest' = HasManifest /\ ~Checkpointing'
    BY <2>1, CommittedUnchanged DEF IdleJob
  <2>3. glue'.live => glue.live /\ glue'.heap = Append(glue.heap, job.src)
    BY <1>0, <1>4 DEF EvalReturnsBuffered, GlueType
  <2>4. job.src \in Eval
    BY <1>4, RunImage DEF EvalReturnsBuffered, Eval
  <2>5. Elements(glue.heap) \subseteq Elements(Append(glue.heap, job.src))
    BY <1>0, <2>4, AppendElements
  <2> QED BY <2>1, <2>2, <2>3, <2>5 DEF LineageInv, AckedSurvives
<1>5. CASE EvalReturnsEager
  <2>1. PICK artifact \in {FALSE, Artifacts} :
           Dump([job EXCEPT !.artifact = artifact], Append(glue.heap, job.src), FALSE, IdleJob)
    BY <1>5 DEF EvalReturnsEager
  <2>0. artifact \in BOOLEAN
    BY ConstantsAssumption DEF ConstantsAssumption
  <2>2. [job EXCEPT !.artifact = artifact] \in JobType
        /\ [job EXCEPT !.artifact = artifact].pc = "eval"
    <3>1. job.pc = "eval"
      BY <1>5 DEF EvalReturnsEager
    <3> QED BY <1>0, <2>0, <3>1, EagerJob
  <2>3. job.src \in Eval /\ glue.live /\ manifest' = manifest /\ acked' = acked
    <3>1. job.pc = "eval" /\ glue.live /\ UNCHANGED <<tables, acked>>
      BY <1>5 DEF EvalReturnsEager
    <3>2. job.src \in 1..evals /\ evals \in Nat
      BY <3>1, RunImage
    <3> QED BY <3>1, <3>2 DEF Eval, tables
  <2>4. Elements(CommittedImage) \subseteq Elements(Append(glue.heap, job.src))
    BY <1>0, <2>3, AppendElements DEF LineageInv
  <2> QED BY <2>1, <2>2, <2>3, <2>4, DumpLineage
<1>6. CASE EvalTraps \/ PutBase \/ PutBaseFails \/ VerifyBase
  <2>1. manifest' = manifest /\ acked' = acked /\ glue' = glue
    BY <1>6 DEF EvalTraps, PutBase, PutBaseFails, VerifyBase, tables, observed
  <2>2. Checkpointing' => Checkpointing /\ job'.image = job.image
    <3>1. CASE EvalTraps
      BY <1>0, <3>1 DEF EvalTraps, JobType
    <3>2. CASE PutBase
      BY <1>0, <3>2 DEF PutBase, JobType
    <3>3. CASE PutBaseFails
      BY <3>3 DEF PutBaseFails, IdleJob
    <3>4. CASE VerifyBase
      BY <1>0, <3>4 DEF VerifyBase, JobType
    <3> QED BY <1>6, <3>1, <3>2, <3>3, <3>4
  <2> QED BY <2>1, <2>2, QuietLineage
<1>7. CASE CommitDelta \/ CommitBase
  <2>1. job.pc = "txn" /\ acked' = acked /\ glue' = glue /\ job'.pc = "promote"
    BY <1>0, <1>7 DEF CommitDelta, CommitBase, JobType, observed
  <2>2. manifest'.crc = job.image /\ HasManifest' /\ manifest'.engine \in Builds
    <3>1. CASE CommitDelta
      BY <3>1 DEF CommitDelta, IInv, TypeOK, ManifestType, JobInv, HasManifest, LineageInv
    <3>2. CASE CommitBase
      BY <3>2 DEF CommitBase, IInv, TypeOK, HasManifest
    <3> QED BY <1>7, <3>1, <3>2
  <2>3. CommittedImage' = job.image
    BY <2>2 DEF CommittedImage
  <2>4. glue.live => glue.heap = job.image
    BY <2>1 DEF IInv, JobInv
  <2>5. Elements(CommittedImage) \subseteq Elements(job.image)
    BY <2>1 DEF LineageInv
  <2>6. Elements(acked) \subseteq Elements(job.image)
    BY <2>5 DEF LineageInv, AckedSurvives
  <2> QED BY <2>1, <2>2, <2>3, <2>4, <2>6 DEF LineageInv, AckedSurvives
<1>8. CASE Promote \/ DeleteOldBase
  <2>1. Committed /\ manifest' = manifest /\ ~Checkpointing'
    BY <1>0, <1>8 DEF Promote, DeleteOldBase, Committed, Finish, tables, IdleJob, JobType
  <2>2. job.image = manifest.crc /\ HasManifest
    BY <2>1 DEF IInv, JobInv
  <2>3. acked' \in {acked, CommittedImage}
    BY <1>8, <2>2 DEF Promote, DeleteOldBase, Finish, observed, CommittedImage
  <2>4. glue'.live => glue.live /\ glue'.heap = glue.heap
    BY <1>0, <1>8 DEF Promote, DeleteOldBase, CommitDump, GlueType
  <2>5. CommittedImage' = CommittedImage /\ HasManifest' = HasManifest
    BY <2>1, CommittedUnchanged
  <2> QED BY <2>1, <2>3, <2>4, <2>5 DEF LineageInv, AckedSurvives
<1>9. CASE FlushClean \/ FlushLost
  <2>1. manifest' = manifest /\ acked' = acked /\ glue' = glue /\ job' = job
    BY <1>9 DEF FlushClean, FlushLost, tables, observed
  <2> QED BY <2>1, QuietLineage
<1>10. CASE FlushLive
  <2>1. PICK t \in {"flush", "alarm", "websocket-close"} :
           Dump([IdleJob EXCEPT !.op = "flush", !.cell = liveCell,
                                !.src = lastDirtySrc, !.trigger = t],
                glue.heap, TRUE, IdleJob)
    BY <1>10 DEF FlushLive
  <2> DEFINE j == [IdleJob EXCEPT !.op = "flush", !.cell = liveCell,
                                  !.src = lastDirtySrc, !.trigger = t]
  <2>2. liveCell \in Int /\ lastDirtySrc \in Nat
    BY DEF IInv, TypeOK
  <2>3. j \in JobType
    BY <2>2, IdleJobType DEF JobType
  <2>4. j.pc = "idle"
    BY DEF IdleJob
  <2>5. glue.live /\ manifest' = manifest /\ acked' = acked
    BY <1>10 DEF FlushLive, tables, observed
  <2>6. Elements(CommittedImage) \subseteq Elements(glue.heap)
    BY <2>5 DEF LineageInv
  <2> HIDE DEF j
  <2>7. Dump(j, glue.heap, TRUE, IdleJob)
    BY <2>1 DEF j
  <2> QED BY <2>3, <2>4, <2>5, <2>6, <2>7, DumpLineage
<1>11. CASE BeginReset
  <2>1. ~HasManifest' /\ ~glue'.live /\ acked' = <<>> /\ job'.pc \in {"reset", "idle"}
    <3>1. manifest' = NoManifest /\ glue' = NoGlue /\ acked' = <<>>
      BY <1>11 DEF BeginReset
    <3>2. job' \in {IdleJob, [IdleJob EXCEPT !.pc = "reset", !.op = "reset",
                                            !.oldKey = manifest.key]}
      BY <1>11 DEF BeginReset, NewEpoch
    <3>3. job'.pc \in {"reset", "idle"}
      BY <3>2, ResetJob
    <3> QED BY <3>1, <3>3 DEF NoManifest, HasManifest, NoGlue
  <2>2. AckedSurvives'
    BY <2>1 DEF AckedSurvives, Elements
  <2> QED BY <2>1, <2>2 DEF LineageInv
<1>12. CASE FinishReset \/ Evict \/ Crash
  <2>1. manifest' = manifest /\ acked' = acked
        /\ (glue'.live => glue.live /\ glue'.heap = glue.heap)
    BY <1>12 DEF FinishReset, Evict, Crash, tables, observed, NoGlue
  <2>2. job' \in {job, IdleJob}
    BY <1>12 DEF FinishReset, Evict, Crash, NewEpoch
  <2> QED BY <2>1, <2>2, QuietLineage DEF IdleJob
<1>13. CASE UNCHANGED vars
  BY <1>13, QuietLineage DEF vars, tables, observed
<1> QED BY <1>1, <1>2, <1>3, <1>4, <1>5, <1>6, <1>7, <1>8, <1>9, <1>10, <1>11, <1>12,
           <1>13 DEF Next, Restore, EvalReturns, Checkpoint, Flush

(* Nothing is committed at first.                                          *)
LEMMA InitLineage == Init => LineageInv
BY DEF Init, LineageInv, HasManifest, NoManifest, NoGlue, Checkpointing, IdleJob,
   AckedSurvives, Elements, CommittedImage

(* Without fallback, everything committed is in the live heap.             *)
LEMMA SpecLineage == ASSUME NoFallback PROVE Spec => [](IInv /\ LineageInv)
<1>1. Init => IInv /\ LineageInv
  BY InitIInv, InitLineage
<1>2. IInv /\ LineageInv /\ [Next]_vars => IInv' /\ LineageInv'
  BY NextIInv, NextLineage
<1> QED BY <1>1, <1>2, PTL DEF Spec

(* Everything a reply called durable is part of what a cold wake restores. *)
THEOREM AckedAlwaysSurvives == ASSUME NoFallback PROVE Spec => []AckedSurvives
<1>1. IInv /\ LineageInv => AckedSurvives
  BY DEF LineageInv
<1> QED BY <1>1, SpecLineage, PTL

(* A cold wake brings back exactly the committed heap.                     *)
THEOREM RestoresCommitted == ASSUME NoFallback PROVE Spec => RestoreRecoversCommitted
<1> DEFINE Recovers == ColdStart /\ glue'.live => glue'.heap = CommittedImage
<1>1. IInv /\ LineageInv /\ [Next]_vars => [Recovers]_vars
  <2> SUFFICES ASSUME IInv, LineageInv, Next, ColdStart, glue'.live
               PROVE  glue'.heap = CommittedImage
    BY DEF vars
  <2>1. \/ CreateFresh \/ RestoreBytes \/ ReplayR2Unavailable
        \/ ReplayEngineMigration \/ ReplaySanityFallback
    BY DEF ColdStart, Next, Restore, EvalReturns, Checkpoint, Flush, BeginEval, BeginCreate,
       EnsureWarm, EvalReturnsBuffered, EvalReturnsEager, EvalTraps, PutBase, PutBaseFails,
       VerifyBase, CommitDelta, CommitBase, Promote, DeleteOldBase, FlushClean, FlushLost,
       FlushLive, FlushTrigger, BeginReset, FinishReset, Evict, Crash, NoGlue
  <2>2. PICK last \in {NoImage, CommittedImage} : Restored(CommittedImage, last)
    BY <2>1, ColdWake
  <2> QED BY <2>2 DEF Restored
<1> QED BY <1>1, SpecLineage, PTL DEF Spec, RestoreRecoversCommitted

-----------------------------------------------------------------------------
(* Artifact handles.  Admitted rules out the dumps the size gates refuse:  *)
(* their handles are stamped all the same, and the next cell gets their    *)
(* number.                                                                 *)
Admitted == \A shape \in Shapes : shape.admitted

EndsWith(s, e) == Len(s) > 0 /\ s[Len(s)] = e

(* A checkpoint that carries artifacts is one of the cell that made them,  *)
(* and that cell is the last of its image.                                 *)
ArtifactJob ==
    (Checkpointing \/ Committed) /\ job.artifact => job.op = "eval" /\ EndsWith(job.image, job.src)

(* Handles are given out for committed cells only, in one epoch; the one   *)
(* of the committed cell names the last cell of the committed image, and   *)
(* while lastArtifactCell says so the live heap is that image.             *)
ArtifactInv ==
    /\ ArtifactJob
    /\ job.pc = "reset" => handles = {}
    /\ Committed => committedCell >= 0
    /\ \A h \in handles : 0 <= h.cell /\ h.cell <= committedCell
    /\ \A h \in handles : h.cell = committedCell => EndsWith(CommittedImage, h.src)
    /\ lastArtifactCell <= committedCell
    /\ glue.live /\ ~Checkpointing /\ lastArtifactCell = committedCell /\ committedCell >= 0
          => glue.heap = CommittedImage

(* A step that commits nothing and hands nothing out.                      *)
LEMMA QuietArtifacts ==
    ASSUME IInv, ArtifactInv, ArtifactJob', manifest' = manifest, committedCell' = committedCell,
           handles' = handles, job'.pc = "reset" => job.pc = "reset", Committed' => Committed,
           lastArtifactCell' \in {lastArtifactCell, -1},
           \/ ~glue'.live \/ Checkpointing' \/ lastArtifactCell' = -1
           \/ glue'.heap = CommittedImage
           \/ glue.live /\ ~Checkpointing /\ glue'.heap = glue.heap
    PROVE  ArtifactInv'
<1>1. CommittedImage' = CommittedImage
  BY CommittedUnchanged
<1>2. committedCell >= -1 /\ committedCell \in Int /\ lastArtifactCell \in Int
  BY DEF IInv, StoreInv, TypeOK
<1>3. lastArtifactCell' <= committedCell'
  BY <1>2 DEF ArtifactInv
<1>4. /\ job'.pc = "reset" => handles' = {}
      /\ Committed' => committedCell' >= 0
      /\ \A h \in handles' : 0 <= h.cell /\ h.cell <= committedCell'
      /\ \A h \in handles' : h.cell = committedCell' => EndsWith(CommittedImage', h.src)
  BY <1>1 DEF ArtifactInv
<1>5. ASSUME glue'.live, ~Checkpointing', lastArtifactCell' = committedCell', committedCell' >= 0
      PROVE  glue'.heap = CommittedImage'
  <2>1. lastArtifactCell' # -1 /\ lastArtifactCell = committedCell /\ committedCell >= 0
    BY <1>2, <1>5
  <2> QED BY <1>1, <1>5, <2>1 DEF ArtifactInv
<1> QED BY <1>3, <1>4, <1>5 DEF ArtifactInv, EndsWith

(* An admitted dump goes on to commit img for j.                           *)
LEMMA DumpArtifacts ==
    ASSUME Admitted, NEW j \in JobType, NEW img, NEW forced, Dump(j, img, forced, IdleJob)
    PROVE  /\ job'.pc \in {"put", "txn"} /\ job'.artifact = j.artifact /\ job'.op = j.op
           /\ job'.src = j.src /\ job'.image = img
<1>1. PICK p \in {"put", "txn"}, m \in {"delta", "full"} :
         job' = [j EXCEPT !.pc = p, !.mode = m, !.prev = glue.last, !.image = img]
  BY DEF Dump, Admitted
<1> QED BY <1>1 DEF JobType

LEMMA FinishArtifacts ==
    ASSUME IInv, ArtifactInv, Committed, Finish, glue'.live => glue.live /\ glue'.heap = glue.heap
    PROVE  ArtifactInv'
<1>1. /\ job.cell = committedCell /\ job.image = manifest.crc /\ HasManifest
      /\ glue.live => glue.heap = job.image
  BY DEF IInv, JobInv
<1>2. /\ manifest' = manifest /\ committedCell' = committedCell /\ job' = IdleJob
      /\ handles' = Stamped(job)
      /\ job.op # "eval" => lastArtifactCell' = lastArtifactCell
      /\ job.op = "eval" => lastArtifactCell' = IF job.artifact THEN job.cell ELSE -1
  BY DEF Finish, tables
<1>3. CommittedImage' = CommittedImage /\ CommittedImage = job.image
  BY <1>1, <1>2, CommittedUnchanged DEF CommittedImage
<1>4. committedCell >= -1 /\ committedCell \in Int /\ lastArtifactCell \in Int
  BY DEF IInv, StoreInv, TypeOK
<1>5. job.artifact => job.op = "eval" /\ EndsWith(job.image, job.src)
  BY DEF ArtifactInv, ArtifactJob
<1>6. committedCell >= 0
  BY DEF ArtifactInv
<1>7. ASSUME NEW h \in handles'
      PROVE  /\ 0 <= h.cell /\ h.cell <= committedCell
             /\ h.cell = committedCell => EndsWith(CommittedImage, h.src)
  <2>1. CASE h \in handles
    BY <2>1 DEF ArtifactInv
  <2>2. CASE h \notin handles
    <3>1. job.artifact /\ h = [cell |-> job.cell, src |-> job.src]
      BY <1>2, <1>7, <2>2 DEF Stamped
    <3>2. h.cell = committedCell /\ h.src = job.src
      BY <1>1, <3>1
    <3> QED BY <1>3, <1>4, <1>5, <1>6, <3>1, <3>2
  <2> QED BY <2>1, <2>2
<1>8. lastArtifactCell' <= committedCell
  BY <1>1, <1>2, <1>4 DEF ArtifactInv
<1>9. glue'.live => glue'.heap = CommittedImage
  BY <1>1, <1>3
<1>10. job'.pc = "idle"
  BY <1>2 DEF IdleJob
<1> QED
  BY <1>2, <1>3, <1>7, <1>8, <1>9, <1>10
  DEF ArtifactInv, ArtifactJob, Checkpointing, Committed, EndsWith

LEMMA NextArtifacts ==
    ASSUME NoFallback, Admitted, IInv, LineageInv, ArtifactInv, [Next]_vars
    PROVE  ArtifactInv'
<1>0. glue \in GlueType /\ job \in JobType /\ glue.heap \in Image
  BY DEF IInv, TypeOK, GlueType
<1>1. CASE BeginEval \/ BeginCreate
  <2>1. /\ manifest' = manifest /\ committedCell' = committedCell /\ handles' = handles
        /\ lastArtifactCell' = lastArtifactCell /\ glue' = glue /\ job.pc = "idle" /\ job'.pc = "restore"
    BY <1>1 DEF BeginEval, BeginCreate, tables, meta, observed, IdleJob
  <2> QED BY <2>1, QuietArtifacts DEF ArtifactJob, Checkpointing, Committed
<1>2. CASE EnsureWarm
  <2>1. /\ manifest' = manifest /\ committedCell' = committedCell /\ handles' = handles
        /\ lastArtifactCell' = lastArtifactCell /\ glue' = glue /\ job.pc = "restore" /\ job' = AfterRestore
    BY <1>2 DEF EnsureWarm, tables, meta, observed
  <2>2. job'.pc \in {"idle", "eval"}
    BY <2>1, <1>0 DEF AfterRestore, IdleJob, JobType
  <2> QED BY <2>1, <2>2, QuietArtifacts DEF ArtifactJob, Checkpointing, Committed
<1>3. CASE \/ CreateFresh \/ RestoreBytes \/ ReplayR2Unavailable
           \/ ReplayEngineMigration \/ ReplaySanityFallback
  <2>1. PICK last \in {NoImage, CommittedImage} : Restored(CommittedImage, last)
    BY <1>3, ColdWake
  <2>2. /\ manifest' = manifest /\ committedCell' = committedCell /\ handles' = handles
        /\ lastArtifactCell' = lastArtifactCell /\ glue'.heap = CommittedImage /\ job' = AfterRestore
    BY <2>1 DEF Restored, tables, observed
  <2>3. job'.pc \in {"idle", "eval"}
    BY <2>2, <1>0 DEF AfterRestore, IdleJob, JobType
  <2> QED BY <2>2, <2>3, QuietArtifacts DEF ArtifactJob, Checkpointing, Committed
<1>4. CASE EvalReturnsBuffered
  <2>1. /\ manifest' = manifest /\ committedCell' = committedCell /\ handles' = handles
        /\ lastArtifactCell' = -1 /\ job'.pc = "idle"
    BY <1>4 DEF EvalReturnsBuffered, tables, observed, IdleJob
  <2> QED BY <2>1, QuietArtifacts DEF ArtifactJob, Checkpointing, Committed
<1>5. CASE EvalReturnsEager
  <2>1. PICK artifact \in {FALSE, Artifacts} :
           /\ Dump([job EXCEPT !.artifact = artifact], Append(glue.heap, job.src), FALSE, IdleJob)
           /\ handles' = IF job'.pc = "idle" THEN Stamped([job EXCEPT !.artifact = artifact]) ELSE handles
    BY <1>5 DEF EvalReturnsEager
  <2>2. job.pc = "eval" /\ manifest' = manifest /\ committedCell' = committedCell
        /\ lastArtifactCell' = lastArtifactCell
    BY <1>5 DEF EvalReturnsEager, tables, meta
  <2> DEFINE j == [job EXCEPT !.artifact = artifact]
             img == Append(glue.heap, job.src)
  <2>3. artifact \in BOOLEAN
    BY ConstantsAssumption DEF ConstantsAssumption
  <2>4. j \in JobType /\ j.op = job.op /\ j.src = job.src
    BY <1>0, <2>3 DEF JobType
  <2>5. job.op = "eval" /\ EndsWith(img, job.src)
    <3>1. job.op = "eval" /\ job.src \in Eval
      BY <2>2, RunImage DEF Eval
    <3> QED BY <1>0, <3>1 DEF EndsWith, Image
  <2> HIDE DEF j, img
  <2>6. Dump(j, img, FALSE, IdleJob)
    BY <2>1 DEF j, img
  <2>7. /\ job'.pc \in {"put", "txn"} /\ job'.op = j.op /\ job'.src = j.src /\ job'.image = img
    BY <2>4, <2>6, DumpArtifacts
  <2>8. ArtifactJob' /\ Checkpointing' /\ ~Committed' /\ handles' = handles
    BY <2>1, <2>4, <2>5, <2>7 DEF ArtifactJob, Checkpointing, Committed, EndsWith
  <2> QED BY <2>2, <2>7, <2>8, QuietArtifacts
<1>6. CASE EvalTraps \/ PutBase \/ PutBaseFails \/ VerifyBase
  <2>1. /\ manifest' = manifest /\ committedCell' = committedCell /\ glue' = glue
        /\ lastArtifactCell' = lastArtifactCell /\ handles' = handles
    BY <1>6 DEF EvalTraps, PutBase, PutBaseFails, VerifyBase, tables, meta, observed, NoFallback
  <2>2. CASE EvalTraps
    <3>1. job.pc = "eval" /\ job'.pc = "trapped"
      BY <1>0, <2>2 DEF EvalTraps, JobType
    <3> QED BY <2>1, <3>1, QuietArtifacts DEF ArtifactJob, Checkpointing, Committed
  <2>3. CASE PutBase \/ VerifyBase
    <3>1. /\ job.pc \in {"put", "verify"} /\ job'.pc \in {"verify", "txn"}
          /\ job'.artifact = job.artifact /\ job'.op = job.op /\ job'.src = job.src
          /\ job'.image = job.image
      <4>1. CASE PutBase
        BY <1>0, <4>1 DEF PutBase, JobType
      <4>2. CASE VerifyBase
        BY <1>0, <4>2 DEF VerifyBase, JobType
      <4> QED BY <2>3, <4>1, <4>2
    <3>2. ArtifactJob' /\ Checkpointing' /\ ~Committed'
      BY <3>1 DEF ArtifactInv, ArtifactJob, Checkpointing, Committed, EndsWith
    <3> QED BY <2>1, <3>1, <3>2, QuietArtifacts
  <2>4. CASE PutBaseFails
    BY <2>4 DEF PutBaseFails, NoFallback
  <2> QED BY <1>6, <2>2, <2>3, <2>4
<1>7. CASE CommitDelta \/ CommitBase
  <2>1. /\ job.pc = "txn" /\ handles' = handles /\ glue' = glue /\ committedCell' = job.cell
        /\ lastArtifactCell' = lastArtifactCell
    BY <1>7 DEF CommitDelta, CommitBase, observed
  <2>2. /\ job'.pc = "promote" /\ job'.artifact = job.artifact /\ job'.op = job.op
        /\ job'.src = job.src /\ job'.image = job.image
    BY <1>0, <1>7 DEF CommitDelta, CommitBase, JobType
  <2>3. job.cell > committedCell /\ committedCell >= -1 /\ committedCell \in Int /\ job.cell \in Int
    BY <2>1, TxnFacts
  <2>4. ArtifactJob' /\ ~Checkpointing'
    BY <2>1, <2>2 DEF ArtifactInv, ArtifactJob, Checkpointing, Committed, EndsWith
  <2>5. \A h \in handles : h.cell \in Int /\ 0 <= h.cell /\ h.cell <= committedCell
    BY DEF ArtifactInv, IInv, TypeOK
  <2>6. \A h \in handles' : 0 <= h.cell /\ h.cell <= committedCell' /\ h.cell # committedCell'
    BY <2>1, <2>3, <2>5
  <2>7. lastArtifactCell' <= committedCell' /\ lastArtifactCell' # committedCell' /\ committedCell' >= 0
    BY <2>1, <2>3 DEF ArtifactInv, IInv, TypeOK
  <2> QED BY <2>2, <2>4, <2>6, <2>7 DEF ArtifactInv
<1>8. CASE Promote \/ DeleteOldBase
  <2>1. Committed
    BY <1>8 DEF Promote, DeleteOldBase, Committed
  <2>2. glue'.live => glue.live /\ glue'.heap = glue.heap
    BY <1>0, <1>8 DEF Promote, DeleteOldBase, CommitDump, GlueType
  <2>3. CASE Finish
    BY <2>1, <2>2, <2>3, FinishArtifacts
  <2>4. CASE ~Finish
    <3>1. /\ job' = [job EXCEPT !.pc = "deleteOld"] /\ job.pc = "promote"
          /\ manifest' = manifest /\ committedCell' = committedCell
          /\ handles' = handles /\ lastArtifactCell' = lastArtifactCell
      BY <1>8, <2>4 DEF Promote, DeleteOldBase, tables, meta, observed
    <3>2. /\ job'.pc = "deleteOld" /\ job'.artifact = job.artifact /\ job'.op = job.op
          /\ job'.src = job.src /\ job'.image = job.image
      BY <1>0, <3>1 DEF JobType
    <3>3. ArtifactJob' /\ ~Checkpointing /\ ~Checkpointing'
      BY <3>1, <3>2 DEF ArtifactInv, ArtifactJob, Checkpointing, Committed, EndsWith
    <3> QED BY <2>1, <2>2, <3>1, <3>2, <3>3, QuietArtifacts
  <2> QED BY <2>3, <2>4
<1>9. CASE FlushClean \/ FlushLost
  <2>1. /\ manifest' = manifest /\ committedCell' = committedCell /\ handles' = handles
        /\ lastArtifactCell' = lastArtifactCell /\ glue' = glue /\ job' = job /\ job.pc = "idle"
    BY <1>9 DEF FlushClean, FlushLost, FlushTrigger, tables, meta, observed
  <2> QED BY <2>1, QuietArtifacts DEF ArtifactJob, Checkpointing, Committed
<1>10. CASE FlushLive
  <2>1. PICK t \in {"flush", "alarm", "websocket-close"} :
           Dump([IdleJob EXCEPT !.op = "flush", !.cell = liveCell,
                                !.src = lastDirtySrc, !.trigger = t],
                glue.heap, TRUE, IdleJob)
    BY <1>10 DEF FlushLive
  <2> DEFINE j == [IdleJob EXCEPT !.op = "flush", !.cell = liveCell,
                                  !.src = lastDirtySrc, !.trigger = t]
  <2>2. liveCell \in Int /\ lastDirtySrc \in Nat
    BY DEF IInv, TypeOK
  <2>3. j \in JobType
    BY <2>2, IdleJobType DEF JobType
  <2>4. j.artifact = FALSE
    BY DEF IdleJob
  <2> HIDE DEF j
  <2>5. Dump(j, glue.heap, TRUE, IdleJob)
    BY <2>1 DEF j
  <2>6. job'.pc \in {"put", "txn"} /\ job'.artifact = FALSE
    BY <2>3, <2>4, <2>5, DumpArtifacts
  <2>7. /\ manifest' = manifest /\ committedCell' = committedCell /\ handles' = handles
        /\ lastArtifactCell' = lastArtifactCell
    BY <1>10 DEF FlushLive, tables, meta, observed
  <2>8. ArtifactJob' /\ Checkpointing' /\ ~Committed'
    BY <2>6 DEF ArtifactJob, Checkpointing, Committed
  <2> QED BY <2>6, <2>7, <2>8, QuietArtifacts
<1>11. CASE BeginReset
  <2>1. handles' = {} /\ ~glue'.live
    BY <1>11 DEF BeginReset, NoGlue
  <2>2. job' \in {IdleJob, [IdleJob EXCEPT !.pc = "reset", !.op = "reset",
                                          !.oldKey = manifest.key]}
    BY <1>11 DEF BeginReset, NewEpoch
  <2>3. job'.pc \in {"reset", "idle"}
    BY <2>2, ResetJob
  <2>4. lastArtifactCell' <= committedCell'
    BY <1>11 DEF BeginReset, NewEpoch, meta, ArtifactInv
  <2> QED BY <2>1, <2>3, <2>4 DEF ArtifactInv, ArtifactJob, Checkpointing, Committed
<1>12. CASE FinishReset
  <2>1. /\ job.pc = "reset" /\ job'.pc = "idle" /\ handles' = handles /\ glue' = glue
        /\ lastArtifactCell' = -1 /\ committedCell' = -1
    BY <1>12 DEF FinishReset, NewEpoch, observed, IdleJob
  <2>2. handles = {}
    BY <2>1 DEF ArtifactInv
  <2> QED BY <2>1, <2>2 DEF ArtifactInv, ArtifactJob, Checkpointing, Committed
<1>13. CASE Evict \/ Crash
  <2>1. /\ manifest' = manifest /\ committedCell' = committedCell /\ handles' = handles
        /\ lastArtifactCell' = lastArtifactCell /\ ~glue'.live /\ job' \in {job, IdleJob}
    BY <1>13 DEF Evict, Crash, tables, meta, observed, NoGlue
  <2>2. ArtifactJob' /\ (job'.pc = "reset" => job.pc = "reset") /\ (Committed' => Committed)
    <3>1. CASE job' = job
      BY <3>1 DEF ArtifactInv, ArtifactJob, Checkpointing, Committed, EndsWith
    <3>2. CASE job' = IdleJob
      BY <3>2 DEF ArtifactJob, Checkpointing, Committed, IdleJob
    <3> QED BY <2>1, <3>1, <3>2
  <2> QED BY <2>1, <2>2, QuietArtifacts
<1>14. CASE UNCHANGED vars
  BY <1>14, CommittedUnchanged DEF vars, meta, tables, observed, ArtifactInv, ArtifactJob, Checkpointing, Committed, EndsWith
<1> QED BY <1>1, <1>2, <1>3, <1>4, <1>5, <1>6, <1>7, <1>8, <1>9, <1>10, <1>11, <1>12,
           <1>13, <1>14 DEF Next, Restore, EvalReturns, Checkpoint, Flush

(* The last artifact of a heap that ends with one.                         *)
LEMMA LastIsLast ==
    ASSUME NEW s \in Image, NEW h \in handles, EndsWith(s, h.src)
    PROVE  h.src \in Elements(s) /\ LastArtifact(s) = h.src
<1> DEFINE made == {i \in 1..Len(s) : \E g \in handles : g.src = s[i]}
           n == CHOOSE i \in made : \A k \in made : k <= i
<1>1. Len(s) \in Nat /\ Len(s) \in 1..Len(s) /\ s[Len(s)] = h.src
  BY DEF EndsWith, Image
<1>2. Len(s) \in made /\ \A k \in made : k <= Len(s)
  BY <1>1
<1>3. made \subseteq Nat
  OBVIOUS
<1>4. LastArtifact(s) = s[n]
  BY DEF LastArtifact
<1> HIDE DEF made
<1>5. n \in made /\ \A k \in made : k <= n
  BY <1>2
<1> HIDE DEF n
<1>6. n = Len(s)
  BY <1>1, <1>2, <1>3, <1>5
<1> QED BY <1>1, <1>4, <1>6 DEF Elements

(* When artifact_critical accepts a handle, the text in the heap is the    *)
(* one that handle was given out for: no buffered, interrupted or later    *)
(* cell, flush, crash, restore or reset makes an old handle resolve to     *)
(* another cell's text, as long as no checkpoint of an artifact is         *)
(* refused (eval_critical, artifact_critical).                             *)
THEOREM ArtifactsServeTheirCell ==
    ASSUME NoFallback, Admitted
    PROVE  Spec => []ArtifactServesItsCell
<1>1. Init => ArtifactInv
  BY DEF Init, ArtifactInv, ArtifactJob, Checkpointing, Committed, IdleJob, NoGlue
<1>2. IInv /\ LineageInv /\ ArtifactInv /\ [Next]_vars => ArtifactInv'
  BY NextArtifacts
<1>3. IInv /\ ArtifactInv => ArtifactServesItsCell
  <2> SUFFICES ASSUME IInv, ArtifactInv, job.pc = "idle", glue.live, NEW h \in handles,
                      h.cell = committedCell, h.cell = lastArtifactCell
               PROVE  h.src \in Elements(glue.heap) /\ LastArtifact(glue.heap) = h.src
    BY DEF ArtifactServesItsCell
  <2>1. glue.heap \in Image
    BY DEF IInv, TypeOK, GlueType
  <2>2. glue.heap = CommittedImage /\ EndsWith(CommittedImage, h.src)
    BY DEF ArtifactInv, Checkpointing
  <2> QED BY <2>1, <2>2, LastIsLast
<1> QED BY <1>1, <1>2, <1>3, SpecLineage, PTL DEF Spec

-----------------------------------------------------------------------------
(* The refinement mapping of Session, by name.                             *)
Live == IF glue.live THEN glue.heap ELSE CommittedImage
Snapshot == IF job.pc \in {"put", "verify", "txn"} THEN job.image ELSE NoImage

(* What a step of the session is, in terms of the mapping.                 *)
LEMMA SessionStep ==
    ASSUME \/ UNCHANGED <<CommittedImage, Live, Snapshot>>
           \/ /\ Snapshot = NoImage /\ UNCHANGED CommittedImage
              /\ \E e \in 1..MaxEvals : Live' = Append(Live, e)
              /\ Snapshot' \in {NoImage, Live'}
           \/ /\ Snapshot = NoImage /\ Snapshot' = Live
              /\ UNCHANGED <<CommittedImage, Live>>
           \/ /\ Snapshot # NoImage /\ Snapshot' = NoImage
              /\ CommittedImage' = Snapshot /\ Live' = Snapshot
           \/ /\ Live' = CommittedImage /\ UNCHANGED CommittedImage
              /\ Snapshot' \in {NoImage, Snapshot}
           \/ CommittedImage' = <<>> /\ Live' = <<>> /\ Snapshot' = NoImage
    PROVE  [Session!Next]_(Session!vars)
BY DEF Session!Next, Session!vars, Session!Run, Session!TakeSnapshot, Session!Commit,
   Session!Lose, Session!Wipe, Live, Snapshot

(* A step that leaves the manifest, the kernel and the image of a running  *)
(* checkpoint alone is invisible in the session.                           *)
LEMMA SessionStutter ==
    ASSUME manifest' = manifest, glue' = glue, Snapshot' = Snapshot
    PROVE  [Session!Next]_(Session!vars)
<1>1. CommittedImage' = CommittedImage
  BY CommittedUnchanged
<1> QED BY <1>1, SessionStep DEF Live

(* Dump either snapshots img or leaves a failed checkpoint behind.         *)
LEMMA DumpSession ==
    ASSUME IInv, NEW j \in JobType, NEW img \in Image, NEW forced \in BOOLEAN, glue.live,
           Dump(j, img, forced, IdleJob)
    PROVE  Live' = img /\ Snapshot' \in {NoImage, img}
<1>1. glue \in GlueType
  BY DEF IInv, TypeOK
<1>2. glue'.live /\ glue'.heap = img
  BY <1>1 DEF Dump, GlueType
<1>3. job'.image = img \/ job' = IdleJob
  BY DEF Dump, JobType
<1> QED BY <1>2, <1>3 DEF Live, Snapshot, IdleJob

(* Without fallback, every step of the kernel is a step of the session.    *)
LEMMA NextSession ==
    ASSUME NoFallback, IInv, LineageInv, [Next]_vars
    PROVE  [Session!Next]_(Session!vars)
<1>0. glue \in GlueType /\ job \in JobType /\ glue.heap \in Image /\ NoImage \notin Image
  BY DEF IInv, TypeOK, GlueType, NoImage, Image, Eval
<1>1. CASE BeginEval \/ BeginCreate
  <2>1. manifest' = manifest /\ glue' = glue /\ job.pc = "idle" /\ job'.pc = "restore"
    BY <1>1 DEF BeginEval, BeginCreate, tables, IdleJob
  <2> QED BY <2>1, SessionStutter DEF Snapshot
<1>2. CASE EnsureWarm
  <2>1. manifest' = manifest /\ glue' = glue /\ job' = AfterRestore /\ job.pc = "restore"
    BY <1>2 DEF EnsureWarm, tables
  <2>2. job'.pc \in {"idle", "eval"}
    BY <2>1, <1>0 DEF AfterRestore, IdleJob, JobType
  <2> QED BY <2>1, <2>2, SessionStutter DEF Snapshot
<1>3. CASE \/ CreateFresh \/ RestoreBytes \/ ReplayR2Unavailable
           \/ ReplayEngineMigration \/ ReplaySanityFallback
  <2>1. PICK last \in {NoImage, CommittedImage} : Restored(CommittedImage, last)
    BY <1>3, ColdWake
  <2>2. manifest' = manifest /\ job' = AfterRestore
        /\ glue'.live /\ glue'.heap = CommittedImage
    BY <2>1 DEF Restored, tables
  <2>3. job'.pc \in {"idle", "eval"}
    BY <2>2, <1>0 DEF AfterRestore, IdleJob, JobType
  <2>4. job.pc = "restore" /\ ~glue.live
    BY <1>3 DEF CreateFresh, RestoreBytes, ReplayR2Unavailable, ReplayEngineMigration,
       ReplaySanityFallback, ColdStart
  <2>5. CommittedImage' = CommittedImage
    BY <2>2, CommittedUnchanged
  <2> QED BY <2>2, <2>3, <2>4, <2>5, SessionStep DEF Live, Snapshot
<1>4. CASE EvalReturnsBuffered
  <2>1. manifest' = manifest /\ job' = IdleJob /\ job.pc = "eval"
    BY <1>4 DEF EvalReturnsBuffered, tables
  <2>2. CommittedImage' = CommittedImage /\ Snapshot = NoImage /\ Snapshot' = NoImage
    BY <2>1, CommittedUnchanged DEF Snapshot, IdleJob
  <2>3. Live' = IF glue.live THEN Append(Live, job.src) ELSE Live
    BY <1>0, <1>4, <2>2 DEF EvalReturnsBuffered, GlueType, Live
  <2>4. job.src \in 1..MaxEvals
    BY <2>1, RunImage, ConstantsAssumption DEF IInv, TypeOK, ConstantsAssumption
  <2> QED BY <2>2, <2>3, <2>4, SessionStep
<1>5. CASE EvalReturnsEager
  <2>1. PICK artifact \in {FALSE, Artifacts} :
           Dump([job EXCEPT !.artifact = artifact], Append(glue.heap, job.src), FALSE, IdleJob)
    BY <1>5 DEF EvalReturnsEager
  <2>2. job.pc = "eval" /\ glue.live /\ UNCHANGED tables
    BY <1>5 DEF EvalReturnsEager
  <2>3. artifact \in BOOLEAN
    BY ConstantsAssumption DEF ConstantsAssumption
  <2>4. [job EXCEPT !.artifact = artifact] \in JobType
    BY <1>0, <2>3, EagerJob
  <2>5. Append(glue.heap, job.src) \in Image /\ job.src \in 1..MaxEvals
    BY <2>2, RunImage, ConstantsAssumption DEF IInv, TypeOK, ConstantsAssumption
  <2>6. Live' = Append(glue.heap, job.src) /\ Snapshot' \in {NoImage, Append(glue.heap, job.src)}
    BY <2>1, <2>2, <2>4, <2>5, DumpSession
  <2>7. CommittedImage' = CommittedImage /\ Snapshot = NoImage /\ Live = glue.heap
    BY <2>2, CommittedUnchanged DEF Snapshot, Live, tables
  <2> QED BY <2>5, <2>6, <2>7, SessionStep
<1>6. CASE EvalTraps \/ PutBase \/ PutBaseFails \/ VerifyBase
  <2>1. manifest' = manifest /\ glue' = glue
    BY <1>6 DEF EvalTraps, PutBase, PutBaseFails, VerifyBase, tables
  <2>2. CASE EvalTraps
    BY <1>0, <2>1, <2>2, SessionStutter DEF EvalTraps, JobType, Snapshot
  <2>3. CASE PutBase
    BY <1>0, <2>1, <2>3, SessionStutter DEF PutBase, JobType, Snapshot
  <2>4. CASE PutBaseFails
    BY <2>4 DEF PutBaseFails, NoFallback
  <2>5. CASE VerifyBase
    BY <1>0, <2>1, <2>5, SessionStutter DEF VerifyBase, JobType, Snapshot
  <2> QED BY <1>6, <2>2, <2>3, <2>4, <2>5
<1>7. CASE CommitDelta \/ CommitBase
  <2>1. job.pc = "txn" /\ glue' = glue /\ job'.pc = "promote"
    BY <1>0, <1>7 DEF CommitDelta, CommitBase, JobType
  <2>2. manifest'.crc = job.image /\ HasManifest'
    <3>1. CASE CommitDelta
      BY <3>1 DEF CommitDelta, IInv, TypeOK, ManifestType, JobInv, HasManifest
    <3>2. CASE CommitBase
      BY <3>2 DEF CommitBase, HasManifest
    <3> QED BY <1>7, <3>1, <3>2
  <2>3. CommittedImage' = job.image
    BY <2>2 DEF CommittedImage
  <2>4. (glue.live => glue.heap = job.image) /\ job.image \in Image
    BY <2>1 DEF IInv, JobInv, Checkpointing
  <2>5. Snapshot = job.image /\ Snapshot' = NoImage /\ Live' = job.image
    BY <2>1, <2>3, <2>4 DEF Snapshot, Live
  <2> QED BY <1>0, <2>3, <2>4, <2>5, SessionStep
<1>8. CASE Promote \/ DeleteOldBase
  <2>1. manifest' = manifest /\ Snapshot = NoImage /\ Snapshot' = NoImage
    BY <1>0, <1>8 DEF Promote, DeleteOldBase, Finish, tables, IdleJob, JobType, Snapshot
  <2>2. glue'.live = glue.live /\ glue'.heap = glue.heap
    BY <1>0, <1>8 DEF Promote, DeleteOldBase, CommitDump, GlueType
  <2>3. CommittedImage' = CommittedImage
    BY <2>1, CommittedUnchanged
  <2> QED BY <2>1, <2>2, <2>3, SessionStep DEF Live
<1>9. CASE FlushClean \/ FlushLost
  <2>1. manifest' = manifest /\ glue' = glue /\ job' = job
    BY <1>9 DEF FlushClean, FlushLost, tables
  <2> QED BY <2>1, SessionStutter DEF Snapshot
<1>10. CASE FlushLive
  <2>1. PICK t \in {"flush", "alarm", "websocket-close"} :
           /\ FlushTrigger(t) /\ glue.live
           /\ Dump([IdleJob EXCEPT !.op = "flush", !.cell = liveCell,
                                   !.src = lastDirtySrc, !.trigger = t],
                   glue.heap, TRUE, IdleJob)
    BY <1>10 DEF FlushLive
  <2> DEFINE j == [IdleJob EXCEPT !.op = "flush", !.cell = liveCell,
                                  !.src = lastDirtySrc, !.trigger = t]
  <2>2. liveCell \in Int /\ lastDirtySrc \in Nat
    BY DEF IInv, TypeOK
  <2>3. j \in JobType
    BY <2>2, IdleJobType DEF JobType
  <2>4. manifest' = manifest /\ job.pc = "idle"
    BY <1>10, <2>1 DEF FlushLive, FlushTrigger, tables
  <2> HIDE DEF j
  <2>5. Dump(j, glue.heap, TRUE, IdleJob)
    BY <2>1 DEF j
  <2>6. Live' = glue.heap /\ Snapshot' \in {NoImage, glue.heap}
    BY <1>0, <2>1, <2>3, <2>5, DumpSession
  <2>7. CommittedImage' = CommittedImage /\ Snapshot = NoImage /\ Live = glue.heap
    BY <2>1, <2>4, CommittedUnchanged DEF Snapshot, Live
  <2> QED BY <2>6, <2>7, SessionStep
<1>11. CASE BeginReset
  <2>1. manifest' = NoManifest /\ glue' = NoGlue
    BY <1>11 DEF BeginReset
  <2>2. job' \in {IdleJob, [IdleJob EXCEPT !.pc = "reset", !.op = "reset",
                                          !.oldKey = manifest.key]}
    BY <1>11 DEF BeginReset, NewEpoch
  <2>3. Snapshot' = NoImage
    BY <2>2, ResetJob DEF Snapshot
  <2>4. CommittedImage' = <<>> /\ Live' = <<>>
    BY <2>1 DEF CommittedImage, HasManifest, NoManifest, NoGlue, Live
  <2> QED BY <2>3, <2>4, SessionStep
<1>12. CASE FinishReset
  <2>1. manifest' = manifest /\ glue' = glue /\ job.pc = "reset" /\ job' = IdleJob
    BY <1>12 DEF FinishReset, NewEpoch, tables
  <2> QED BY <2>1, SessionStutter DEF Snapshot, IdleJob
<1>13. CASE Evict \/ Crash
  <2>1. manifest' = manifest /\ ~glue'.live /\ job' \in {job, IdleJob}
    BY <1>13 DEF Evict, Crash, tables, NoGlue
  <2>2. CommittedImage' = CommittedImage
    BY <2>1, CommittedUnchanged
  <2>3. Snapshot' \in {NoImage, Snapshot}
    BY <2>1 DEF Snapshot, IdleJob
  <2> QED BY <2>1, <2>2, <2>3, SessionStep DEF Live
<1>14. CASE UNCHANGED vars
  <2>1. manifest' = manifest /\ glue' = glue /\ job' = job
    BY <1>14 DEF vars, tables
  <2> QED BY <2>1, SessionStutter DEF Snapshot
<1> QED BY <1>1, <1>2, <1>3, <1>4, <1>5, <1>6, <1>7, <1>8, <1>9, <1>10, <1>11, <1>12,
           <1>13, <1>14 DEF Next, Restore, EvalReturns, Checkpoint, Flush

(* The base chunks, the delta chain, the R2 objects and the restarts       *)
(* together implement the session a client is promised.                    *)
THEOREM Refinement == ASSUME NoFallback PROVE Spec => ImplementsDurableSession
<1>1. Init => Session!Init
  BY DEF Init, Session!Init, CommittedImage, HasManifest, NoManifest, NoGlue, IdleJob
<1>2. IInv /\ LineageInv /\ [Next]_vars => [Session!Next]_(Session!vars)
  BY NextSession
<1> QED BY <1>1, <1>2, SpecLineage, PTL DEF Spec, ImplementsDurableSession, Session!Spec
=============================================================================
