---------------------------- MODULE HostFsProofs ----------------------------
(***************************************************************************)
(* The session file system for any number of paths, frames, writes, cells, *)
(* crashes and reconciliations.                                            *)
(*                                                                         *)
(* What holds whenever a client may write (FrameWindow is either value):   *)
(* the types, and that a flush publishes nothing a lost heap had staged.   *)
(* What holds for clients that write only while the session is idle or a   *)
(* cell waits for them: rows do not dangle, and a checkpoint publishes     *)
(* what its heap did to the files.  With one such connection and no failed *)
(* GET, no acknowledged write of the current cell is destroyed.            *)
(***************************************************************************)
EXTENDS HostFs, WellFoundedInduction, TLAPS

-----------------------------------------------------------------------------
(* The handlers: a flush has taken the staged operations and is at a path  *)
(* that has one; a frame under way has a path and a fresh write.           *)
HandlerInv ==
    /\ job.pc = "flush" =>
          /\ job.path \in Paths /\ job.path \notin job.todo /\ job.ops[job.path] # NoOp
          /\ \A p \in job.todo : job.ops[p] # NoOp
          /\ staged = NoOps /\ job.mode = "checkpoint"
    /\ job.pc = "list" => job.mode = "reconcile"
    /\ \A f \in Frames :
          /\ frames[f].pc # "idle" => frames[f].path \in Paths /\ frames[f].write \in Write
          /\ frames[f].pc = "put" => frames[f].body \in Body

(* What is staged while the kernel lives, and what is being flushed, was   *)
(* written by the heap that is live or being committed (0 is in no body).  *)
LiveInv ==
    /\ heapWrites \cup doomed \subseteq 1..writes
    /\ heapWrites \cap doomed = {}
    /\ kernel = "live" => \A p \in Paths : Ids(staged[p]) \subseteq heapWrites \cup {0}
    /\ job.pc = "flush" => \A p \in Paths : Ids(job.ops[p]) \subseteq heapWrites \cup {0}

(* No frame is under way while a checkpoint flushes or a listing is out.   *)
ParkedInv ==
    job.pc \in {"flush", "list"} => \A f \in Frames : frames[f].pc = "idle"

(* RowHasBody, with what a deletion under way and a listing on its way     *)
(* back contribute.                                                        *)
RowInv ==
    /\ RowHasBody
    /\ job.pc = "flush" /\ job.ops[job.path] = Tombstone => rows[job.path] = NoRow
    /\ job.pc = "list" =>
          \A p \in Paths : job.listing[p] # NoBody /\ p \notin foreign => bucket[p] # NoBody

(* What the heap did to p is durable, or there is a reason why not.        *)
Published(p, op, refused, r, b, others) ==
    \/ p \in refused \cup others \/ r[p].origin = "frame"
    \/ op = Tombstone /\ r[p] = NoRow /\ b[p] = NoBody
    \/ r[p].body = op /\ b[p] = op

(* Everything the heap did is staged, or dropped, before a flush; during   *)
(* it, everything is published or still to do.                             *)
HeapInv ==
    /\ job.pc # "flush" =>
          \A p \in Paths : heapOps[p] # NoOp =>
              kernel = "live" /\ (staged[p] = heapOps[p] \/ p \in dropped)
    /\ job.pc = "flush" =>
          \A p \in Paths : heapOps[p] # NoOp /\ p \notin dropped =>
              /\ job.ops[p] = heapOps[p]
              /\ \/ p \in job.todo \cup {job.path}
                 \/ Published(p, heapOps[p], job.refused, rows, bucket, foreign)

(* The acknowledged writes: none is newer than fsVersion, so a flush knows *)
(* whether one came after its cell began; the body a frame is about to put *)
(* has those that are in the file; a listing has their files.              *)
AckInv ==
    /\ \A p \in Paths : \A a \in acked[p] : a.version <= fsVersion
    /\ job.pc = "flush" => /\ job.raced <=> fsVersion > evalStart
                           /\ ~OwnedByFrame(job, rows, job.path)
    /\ job.pc = "list" => \A p \in Paths : acked[p] # {} => job.listing[p] = bucket[p]
    /\ \A f \in Frames : frames[f].pc = "put" =>
          \A a \in acked[frames[f].path] :
              a.write \in Ids(bucket[frames[f].path]) => a.write \in Ids(frames[f].body)

-----------------------------------------------------------------------------
(* Types.                                                                  *)

RowType == [body : BodyType, origin : {"none", "cell", "frame", "reconcile"}]
JobType ==
    [pc : {"idle", "eval", "flush", "export", "list"},
     mode : Durabilities \cup {"none", "checkpoint", "reconcile"},
     ops : [Paths -> OpType], todo : SUBSET Paths, path : 0..NumPaths,
     raced : BOOLEAN, version : Nat, listing : [Paths -> BodyType],
     refused : SUBSET Paths]
FrameType ==
    [pc : {"idle", "get", "put", "export"}, path : 0..NumPaths, write : Nat,
     body : BodyType, version : Nat]
AckType == [write : Write, version : Nat, exported : BOOLEAN]

FsInv == TypeOK /\ HandlerInv

LEMMA Types ==
    TypeOK <=>
    /\ rows \in [Paths -> RowType]
    /\ fsVersion \in Nat /\ exported \in Nat /\ evalStart \in Nat
    /\ dirty \in {"yes", "no"} /\ kernel \in {"live", "none"}
    /\ bucket \in [Paths -> BodyType]
    /\ staged \in [Paths -> OpType] /\ heapOps \in [Paths -> OpType]
    /\ job \in JobType /\ frames \in [Frames -> FrameType]
    /\ evals \in 0..MaxEvals /\ writes \in 0..MaxWrites
    /\ heapWrites \subseteq Write /\ doomed \subseteq Write /\ dropped \subseteq Paths
    /\ acked \in [Paths -> SUBSET AckType]
    /\ foreign \subseteq Paths
BY DEF TypeOK, RowType, JobType, FrameType, AckType

(* What stands for "nothing" is no body.                                   *)
LEMMA Sentinels ==
    /\ NoBody \notin Body /\ Tombstone \notin Body /\ NoOp \notin Body
    /\ NoBody # Tombstone /\ NoBody # NoOp /\ Tombstone # NoOp
    /\ Ids(NoBody) = {0} /\ Ids(Tombstone) = {0} /\ Ids(NoOp) = {0}
<1>1. \A b \in Body : Len(b) = 0 \/ b[1] # 0
  BY DEF Body, Write
<1>2. Len(NoBody) = 1 /\ Len(Tombstone) = 2 /\ Len(NoOp) = 3
  BY DEF NoBody, Tombstone, NoOp
<1>3. NoBody[1] = 0 /\ Tombstone[1] = 0 /\ NoOp[1] = 0
  BY DEF NoBody, Tombstone, NoOp
<1>4. Ids(NoBody) = {0} /\ Ids(Tombstone) = {0} /\ Ids(NoOp) = {0}
  <2>1. 1..1 = {1} /\ 1..2 = {1, 2} /\ 1..3 = {1, 2, 3}
    OBVIOUS
  <2> QED
    BY <1>2, <2>1 DEF Ids, NoBody, Tombstone, NoOp
<1>5. NoBody \notin Body /\ Tombstone \notin Body /\ NoOp \notin Body
  BY <1>1, <1>2, <1>3
<1>6. NoBody # Tombstone /\ NoBody # NoOp /\ Tombstone # NoOp
  BY <1>2
<1> QED
  BY <1>4, <1>5, <1>6

LEMMA IdleTyped ==
    /\ NoOps \in [Paths -> OpType] /\ NoRow \in RowType
    /\ NoBody \in BodyType /\ Body \subseteq BodyType /\ Body \subseteq OpType
    /\ Tombstone \in OpType /\ NoOp \in OpType
    /\ IdleJob \in JobType /\ IdleFrame \in FrameType
BY HostFsAssumption
   DEF NoOps, NoRow, OpType, BodyType, RowType, JobType, FrameType, IdleJob, IdleFrame, Paths

LEMMA IdleFields ==
    /\ IdleJob.pc = "idle" /\ IdleJob.mode = "none" /\ IdleJob.ops = NoOps /\ IdleJob.todo = {}
    /\ IdleJob.path = 0 /\ IdleJob.refused = {}
    /\ IdleFrame.pc = "idle" /\ IdleFrame.path = 0 /\ IdleFrame.write = 0
BY DEF IdleJob, IdleFrame

LEMMA FreshTyped ==
    ASSUME TypeOK, writes < MaxWrites
    PROVE  /\ Fresh \in Write /\ Fresh \in 0..MaxWrites /\ <<Fresh>> \in Body
           /\ Fresh \notin 1..writes /\ Fresh \in 1..Fresh /\ 1..writes \subseteq 1..Fresh
BY HostFsAssumption DEF TypeOK, Fresh, Write, Body

LEMMA JobFields ==
    ASSUME NEW j \in JobType
    PROVE  /\ j.pc \in {"idle", "eval", "flush", "export", "list"}
           /\ j.mode \in Durabilities \cup {"none", "checkpoint", "reconcile"}
           /\ j.ops \in [Paths -> OpType] /\ j.todo \in SUBSET Paths /\ j.path \in 0..NumPaths
           /\ j.raced \in BOOLEAN /\ j.version \in Nat /\ j.listing \in [Paths -> BodyType]
           /\ j.refused \in SUBSET Paths
BY DEF JobType

LEMMA FrameFields ==
    ASSUME NEW fr \in FrameType
    PROVE  /\ fr.pc \in {"idle", "get", "put", "export"} /\ fr.path \in 0..NumPaths
           /\ fr.write \in Nat /\ fr.body \in BodyType /\ fr.version \in Nat
BY DEF FrameType

LEMMA FsInitInv == Init => FsInv
<1> SUFFICES ASSUME Init PROVE FsInv
  OBVIOUS
<1>1. TypeOK
  BY IdleTyped, Types, HostFsAssumption DEF Init
<1>2. HandlerInv
  BY IdleFields DEF Init, HandlerInv
<1> QED
  BY <1>1, <1>2 DEF FsInv

(* Min of the paths that are left.                                         *)
LEMMA MinOfPaths ==
    ASSUME NEW S \in SUBSET Nat, S # {}
    PROVE  Min(S) \in S /\ \A q \in S : Min(S) <= q
<1>1. OpToRel(<, Nat) = {s \in Nat \X Nat : s[1] < s[2]}
  BY DEF OpToRel
<1>2. PICK x \in S : \A y \in S : ~(<<y, x>> \in OpToRel(<, Nat))
  BY WFMin, NatLessThanWellFounded
<1>3. ASSUME NEW y \in S, ~(x <= y) PROVE FALSE
  <2>1. <<y, x>> \in Nat \X Nat /\ y < x
    BY <1>3
  <2>2. <<y, x>> \in OpToRel(<, Nat)
    BY <1>1, <2>1
  <2> QED
    BY <1>2, <2>2
<1> QED
  BY <1>3 DEF Min

-----------------------------------------------------------------------------
(* The flush.                                                              *)

LEMMA CommitShape ==
    ASSUME TypeOK, NEW j \in JobType, NEW bumped \in BOOLEAN, Commit(j, bumped)
    PROVE  /\ job' \in JobType /\ job'.pc = "export" /\ job'.mode = j.mode /\ job'.refused = j.refused
           /\ fsVersion' \in Nat /\ fsVersion <= fsVersion' /\ dirty' = "no"
           /\ heapOps' = NoOps /\ heapWrites' = {} /\ dropped' = {}
<1>1. fsVersion' \in Nat /\ fsVersion <= fsVersion'
  BY Types DEF Commit
<1>2. job' = [[[[IdleJob EXCEPT !.pc = "export"] EXCEPT !.mode = j.mode]
                EXCEPT !.refused = j.refused] EXCEPT !.version = fsVersion']
  BY DEF Commit, IdleJob
<1>3. job' \in JobType /\ job'.pc = "export" /\ job'.mode = j.mode /\ job'.refused = j.refused
  BY <1>1, <1>2, IdleTyped DEF JobType
<1> QED
  BY <1>1, <1>3 DEF Commit

(* The flush goes on with the next path p of those that are left ...       *)
GoesOn(j, r, p) ==
    /\ p \in j.todo /\ ~OwnedByFrame(j, r, p)
    /\ \A q \in j.todo : q > p \/ q = p \/ OwnedByFrame(j, r, q)
    /\ job' \in JobType /\ job'.pc = "flush" /\ job'.path = p /\ job'.todo = {q \in j.todo : q > p}
    /\ job'.ops = j.ops /\ job'.raced = j.raced /\ job'.refused = j.refused /\ job'.mode = j.mode
    /\ rows' = IF j.ops[p] = Tombstone THEN [r EXCEPT ![p] = NoRow] ELSE r
    /\ UNCHANGED <<fsVersion, dirty, heapOps, heapWrites, dropped>>

(* ... or commits, when what is left belongs to frames.                    *)
Ends(j, r) ==
    /\ rows' = r /\ \A p \in j.todo : OwnedByFrame(j, r, p)
    /\ job' \in JobType /\ job'.pc = "export" /\ job'.mode = j.mode /\ job'.refused = j.refused
    /\ fsVersion' \in Nat /\ fsVersion <= fsVersion' /\ dirty' = "no"
    /\ heapOps' = NoOps /\ heapWrites' = {} /\ dropped' = {}

LEMMA ContinueShape ==
    ASSUME TypeOK, NEW j \in JobType, NEW r, Continue(j, r)
    PROVE  Ends(j, r) \/ \E p \in Paths : GoesOn(j, r, p)
<1> DEFINE left == {p \in j.todo : ~OwnedByFrame(j, r, p)}
           p == Min(left)
<1>1. CASE left = {}
  <2>1. rows' = r /\ Commit(j, TRUE) /\ \A q \in j.todo : OwnedByFrame(j, r, q)
    BY <1>1 DEF Continue
  <2> QED
    BY <2>1, CommitShape DEF Ends
<1>2. CASE left # {}
  <2>1. j.todo \subseteq Paths /\ Paths \subseteq Nat
    BY JobFields DEF Paths
  <2>2. left \in SUBSET Nat
    BY <2>1
  <2>3. p \in left /\ \A q \in left : p <= q
    <3> HIDE DEF left
    <3> QED BY <1>2, <2>2, MinOfPaths
  <2>4. /\ job' = [j EXCEPT !.pc = "flush", !.path = p, !.todo = {q \in j.todo : q > p}]
        /\ rows' = IF j.ops[p] = Tombstone THEN [r EXCEPT ![p] = NoRow] ELSE r
        /\ UNCHANGED <<fsVersion, dirty, heapOps, heapWrites, dropped>>
    BY <1>2 DEF Continue
  <2>5. p \in j.todo /\ p \in Paths /\ ~OwnedByFrame(j, r, p)
    BY <2>1, <2>3
  <2>6. \A q \in j.todo : q > p \/ q = p \/ OwnedByFrame(j, r, q)
    <3> SUFFICES ASSUME NEW q \in j.todo, ~OwnedByFrame(j, r, q) PROVE q > p \/ q = p
      OBVIOUS
    <3>1. q \in left /\ q \in Nat /\ p \in Nat
      BY <2>1, <2>5
    <3>2. p <= q
      BY <2>3, <3>1
    <3> HIDE DEF p
    <3> QED BY <3>1, <3>2
  <2> HIDE DEF p, left
  <2>7. p \in 0..NumPaths /\ {q \in j.todo : q > p} \in SUBSET Paths
    BY <2>1, <2>5, HostFsAssumption DEF Paths
  <2>8. /\ job' \in JobType /\ job'.pc = "flush" /\ job'.path = p /\ job'.todo = {q \in j.todo : q > p}
        /\ job'.ops = j.ops /\ job'.raced = j.raced /\ job'.refused = j.refused /\ job'.mode = j.mode
    <3> DEFINE todo == {q \in j.todo : q > p}
    <3>1. job' = [[[j EXCEPT !.pc = "flush"] EXCEPT !.path = p] EXCEPT !.todo = todo] /\ todo \in SUBSET Paths
      BY <2>4, <2>7
    <3> HIDE DEF todo
    <3>2. /\ job' \in JobType /\ job'.pc = "flush" /\ job'.path = p /\ job'.todo = todo
          /\ job'.ops = j.ops /\ job'.raced = j.raced /\ job'.refused = j.refused /\ job'.mode = j.mode
      BY <2>7, <3>1 DEF JobType
    <3> QED
      BY <3>2 DEF todo
  <2> QED
    BY <2>4, <2>5, <2>6, <2>8 DEF GoesOn
<1> QED
  BY <1>1, <1>2

(* The three steps of a flush: from job j over rows r.                     *)
Flushes(j, r) ==
    /\ j \in JobType /\ j.mode = "checkpoint" /\ r \in [Paths -> RowType]
    /\ \A p \in j.todo : j.ops[p] # NoOp
    /\ staged' = NoOps
    /\ Ends(j, r) \/ \E p \in Paths : GoesOn(j, r, p)

(* What a checkpoint takes over from the cell's staging buffer.            *)
Taken == [[[[job EXCEPT !.mode = "checkpoint"] EXCEPT !.ops = staged]
            EXCEPT !.todo = {p \in Paths : staged[p] # NoOp}] EXCEPT !.raced = fsVersion > evalStart]

LEMMA TakenFields ==
    ASSUME TypeOK
    PROVE  /\ Taken \in JobType /\ Taken.mode = "checkpoint" /\ Taken.ops = staged
           /\ Taken.todo = {p \in Paths : staged[p] # NoOp} /\ Taken.refused = job.refused
           /\ Taken.raced <=> fsVersion > evalStart
<1> DEFINE todo == {p \in Paths : staged[p] # NoOp}
           raced == fsVersion > evalStart
<1>1. todo \in SUBSET Paths /\ raced \in BOOLEAN /\ job \in JobType /\ staged \in [Paths -> OpType]
  BY Types
<1>2. Taken = [[[[job EXCEPT !.mode = "checkpoint"] EXCEPT !.ops = staged]
                 EXCEPT !.todo = todo] EXCEPT !.raced = raced]
  BY DEF Taken
<1> HIDE DEF todo, raced
<1>3. /\ Taken \in JobType /\ Taken.mode = "checkpoint" /\ Taken.ops = staged
      /\ Taken.todo = todo /\ Taken.refused = job.refused /\ Taken.raced = raced
  BY <1>1, <1>2 DEF JobType
<1> QED
  BY <1>3 DEF todo, raced

CheckpointFails ==
    /\ job' = IdleJob
    /\ UNCHANGED <<rows, fsVersion, dirty, staged, heapOps, heapWrites, dropped>>

LEMMA CheckpointShape ==
    ASSUME TypeOK, Checkpoint
    PROVE  CheckpointFails \/ Flushes(Taken, rows)
<1>1. CASE CheckpointFails
  BY <1>1
<1>2. CASE ~CheckpointFails
  <2> DEFINE todo == {p \in Paths : staged[p] # NoOp}
             j == [job EXCEPT !.mode = "checkpoint", !.ops = staged, !.todo = todo,
                              !.raced = fsVersion > evalStart]
  <2>1. /\ staged' = NoOps
        /\ IF todo = {} THEN UNCHANGED rows /\ Commit(j, FALSE) ELSE Continue(j, rows)
    BY <1>2 DEF Checkpoint, CheckpointFails
  <2>2. j = Taken
    BY Types DEF Taken, JobType
  <2> HIDE DEF j
  <2>3. CASE todo = {}
    <3>1. UNCHANGED rows /\ Commit(Taken, FALSE) /\ Taken.todo = {}
      BY <2>1, <2>2, <2>3, TakenFields
    <3> QED
      BY <2>1, <3>1, TakenFields, CommitShape, Types DEF Flushes, Ends
  <2>4. CASE todo # {}
    <3>1. Continue(Taken, rows) /\ Taken.todo = todo
      BY <2>1, <2>2, <2>4, TakenFields
    <3>2. Ends(Taken, rows) \/ \E p \in Paths : GoesOn(Taken, rows, p)
      BY <3>1, TakenFields, ContinueShape
    <3>3. \A p \in Taken.todo : Taken.ops[p] # NoOp
      BY TakenFields
    <3> QED
      BY <2>1, <3>2, <3>3, TakenFields, Types DEF Flushes
  <2> QED
    BY <2>3, <2>4
<1> QED
  BY <1>1, <1>2

(* What FlushLands does to the current path.                               *)
LandedRows ==
    IF job.ops[job.path] = Tombstone THEN rows
    ELSE [rows EXCEPT ![job.path] = [body |-> job.ops[job.path], origin |-> "cell"]]
LandedBucket ==
    [bucket EXCEPT ![job.path] = IF job.ops[job.path] = Tombstone THEN NoBody ELSE job.ops[job.path]]
GivenUp == [job EXCEPT !.refused = job.refused \cup {job.path}]

LEMMA LandedTyped ==
    ASSUME FsInv, job.pc = "flush"
    PROVE  LandedRows \in [Paths -> RowType] /\ LandedBucket \in [Paths -> BodyType]
<1>1. job.path \in Paths /\ job.ops[job.path] \in OpType /\ job.ops[job.path] # NoOp
  BY Types, JobFields DEF FsInv, HandlerInv
<1>2. job.ops[job.path] # Tombstone => job.ops[job.path] \in Body
  BY <1>1 DEF OpType
<1>3. job.ops[job.path] # Tombstone => [body |-> job.ops[job.path], origin |-> "cell"] \in RowType
  BY <1>2, IdleTyped DEF RowType
<1>4. rows \in [Paths -> RowType] /\ bucket \in [Paths -> BodyType]
  BY Types DEF FsInv
<1> QED
  BY <1>1, <1>2, <1>3, <1>4, IdleTyped DEF LandedRows, LandedBucket

LEMMA LandsShape ==
    ASSUME FsInv, FlushLands
    PROVE  Flushes(job, LandedRows) /\ bucket' = LandedBucket /\ foreign' = foreign \ {job.path}
<1>1. Continue(job, LandedRows) /\ bucket' = LandedBucket /\ foreign' = foreign \ {job.path}
  BY DEF FlushLands, LandedRows, LandedBucket
<1>2. job \in JobType /\ job.pc = "flush" /\ staged' = staged
  BY Types DEF FsInv, FlushLands
<1> QED
  BY <1>1, <1>2, ContinueShape, LandedTyped DEF FsInv, HandlerInv, Flushes

LEMMA RefusedShape ==
    ASSUME FsInv, FlushRefused
    PROVE  /\ Flushes(GivenUp, rows) /\ bucket' \in {bucket, LandedBucket} /\ UNCHANGED foreign
           /\ GivenUp \in JobType /\ GivenUp.todo = job.todo /\ GivenUp.ops = job.ops
           /\ GivenUp.refused = job.refused \cup {job.path} /\ GivenUp.raced = job.raced
<1>1. job \in JobType /\ job.pc = "flush" /\ staged' = staged /\ rows \in [Paths -> RowType]
  BY Types DEF FsInv, FlushRefused
<1>2. job.refused \cup {job.path} \in SUBSET Paths
  BY <1>1, JobFields DEF FsInv, HandlerInv
<1>3. /\ GivenUp \in JobType /\ GivenUp.mode = job.mode /\ GivenUp.todo = job.todo /\ GivenUp.ops = job.ops
      /\ GivenUp.refused = job.refused \cup {job.path} /\ GivenUp.raced = job.raced
  BY <1>1, <1>2 DEF GivenUp, JobType
<1>4. Continue(GivenUp, rows) /\ bucket' \in {bucket, LandedBucket} /\ UNCHANGED foreign
  BY DEF FlushRefused, GivenUp, LandedBucket
<1> QED
  BY <1>1, <1>3, <1>4, ContinueShape DEF FsInv, HandlerInv, Flushes

-----------------------------------------------------------------------------
(* The type invariant.                                                     *)

FrameOK(fr) ==
    /\ fr \in FrameType
    /\ fr.pc # "idle" => fr.path \in Paths /\ fr.write \in Write
    /\ fr.pc = "put" => fr.body \in Body

LEMMA FrameSet ==
    ASSUME FsInv, NEW f \in Frames, NEW fr, FrameOK(fr), SetFrame(f, fr)
    PROVE  frames' \in [Frames -> FrameType] /\ \A g \in Frames : FrameOK(frames'[g])
BY Types DEF FsInv, HandlerInv, FrameOK, SetFrame

LEMMA FramesKept ==
    ASSUME FsInv, UNCHANGED frames
    PROVE  frames' \in [Frames -> FrameType] /\ \A g \in Frames : FrameOK(frames'[g])
BY Types DEF FsInv, HandlerInv, FrameOK

LEMMA HandlerFrom ==
    ASSUME \A g \in Frames : FrameOK(frames'[g]), job'.pc # "flush",
           job'.pc = "list" => job'.mode = "reconcile"
    PROVE  HandlerInv'
BY DEF FrameOK, HandlerInv

(* A flush step keeps types and handlers.                                  *)
LEMMA FlushesTyped ==
    ASSUME FsInv, NEW j, NEW r, Flushes(j, r),
           bucket' \in [Paths -> BodyType], foreign' \subseteq Paths,
           UNCHANGED <<exported, kernel, evalStart, frames, evals, writes, doomed, acked>>
    PROVE  FsInv'
<1>1. rows' \in [Paths -> RowType]
  BY IdleTyped DEF Flushes, Ends, GoesOn
<1>2. /\ job' \in JobType /\ fsVersion' \in Nat /\ dirty' \in {"yes", "no"}
      /\ heapOps' \in [Paths -> OpType] /\ heapWrites' \subseteq Write /\ dropped' \subseteq Paths
      /\ staged' \in [Paths -> OpType]
  BY Types, IdleTyped DEF Flushes, Ends, GoesOn, FsInv
<1>3. TypeOK'
  BY <1>1, <1>2, Types DEF FsInv, TypeOK, RowType, JobType, FrameType, AckType
<1>4. HandlerInv'
  <2>1. CASE Ends(j, r)
    BY <2>1, FramesKept, HandlerFrom DEF Ends
  <2>2. ASSUME NEW p \in Paths, GoesOn(j, r, p) PROVE HandlerInv'
    <3>1. /\ job'.pc = "flush"
          /\ job'.path = p /\ job'.todo = {q \in j.todo : q > p} /\ job'.ops = j.ops
          /\ job'.mode = "checkpoint" /\ staged' = NoOps /\ p \in j.todo
          /\ \A q \in j.todo : j.ops[q] # NoOp
      BY <2>2 DEF GoesOn, Flushes
    <3>2. p \notin {q \in j.todo : q > p}
      BY DEF Paths
    <3>3. \A g \in Frames : FrameOK(frames'[g])
      BY FramesKept
    <3> QED
      BY <3>1, <3>2, <3>3 DEF HandlerInv, FrameOK
  <2> QED
    BY <2>1, <2>2 DEF Flushes
<1> QED
  BY <1>3, <1>4 DEF FsInv

LEMMA CellTyped ==
    ASSUME FsInv, BeginEval \/ ReturnBuffered \/ Export \/ FlushLost
    PROVE  FsInv'
<1> USE DEF FsInv
<1>1. \A g \in Frames : FrameOK(frames'[g])
  BY FramesKept DEF BeginEval, ReturnBuffered, Export, FlushLost, memory
<1>2. CASE BeginEval
  <2>1. PICK d \in Durabilities : job' = [[IdleJob EXCEPT !.pc = "eval"] EXCEPT !.mode = d]
    BY <1>2 DEF BeginEval, IdleJob
  <2>2. job' \in JobType /\ job'.pc = "eval"
    BY <2>1, IdleTyped DEF JobType
  <2>3. evals' \in 0..MaxEvals
    <3>1. evals < MaxEvals /\ evals' = evals + 1 /\ evals \in 0..MaxEvals /\ MaxEvals \in Nat
      BY <1>2, Types, HostFsAssumption DEF BeginEval
    <3> QED BY <3>1
  <2>4. /\ staged' \in [Paths -> OpType] /\ dirty' \in {"yes", "no"} /\ dropped' \subseteq Paths
        /\ evalStart' \in Nat /\ kernel' = "live"
    BY <1>2, Types, IdleTyped DEF BeginEval, StartVersion
  <2>5. UNCHANGED <<rows, fsVersion, bucket, exported, frames, writes, heapOps,
                    heapWrites, doomed, acked, foreign>>
    BY <1>2 DEF BeginEval
  <2>6. TypeOK'
    BY <2>2, <2>3, <2>4, <2>5, Types DEF TypeOK, RowType, JobType, FrameType, AckType
  <2> QED
    BY <1>1, <2>2, <2>6, HandlerFrom
<1>3. CASE ReturnBuffered
  <2>1. job' = IdleJob /\ dirty' = "yes"
    BY <1>3 DEF ReturnBuffered
  <2>2. UNCHANGED <<rows, fsVersion, bucket, exported, kernel, staged, evalStart, frames, observed>>
    BY <1>3 DEF ReturnBuffered
  <2>3. TypeOK'
    BY <2>1, <2>2, IdleTyped, Types DEF observed, TypeOK, RowType, JobType, FrameType, AckType
  <2> QED
    BY <1>1, <2>1, <2>3, IdleFields, HandlerFrom
<1>4. CASE Export
  <2>1. job' = IdleJob /\ exported' \in Nat
    BY <1>4, Types, JobFields DEF Export
  <2>2. UNCHANGED <<rows, fsVersion, dirty, bucket, kernel, staged, evalStart, frames, observed>>
    BY <1>4 DEF Export
  <2>3. TypeOK'
    BY <2>1, <2>2, IdleTyped, Types DEF observed, TypeOK, RowType, JobType, FrameType, AckType
  <2> QED
    BY <1>1, <2>1, <2>3, IdleFields, HandlerFrom
<1>5. CASE FlushLost
  <2>1. dirty' = "no" /\ job.pc = "idle" /\ UNCHANGED <<rows, fsVersion, bucket, exported, memory, observed>>
    BY <1>5 DEF FlushLost
  <2>2. TypeOK'
    BY <2>1, Types DEF observed, memory, TypeOK, RowType, JobType, FrameType, AckType
  <2> QED
    BY <1>1, <2>1, <2>2, HandlerFrom DEF memory
<1> QED
  BY <1>2, <1>3, <1>4, <1>5

LEMMA StageTyped ==
    ASSUME FsInv, NEW p \in Paths, StageWrite(p) \/ StageDelete(p)
    PROVE  FsInv'
<1> USE DEF FsInv
<1>1. PICK op \in OpType : StageOp(p, op)
  <2>1. CASE StageWrite(p)
    BY <2>1, FreshTyped, IdleTyped DEF StageWrite
  <2>2. CASE StageDelete(p)
    BY <2>2, IdleTyped DEF StageDelete
  <2> QED BY <2>1, <2>2
<1>2. writes' \in 0..MaxWrites /\ heapWrites' \subseteq Write
  <2>1. CASE StageWrite(p)
    BY <2>1, FreshTyped, Types DEF StageWrite
  <2>2. CASE StageDelete(p)
    BY <2>2, Types DEF StageDelete
  <2> QED BY <2>1, <2>2
<1>3. /\ staged' \in [Paths -> OpType] /\ heapOps' \in [Paths -> OpType] /\ dropped' \subseteq Paths
      /\ acked' \in [Paths -> SUBSET AckType]
  BY <1>1, Types DEF StageOp
<1>4. UNCHANGED <<durable, kernel, evalStart, job, frames, evals, doomed, foreign>> /\ job.pc = "eval"
  BY <1>1 DEF StageOp
<1>5. TypeOK'
  BY <1>2, <1>3, <1>4, Types DEF durable, TypeOK, RowType, JobType, FrameType, AckType
<1> QED
  BY <1>4, <1>5, FramesKept, HandlerFrom

LEMMA FrameTyped ==
    ASSUME FsInv, NEW f \in Frames,
           (\E p \in Paths : VfsWrite(f, p)) \/ VfsSplice(f) \/ VfsCommit(f) \/ VfsRefused(f) \/ VfsAck(f)
    PROVE  FsInv'
<1> USE DEF FsInv
<1> DEFINE fr == frames[f]
<1>1. FrameOK(fr) /\ fr \in FrameType
  BY Types DEF HandlerInv, FrameOK
<1>2. \A g : FrameOK(g) /\ SetFrame(f, g) => \A h \in Frames : FrameOK(frames'[h])
  BY FrameSet
<1>3. \A g : FrameOK(g) /\ SetFrame(f, g) => frames' \in [Frames -> FrameType]
  BY FrameSet
<1>4. ASSUME NEW p \in Paths, VfsWrite(f, p) PROVE FsInv'
  <2> DEFINE put == [[[[IdleFrame EXCEPT !.pc = "put"] EXCEPT !.path = p] EXCEPT !.write = Fresh]
                      EXCEPT !.body = <<Fresh>>]
             get == [[[IdleFrame EXCEPT !.pc = "get"] EXCEPT !.path = p] EXCEPT !.write = Fresh]
  <2>1. Fresh \in Write /\ Fresh \in Nat /\ <<Fresh>> \in Body /\ writes' \in 0..MaxWrites /\ p \in 0..NumPaths
    <3>1. writes < MaxWrites /\ writes' = Fresh
      BY <1>4 DEF VfsWrite
    <3>2. p \in 0..NumPaths
      BY HostFsAssumption DEF Paths
    <3>3. Fresh \in Write /\ <<Fresh>> \in Body /\ Fresh \in 0..MaxWrites
      BY <3>1, FreshTyped
    <3> QED BY <3>1, <3>2, <3>3 DEF Write
  <2>2. FrameOK(put) /\ FrameOK(get)
    BY <2>1, IdleTyped DEF FrameOK, FrameType
  <2>3. \/ SetFrame(f, put) /\ acked' = [acked EXCEPT ![p] = {}]
        \/ SetFrame(f, get) /\ UNCHANGED acked
    BY <1>4 DEF VfsWrite, IdleFrame
  <2>4. acked' \in [Paths -> SUBSET AckType]
    BY <2>3, Types
  <2> HIDE DEF put, get
  <2>5. frames' \in [Frames -> FrameType] /\ \A h \in Frames : FrameOK(frames'[h])
    BY <1>2, <1>3, <2>2, <2>3
  <2>6. UNCHANGED <<durable, kernel, staged, evalStart, job, evals, heapOps,
                    heapWrites, doomed, dropped, foreign>>
    BY <1>4 DEF VfsWrite
  <2>7. TypeOK'
    BY <2>1, <2>4, <2>5, <2>6, Types DEF durable, TypeOK, RowType, JobType, FrameType, AckType
  <2> QED
    BY <2>5, <2>6, <2>7 DEF HandlerInv, FrameOK
<1>5. CASE VfsSplice(f)
  <2>1. PICK base \in BodyType :
           SetFrame(f, [[fr EXCEPT !.pc = "put"]
                         EXCEPT !.body = IF base = NoBody THEN <<fr.write>> ELSE Append(base, fr.write)])
    <3>1. PICK base \in {bucket[fr.path]} \cup (IF GetFaults THEN {NoBody} ELSE {}) :
             SetFrame(f, [fr EXCEPT !.pc = "put",
                            !.body = IF base = NoBody THEN <<fr.write>> ELSE Append(base, fr.write)])
      BY <1>5 DEF VfsSplice
    <3>2. base \in BodyType
      BY <1>1, <1>5, <3>1, Types, IdleTyped DEF FrameOK, VfsSplice
    <3> QED BY <3>1, <3>2
  <2> DEFINE body == IF base = NoBody THEN <<fr.write>> ELSE Append(base, fr.write)
             put == [[fr EXCEPT !.pc = "put"] EXCEPT !.body = body]
  <2>2. body \in Body /\ fr.path \in Paths /\ fr.write \in Write
    <3>1. fr.path \in Paths /\ fr.write \in Write
      BY <1>1, <1>5 DEF FrameOK, VfsSplice
    <3>2. base # NoBody => base \in Body
      BY DEF BodyType
    <3> HIDE DEF fr
    <3> QED BY <3>1, <3>2 DEF Body
  <2>3. FrameOK(put)
    <3> HIDE DEF fr, body
    <3> QED BY <1>1, <2>2, IdleTyped DEF FrameOK, FrameType
  <2>4. SetFrame(f, put)
    BY <2>1
  <2>5. UNCHANGED <<durable, kernel, staged, evalStart, job, observed>>
    BY <1>5 DEF VfsSplice
  <2>6. frames' \in [Frames -> FrameType] /\ \A h \in Frames : FrameOK(frames'[h])
    <3> HIDE DEF put
    <3> QED BY <1>2, <1>3, <2>3, <2>4
  <2>7. TypeOK'
    BY <2>5, <2>6, Types DEF durable, observed, TypeOK, RowType, JobType, FrameType, AckType
  <2> QED
    BY <2>5, <2>6, <2>7 DEF HandlerInv, FrameOK
<1>6. CASE VfsCommit(f)
  <2> DEFINE p == fr.path
             done == [[[fr EXCEPT !.pc = "export"] EXCEPT !.body = NoBody] EXCEPT !.version = fsVersion']
             ack == [write |-> fr.write, version |-> fsVersion + 1, exported |-> FALSE]
  <2>1. fr.path \in Paths /\ fr.write \in Write /\ fr.body \in Body /\ fsVersion + 1 \in Nat
    BY <1>1, <1>6, Types DEF FrameOK, VfsCommit
  <2>2. /\ bucket' = [bucket EXCEPT ![p] = fr.body]
        /\ rows' = [rows EXCEPT ![p] = [body |-> fr.body, origin |-> "frame"]]
        /\ foreign' = foreign \ {p}
        /\ acked' = [acked EXCEPT ![p] = acked[p] \cup {ack}]
        /\ fsVersion' = fsVersion + 1
    BY <1>6 DEF VfsCommit
  <2>3. SetFrame(f, done)
    BY <1>6 DEF VfsCommit
  <2>4. FrameOK(done)
    <3> HIDE DEF fr
    <3> QED BY <1>1, <2>1, <2>2, IdleTyped DEF FrameOK, FrameType
  <2>5. ack \in AckType /\ [body |-> fr.body, origin |-> "frame"] \in RowType
    <3> HIDE DEF fr
    <3> QED BY <2>1, IdleTyped DEF AckType, RowType
  <2>6. /\ bucket' \in [Paths -> BodyType] /\ rows' \in [Paths -> RowType] /\ foreign' \subseteq Paths
        /\ acked' \in [Paths -> SUBSET AckType]
    <3> HIDE DEF fr, ack
    <3> QED BY <2>1, <2>2, <2>5, Types, IdleTyped
  <2>7. UNCHANGED <<dirty, exported, kernel, staged, evalStart, job, evals, writes,
                    heapOps, heapWrites, doomed, dropped>>
    BY <1>6 DEF VfsCommit
  <2>8. frames' \in [Frames -> FrameType] /\ \A h \in Frames : FrameOK(frames'[h])
    <3> HIDE DEF done
    <3> QED BY <1>2, <1>3, <2>3, <2>4
  <2>9. TypeOK'
    BY <2>1, <2>2, <2>6, <2>7, <2>8, Types DEF TypeOK, RowType, JobType, FrameType, AckType
  <2> QED
    BY <2>7, <2>8, <2>9 DEF HandlerInv, FrameOK
<1>7. CASE VfsRefused(f)
  <2>1. SetFrame(f, IdleFrame) /\ bucket' \in {bucket, [bucket EXCEPT ![fr.path] = fr.body]}
    BY <1>7 DEF VfsRefused
  <2>2. bucket' \in [Paths -> BodyType]
    BY <1>1, <2>1, Types, FrameFields
  <2>3. FrameOK(IdleFrame)
    BY IdleTyped, IdleFields DEF FrameOK
  <2>4. UNCHANGED <<rows, fsVersion, dirty, exported, kernel, staged, evalStart, job, observed>>
    BY <1>7 DEF VfsRefused
  <2>5. frames' \in [Frames -> FrameType] /\ \A h \in Frames : FrameOK(frames'[h])
    BY <1>2, <1>3, <2>1, <2>3
  <2>6. TypeOK'
    BY <2>2, <2>4, <2>5, Types DEF observed, TypeOK, RowType, JobType, FrameType, AckType
  <2> QED
    BY <2>4, <2>5, <2>6 DEF HandlerInv, FrameOK
<1>8. CASE VfsAck(f)
  <2> DEFINE Mark(a, refused) == IF a.write = fr.write /\ ~refused THEN [a EXCEPT !.exported = TRUE] ELSE a
  <2>1. PICK refused \in {FALSE, R2Faults} :
           /\ exported' = IF refused THEN exported ELSE fr.version
           /\ acked' = [acked EXCEPT ![fr.path] = {Mark(a, refused) : a \in acked[fr.path]}]
    BY <1>8 DEF VfsAck
  <2>2. \A a \in AckType : Mark(a, refused) \in AckType
    BY DEF AckType
  <2>3. fr.path \in Paths /\ fr.version \in Nat
    BY <1>1, <1>8, FrameFields DEF FrameOK, VfsAck
  <2> HIDE DEF Mark
  <2>4. acked' \in [Paths -> SUBSET AckType] /\ exported' \in Nat
    BY <2>1, <2>2, <2>3, Types
  <2>5. FrameOK(IdleFrame) /\ SetFrame(f, IdleFrame)
    BY <1>8, IdleTyped, IdleFields DEF FrameOK, VfsAck
  <2>6. UNCHANGED <<rows, fsVersion, dirty, bucket, kernel, staged, evalStart, job,
                    evals, writes, heapOps, heapWrites, doomed, dropped, foreign>>
    BY <1>8 DEF VfsAck
  <2>7. frames' \in [Frames -> FrameType] /\ \A h \in Frames : FrameOK(frames'[h])
    BY <1>2, <1>3, <2>5
  <2>8. TypeOK'
    BY <2>4, <2>6, <2>7, Types DEF TypeOK, RowType, JobType, FrameType, AckType
  <2> QED
    BY <2>6, <2>7, <2>8 DEF HandlerInv, FrameOK
<1> QED
  BY <1>4, <1>5, <1>6, <1>7, <1>8

LEMMA ReconcileShape ==
    ASSUME Reconcile
    PROVE  \/ job'.pc = "idle" /\ UNCHANGED fsVersion
           \/ job'.pc = "export" /\ job'.mode = job.mode /\ fsVersion' = fsVersion + 1
<1>1. CASE job' = IdleJob /\ UNCHANGED fsVersion
  BY <1>1, IdleFields
<1>2. CASE /\ fsVersion' = fsVersion + 1
           /\ job' = [IdleJob EXCEPT !.pc = "export", !.mode = job.mode, !.version = fsVersion']
  BY <1>2 DEF IdleJob
<1> QED
  BY <1>1, <1>2 DEF Reconcile

LEMMA OthersTyped ==
    ASSUME FsInv,
           (\E p \in Paths : ContainerWrites(p)) \/ BeginReconcile \/ Reconcile \/ ReconcileFails
             \/ Reset \/ Evict \/ Crash
    PROVE  FsInv'
<1> USE DEF FsInv
<1>1. ASSUME NEW p \in Paths, ContainerWrites(p) PROVE FsInv'
  <2>1. writes < MaxWrites /\ writes' = Fresh
    BY <1>1 DEF ContainerWrites
  <2>2. writes' \in 0..MaxWrites /\ <<Fresh>> \in BodyType
    BY <2>1, FreshTyped, IdleTyped
  <2>3. bucket' \in [Paths -> BodyType] /\ foreign' \subseteq Paths /\ acked' \in [Paths -> SUBSET AckType]
    BY <1>1, <2>2, IdleTyped, Types DEF ContainerWrites
  <2>4. UNCHANGED <<rows, fsVersion, dirty, exported, memory, evals, heapOps, heapWrites, doomed, dropped>>
    BY <1>1 DEF ContainerWrites
  <2>5. TypeOK'
    BY <2>2, <2>3, <2>4, Types DEF memory, TypeOK, RowType, JobType, FrameType, AckType
  <2> QED
    BY <2>4, <2>5 DEF memory, HandlerInv
<1>2. CASE BeginReconcile
  <2>1. job' = [[[IdleJob EXCEPT !.pc = "list"] EXCEPT !.mode = "reconcile"] EXCEPT !.listing = bucket]
    BY <1>2 DEF BeginReconcile, IdleJob
  <2>2. job' \in JobType /\ job'.pc = "list" /\ job'.mode = "reconcile"
    BY <2>1, IdleTyped, Types DEF JobType
  <2>3. UNCHANGED <<durable, kernel, staged, evalStart, frames, observed>>
    BY <1>2 DEF BeginReconcile
  <2>4. TypeOK'
    BY <2>2, <2>3, Types DEF durable, observed, TypeOK, RowType, JobType, FrameType, AckType
  <2> QED
    BY <2>2, <2>3, <2>4, FramesKept, HandlerFrom
<1>3. CASE Reconcile
  <2>1. job.listing \in [Paths -> BodyType] /\ job.mode \in Durabilities \cup {"none", "checkpoint", "reconcile"}
    BY Types, JobFields
  <2>2. rows' \in [Paths -> RowType]
    <3>1. \A p \in Paths : [body |-> job.listing[p], origin |-> "reconcile"] \in RowType
      BY <2>1 DEF RowType
    <3>2. rows' = [p \in Paths |-> IF job.listing[p] = NoBody THEN NoRow
                                   ELSE [body |-> job.listing[p], origin |-> "reconcile"]]
      BY <1>3 DEF Reconcile
    <3> QED BY <3>1, <3>2, IdleTyped
  <2>3. fsVersion' \in Nat /\ job' \in JobType /\ job'.pc # "flush" /\ job'.pc # "list"
    <3>1. CASE job' = IdleJob /\ UNCHANGED fsVersion
      BY <3>1, IdleTyped, IdleFields, Types
    <3>2. CASE /\ fsVersion' = fsVersion + 1
               /\ job' = [IdleJob EXCEPT !.pc = "export", !.mode = job.mode, !.version = fsVersion']
      <4>1. fsVersion' \in Nat
        BY <3>2, Types
      <4>2. job' = [[[IdleJob EXCEPT !.pc = "export"] EXCEPT !.mode = job.mode] EXCEPT !.version = fsVersion']
        BY <3>2 DEF IdleJob
      <4> QED BY <2>1, <4>1, <4>2, IdleTyped DEF JobType
    <3> QED BY <1>3, <3>1, <3>2 DEF Reconcile
  <2>4. foreign' \subseteq Paths
    BY <1>3, Types DEF Reconcile
  <2>5. UNCHANGED <<dirty, bucket, exported, kernel, staged, evalStart, frames,
                    evals, writes, heapOps, heapWrites, doomed, dropped, acked>>
    BY <1>3 DEF Reconcile
  <2>6. TypeOK'
    BY <2>2, <2>3, <2>4, <2>5, Types DEF TypeOK, RowType, JobType, FrameType, AckType
  <2> QED
    BY <2>3, <2>5, <2>6, FramesKept, HandlerFrom
<1>4. CASE ReconcileFails
  <2>1. job' = IdleJob /\ UNCHANGED <<durable, kernel, staged, evalStart, frames, observed>>
    BY <1>4 DEF ReconcileFails
  <2>2. TypeOK'
    BY <2>1, IdleTyped, Types DEF durable, observed, TypeOK, RowType, JobType, FrameType, AckType
  <2> QED
    BY <2>1, <2>2, IdleFields, FramesKept, HandlerFrom
<1>5. ASSUME LoseHeap
      PROVE  /\ heapOps' \in [Paths -> OpType] /\ heapWrites' \subseteq Write
             /\ doomed' \subseteq Write /\ dropped' \subseteq Paths
  BY <1>5, Types, IdleTyped DEF LoseHeap
<1>6. CASE Reset
  <2>1. UNCHANGED <<rows, fsVersion, bucket, exported, staged, evalStart, job, frames,
                    evals, writes, acked, foreign>> /\ kernel' = "none" /\ dirty' = "no" /\ LoseHeap
    BY <1>6 DEF Reset
  <2>2. TypeOK'
    BY <1>5, <2>1, Types DEF TypeOK, RowType, JobType, FrameType, AckType
  <2> QED
    BY <2>1, <2>2 DEF HandlerInv
<1>7. CASE Evict
  <2>1. UNCHANGED <<durable, staged, evalStart, job, frames, evals, writes, acked, foreign>> /\ kernel' = "none"
    BY <1>7 DEF Evict
  <2>2. /\ heapOps' \in [Paths -> OpType] /\ heapWrites' \subseteq Write
        /\ doomed' \subseteq Write /\ dropped' \subseteq Paths
    BY <1>5, <1>7, Types DEF Evict
  <2>3. TypeOK'
    BY <2>1, <2>2, Types DEF durable, TypeOK, RowType, JobType, FrameType, AckType
  <2> QED
    BY <2>1, <2>3 DEF HandlerInv
<1>8. CASE Crash
  <2>1. /\ kernel' = "none" /\ staged' = NoOps /\ evalStart' = 0
        /\ job' = IdleJob /\ frames' = [f \in Frames |-> IdleFrame] /\ LoseHeap
        /\ UNCHANGED <<rows, fsVersion, dirty, exported, evals, writes, acked, foreign>>
    BY <1>8 DEF Crash
  <2>2. bucket' \in [Paths -> BodyType]
    <3>1. CASE bucket' = bucket
      BY <3>1, Types
    <3>2. CASE /\ job.pc = "flush"
               /\ bucket' = [p \in Paths |-> IF p # job.path THEN bucket[p]
                                             ELSE IF job.ops[p] = Tombstone THEN NoBody ELSE job.ops[p]]
      <4>1. \A p \in Paths : p = job.path /\ job.ops[p] # Tombstone => job.ops[p] \in BodyType
        BY <3>2, Types, JobFields, IdleTyped DEF HandlerInv, OpType
      <4> QED BY <3>2, <4>1, Types, IdleTyped
    <3>3. ASSUME NEW f \in Frames, bucket' = [bucket EXCEPT ![frames[f].path] = frames[f].body]
          PROVE  bucket' \in [Paths -> BodyType]
      BY <3>3, Types, FrameFields
    <3> QED
      BY <1>8, <3>1, <3>2, <3>3 DEF Crash, InFlight
  <2>3. TypeOK'
    BY <1>5, <2>1, <2>2, IdleTyped, Types DEF TypeOK, RowType, JobType, FrameType, AckType
  <2> QED
    BY <2>1, <2>3, IdleFields DEF HandlerInv
<1> QED
  BY <1>1, <1>2, <1>3, <1>4, <1>6, <1>7, <1>8

LEMMA FlushTyped ==
    ASSUME FsInv, Checkpoint \/ FlushLands \/ FlushRefused
    PROVE  FsInv'
<1>1. CASE Checkpoint
  <2>1. UNCHANGED <<bucket, exported, kernel, evalStart, frames, evals, writes, doomed, acked, foreign>>
    BY <1>1 DEF Checkpoint
  <2>2. CASE CheckpointFails
    <3>1. TypeOK'
      BY <2>1, <2>2, IdleTyped, Types
         DEF FsInv, CheckpointFails, TypeOK, RowType, JobType, FrameType, AckType
    <3> QED
      BY <2>1, <2>2, <3>1, IdleFields, FramesKept, HandlerFrom DEF FsInv, CheckpointFails
  <2>3. CASE Flushes(Taken, rows)
    BY <2>1, <2>3, FlushesTyped, Types DEF FsInv
  <2> QED
    BY <1>1, <2>2, <2>3, CheckpointShape DEF FsInv
<1>2. CASE FlushLands
  <2>1. UNCHANGED <<exported, kernel, evalStart, frames, evals, writes, doomed, acked>> /\ job.pc = "flush"
    BY <1>2 DEF FlushLands
  <2>2. foreign \subseteq Paths
    BY Types DEF FsInv
  <2> QED
    BY <1>2, <2>1, <2>2, LandsShape, LandedTyped, FlushesTyped
<1>3. CASE FlushRefused
  <2>1. UNCHANGED <<exported, kernel, evalStart, frames, evals, writes, doomed, acked, foreign>> /\ job.pc = "flush"
    BY <1>3 DEF FlushRefused
  <2>2. foreign \subseteq Paths /\ bucket \in [Paths -> BodyType]
    BY Types DEF FsInv
  <2> QED
    BY <1>3, <2>1, <2>2, RefusedShape, LandedTyped, FlushesTyped
<1> QED
  BY <1>1, <1>2, <1>3

(* The disjuncts of Next, under the headings of the lemmas.                *)
LEMMA FsStep == FsInv /\ [Next]_vars => FsInv'
<1> SUFFICES ASSUME FsInv, [Next]_vars PROVE FsInv'
  OBVIOUS
<1>1. CASE UNCHANGED vars
  BY <1>1 DEF FsInv, TypeOK, HandlerInv, vars, durable, memory, observed
<1>2. CASE Cells
  BY <1>2, CellTyped, StageTyped, FlushTyped DEF Cells
<1>3. CASE VfsFrames
  BY <1>3, FrameTyped DEF VfsFrames
<1> QED
  BY <1>1, <1>2, <1>3, OthersTyped DEF Next

(* Rows, bodies, staged operations and handlers keep their shapes, and a   *)
(* flush is always at a path that has an operation, over every             *)
(* interleaving of cells, frames, containers, reconciliations, evictions   *)
(* and crashes (flush_staged_fs, vfs_write, reconcile_fs_files).           *)
THEOREM FsInvariant == Spec => []FsInv
<1> QED
  BY FsInitInv, FsStep, PTL DEF Spec

-----------------------------------------------------------------------------
(* Lost heaps.                                                             *)

LEMMA IdsOfNoOps == \A p \in Paths : Ids(NoOps[p]) = {0}
BY Sentinels DEF NoOps

(* A step that writes nothing into the heap and begins no flush.           *)
LEMMA LiveKept ==
    ASSUME FsInv, LiveInv, UNCHANGED <<heapWrites, doomed>>, 1..writes \subseteq 1..writes',
           kernel' = "live" => staged' = NoOps \/ (kernel = "live" /\ staged' = staged),
           job'.pc = "flush" => job.pc = "flush" /\ job'.ops = job.ops
    PROVE  LiveInv'
BY IdsOfNoOps DEF LiveInv

LEMMA LiveLost ==
    ASSUME FsInv, LiveInv, LoseHeap, kernel' = "none", UNCHANGED writes, job'.pc # "flush"
    PROVE  LiveInv'
BY DEF LiveInv, LoseHeap

LEMMA LiveFlushes ==
    ASSUME FsInv, LiveInv, NEW j, NEW r, Flushes(j, r),
           \A p \in Paths : Ids(j.ops[p]) \subseteq heapWrites \cup {0},
           UNCHANGED <<doomed, writes>>
    PROVE  LiveInv'
<1>1. staged' = NoOps
  BY DEF Flushes
<1>2. CASE Ends(j, r)
  BY <1>1, <1>2, IdsOfNoOps DEF Ends, LiveInv
<1>3. ASSUME NEW p \in Paths, GoesOn(j, r, p) PROVE LiveInv'
  <2>1. job'.ops = j.ops /\ UNCHANGED heapWrites
    BY <1>3 DEF GoesOn
  <2> QED
    BY <1>1, <2>1, IdsOfNoOps DEF LiveInv
<1> QED
  BY <1>2, <1>3 DEF Flushes

LEMMA LiveStep == FsInv /\ LiveInv /\ [Next]_vars => LiveInv'
<1> SUFFICES ASSUME FsInv, LiveInv, [Next]_vars PROVE LiveInv'
  OBVIOUS
<1>0. writes < MaxWrites => 1..writes \subseteq 1..Fresh /\ Fresh \in 1..Fresh /\ Fresh \notin 1..writes
  BY FreshTyped DEF FsInv
<1>1. CASE UNCHANGED vars
  BY <1>1, LiveKept DEF vars, durable, memory, observed
<1>2. CASE BeginEval
  <2>1. UNCHANGED <<heapWrites, doomed, writes>>
    BY <1>2 DEF BeginEval
  <2>2. job'.pc # "flush"
    <3>1. PICK d \in Durabilities : job' = [[IdleJob EXCEPT !.pc = "eval"] EXCEPT !.mode = d]
      BY <1>2 DEF BeginEval, IdleJob
    <3> QED BY <3>1 DEF IdleJob
  <2>3. staged' = NoOps \/ (kernel = "live" /\ staged' = staged)
    BY <1>2, Types DEF BeginEval, FsInv
  <2> QED
    BY <2>1, <2>2, <2>3, LiveKept
<1>3. CASE ReturnBuffered \/ Export
  <2>1. job' = IdleJob /\ UNCHANGED <<heapWrites, doomed, writes, kernel, staged>>
    BY <1>3 DEF ReturnBuffered, Export, observed
  <2> QED
    BY <2>1, IdleFields, LiveKept
<1>4. CASE FlushLost
  <2>1. UNCHANGED <<heapWrites, doomed, writes, kernel, staged, job>>
    BY <1>4 DEF FlushLost, observed, memory
  <2> QED
    BY <2>1, LiveKept
<1>5. ASSUME NEW p \in Paths, StageWrite(p) PROVE LiveInv'
  <2>1. /\ writes < MaxWrites /\ writes' = Fresh /\ heapWrites' = heapWrites \cup {Fresh}
        /\ staged' = [staged EXCEPT ![p] = <<Fresh>>] /\ kernel = "live" /\ job.pc = "eval"
        /\ UNCHANGED <<kernel, job, doomed>>
    BY <1>5 DEF StageWrite, StageOp
  <2>2. staged \in [Paths -> OpType]
    BY Types DEF FsInv
  <2>3. Ids(<<Fresh>>) = {Fresh}
    BY DEF Ids
  <2>4. \A q \in Paths : Ids(staged'[q]) \subseteq heapWrites' \cup {0}
    BY <2>1, <2>2, <2>3 DEF LiveInv
  <2>5. Fresh \notin doomed
    BY <1>0, <2>1 DEF LiveInv
  <2> QED
    BY <1>0, <2>1, <2>4, <2>5 DEF LiveInv
<1>6. ASSUME NEW p \in Paths, StageDelete(p) PROVE LiveInv'
  <2>1. /\ staged' = [staged EXCEPT ![p] = Tombstone] /\ kernel = "live" /\ job.pc = "eval"
        /\ UNCHANGED <<kernel, job, doomed, writes, heapWrites>>
    BY <1>6 DEF StageDelete, StageOp
  <2>2. staged \in [Paths -> OpType]
    BY Types DEF FsInv
  <2>3. \A q \in Paths : Ids(staged'[q]) \subseteq heapWrites' \cup {0}
    BY <2>1, <2>2, Sentinels DEF LiveInv
  <2> QED
    BY <2>1, <2>3 DEF LiveInv
<1>7. CASE Checkpoint
  <2>1. UNCHANGED <<doomed, writes, kernel>> /\ kernel = "live"
    BY <1>7 DEF Checkpoint
  <2>2. CASE CheckpointFails
    BY <2>1, <2>2, IdleFields, LiveKept DEF CheckpointFails
  <2>3. CASE Flushes(Taken, rows)
    BY <2>1, <2>3, TakenFields, LiveFlushes DEF LiveInv, FsInv
  <2> QED
    BY <1>7, <2>2, <2>3, CheckpointShape DEF FsInv
<1>8. CASE FlushLands \/ FlushRefused
  <2>1. UNCHANGED <<doomed, writes>> /\ job.pc = "flush"
    BY <1>8 DEF FlushLands, FlushRefused
  <2>2. \A p \in Paths : Ids(job.ops[p]) \subseteq heapWrites \cup {0}
    BY <2>1 DEF LiveInv
  <2>3. Flushes(job, LandedRows) \/ (Flushes(GivenUp, rows) /\ GivenUp.ops = job.ops)
    BY <1>8, LandsShape, RefusedShape
  <2> QED
    BY <2>1, <2>2, <2>3, LiveFlushes
<1>9. CASE VfsFrames
  <2>1. UNCHANGED <<heapWrites, doomed, kernel, staged, job>>
    BY <1>9 DEF VfsFrames, VfsWrite, VfsSplice, VfsCommit, VfsRefused, VfsAck, observed
  <2>2. writes' = writes \/ (writes < MaxWrites /\ writes' = Fresh)
    BY <1>9 DEF VfsFrames, VfsWrite, VfsSplice, VfsCommit, VfsRefused, VfsAck, observed
  <2> QED
    BY <1>0, <2>1, <2>2, LiveKept
<1>10. ASSUME NEW p \in Paths, ContainerWrites(p) PROVE LiveInv'
  <2>1. UNCHANGED <<heapWrites, doomed, kernel, staged, job>> /\ writes < MaxWrites /\ writes' = Fresh
    BY <1>10 DEF ContainerWrites, memory
  <2> QED
    BY <1>0, <2>1, LiveKept
<1>11. CASE BeginReconcile \/ Reconcile \/ ReconcileFails
  <2>1. UNCHANGED <<heapWrites, doomed, kernel, staged, writes>>
    BY <1>11 DEF BeginReconcile, Reconcile, ReconcileFails, observed
  <2>2. job'.pc # "flush"
    BY <1>11, IdleFields, ReconcileShape DEF BeginReconcile, ReconcileFails, IdleJob
  <2> QED
    BY <2>1, <2>2, LiveKept
<1>12. CASE Reset
  <2>1. LoseHeap /\ kernel' = "none" /\ UNCHANGED <<writes, job>> /\ job.pc = "idle"
    BY <1>12 DEF Reset
  <2> QED BY <2>1, LiveLost
<1>13. CASE Evict
  <2>1. kernel' = "none" /\ UNCHANGED <<writes, job, staged>>
    BY <1>13 DEF Evict
  <2>2. CASE job.pc = "flush"
    BY <1>13, <2>1, <2>2, LiveKept DEF Evict
  <2>3. CASE job.pc # "flush"
    BY <1>13, <2>1, <2>3, LiveLost DEF Evict
  <2> QED BY <2>2, <2>3
<1>14. CASE Crash
  <2>1. LoseHeap /\ kernel' = "none" /\ UNCHANGED writes /\ job' = IdleJob
    BY <1>14 DEF Crash
  <2> QED BY <2>1, IdleFields, LiveLost
<1> QED
  BY <1>1, <1>2, <1>3, <1>4, <1>5, <1>6, <1>7, <1>8, <1>9, <1>10, <1>11, <1>12, <1>13, <1>14
     DEF Next, Cells

(* A checkpoint never publishes what a lost heap had staged, although the  *)
(* staging buffer outlives the kernel ({t:evict}, reset) and cells,        *)
(* checkpoints and evictions follow each other in any order, whenever      *)
(* clients write (flush_staged_fs, eval's clearing of staged_fs).          *)
THEOREM FlushesAlwaysLive == Spec => []FlushesOnlyLiveWrites
<1>1. Init => LiveInv
  BY IdsOfNoOps, IdleFields, HostFsAssumption DEF Init, LiveInv
<1>2. FsInv /\ LiveInv => FlushesOnlyLiveWrites
  <2> SUFFICES ASSUME FsInv, LiveInv, job.pc = "flush", NEW p \in Paths
               PROVE  Ids(job.ops[p]) \cap doomed = {}
    BY DEF FlushesOnlyLiveWrites
  <2>1. 0 \notin doomed
    BY Types DEF FsInv, Write
  <2> QED
    BY <2>1 DEF LiveInv
<1> QED
  BY <1>1, <1>2, LiveStep, FsInvariant, PTL DEF Spec

-----------------------------------------------------------------------------
(* Clients that write while the session is idle or a cell waits for them.  *)

LEMMA ParkedStep ==
    ASSUME FrameWindow = "parked"
    PROVE  FsInv /\ ParkedInv /\ [Next]_vars => ParkedInv'
<1> SUFFICES ASSUME FsInv, ParkedInv, [Next]_vars PROVE ParkedInv'
  OBVIOUS
<1>1. CASE UNCHANGED vars
  BY <1>1 DEF ParkedInv, vars, memory
<1>2. CASE BeginEval
  <2>1. PICK d \in Durabilities : job' = [[IdleJob EXCEPT !.pc = "eval"] EXCEPT !.mode = d]
    BY <1>2 DEF BeginEval, IdleJob
  <2>2. job'.pc = "eval"
    BY <2>1 DEF IdleJob
  <2> QED BY <2>2 DEF ParkedInv
<1>3. CASE ReturnBuffered \/ Export \/ ReconcileFails \/ Crash
  <2>1. job' = IdleJob
    BY <1>3 DEF ReturnBuffered, Export, ReconcileFails, Crash
  <2> QED BY <2>1, IdleFields DEF ParkedInv
<1>4. CASE FlushLost \/ Reset \/ Evict
  <2>1. UNCHANGED <<job, frames>>
    BY <1>4 DEF FlushLost, Reset, Evict, memory
  <2> QED BY <2>1 DEF ParkedInv
<1>5. ASSUME NEW p \in Paths, StageWrite(p) \/ StageDelete(p) \/ ContainerWrites(p) PROVE ParkedInv'
  <2>1. UNCHANGED <<job, frames>>
    BY <1>5 DEF StageWrite, StageDelete, StageOp, ContainerWrites, memory
  <2> QED BY <2>1 DEF ParkedInv
<1>6. CASE Checkpoint \/ BeginReconcile
  <2>1. UNCHANGED frames /\ \A f \in Frames : frames[f].pc = "idle"
    BY <1>6 DEF Checkpoint, BeginReconcile
  <2> QED BY <2>1 DEF ParkedInv
<1>7. CASE FlushLands \/ FlushRefused
  <2>1. UNCHANGED frames /\ job.pc = "flush"
    BY <1>7 DEF FlushLands, FlushRefused
  <2> QED BY <2>1 DEF ParkedInv
<1>8. CASE VfsFrames
  <2>1. UNCHANGED job /\ job.pc \notin {"flush", "list"}
    BY <1>8 DEF VfsFrames, VfsWrite, VfsSplice, VfsCommit, VfsRefused, VfsAck, ParkedInv
  <2> QED BY <2>1 DEF ParkedInv
<1>9. CASE Reconcile
  BY <1>9, ReconcileShape DEF ParkedInv
<1> QED
  BY <1>1, <1>2, <1>3, <1>4, <1>5, <1>6, <1>7, <1>8, <1>9 DEF Next, Cells

(* A client that keeps to its turns has no frame under way while a         *)
(* checkpoint flushes or a listing is out (flush_staged_fs,                *)
(* reconcile_fs_files): the frames that could overtake them all belong to  *)
(* clients that write out of turn.                                         *)
THEOREM ParkedFrames ==
    ASSUME FrameWindow = "parked"
    PROVE  Spec => []ParkedInv
<1>1. Init => ParkedInv
  BY IdleFields DEF Init, ParkedInv
<1> QED
  BY <1>1, ParkedStep, FsInvariant, PTL DEF Spec

-----------------------------------------------------------------------------
(* Rows and bodies.                                                        *)

LEMMA RowFlushes ==
    ASSUME NEW j, NEW r, Flushes(j, r),
           \A p \in Paths : r[p] # NoRow /\ p \notin foreign' => bucket'[p] # NoBody
    PROVE  RowInv'
<1>1. CASE Ends(j, r)
  BY <1>1 DEF Ends, RowInv, RowHasBody
<1>2. ASSUME NEW p \in Paths, GoesOn(j, r, p) PROVE RowInv'
  <2>1. /\ job'.pc = "flush" /\ job'.path = p /\ job'.ops = j.ops
        /\ rows' = IF j.ops[p] = Tombstone THEN [r EXCEPT ![p] = NoRow] ELSE r
    BY <1>2 DEF GoesOn
  <2>2. r \in [Paths -> RowType]
    BY DEF Flushes
  <2> QED
    BY <2>1, <2>2 DEF RowInv, RowHasBody
<1> QED
  BY <1>1, <1>2 DEF Flushes

(* What landed is the body of the row, or neither is left.                 *)
LEMMA RowLanded ==
    ASSUME FsInv, RowInv, job.pc = "flush"
    PROVE  /\ \A p \in Paths : p # job.path => LandedBucket[p] = bucket[p] /\ LandedRows[p] = rows[p]
           /\ job.ops[job.path] = Tombstone => LandedRows[job.path] = NoRow /\ rows[job.path] = NoRow
           /\ job.ops[job.path] # Tombstone => LandedBucket[job.path] # NoBody
<1>1. job.path \in Paths /\ job.ops[job.path] \in OpType /\ job.ops[job.path] # NoOp
  BY Types, JobFields DEF FsInv, HandlerInv
<1>2. job.ops[job.path] # Tombstone => job.ops[job.path] # NoBody
  BY <1>1, Sentinels DEF OpType
<1>3. rows \in [Paths -> RowType] /\ bucket \in [Paths -> BodyType]
  BY Types DEF FsInv
<1> QED
  BY <1>1, <1>2, <1>3 DEF LandedBucket, LandedRows, RowInv

LEMMA RowStep == FsInv /\ ParkedInv /\ RowInv /\ [Next]_vars => RowInv'
<1> SUFFICES ASSUME FsInv, ParkedInv, RowInv, [Next]_vars PROVE RowInv'
  OBVIOUS
<1>1. ASSUME UNCHANGED <<rows, bucket, foreign>>, job'.pc \in {"flush", "list"} => UNCHANGED job
      PROVE  RowInv'
  BY <1>1 DEF RowInv, RowHasBody
<1>2. CASE UNCHANGED vars
  BY <1>1, <1>2 DEF vars, durable, memory, observed
<1>3. CASE BeginEval
  <2>1. PICK d \in Durabilities : job' = [[IdleJob EXCEPT !.pc = "eval"] EXCEPT !.mode = d]
    BY <1>3 DEF BeginEval, IdleJob
  <2>2. job'.pc = "eval" /\ UNCHANGED <<rows, bucket, foreign>>
    BY <1>3, <2>1 DEF IdleJob, BeginEval
  <2> QED BY <1>1, <2>2
<1>4. CASE ReturnBuffered \/ Export \/ ReconcileFails
  <2>1. job' = IdleJob /\ UNCHANGED <<rows, bucket, foreign>>
    BY <1>4 DEF ReturnBuffered, Export, ReconcileFails, observed, durable
  <2> QED BY <1>1, <2>1, IdleFields
<1>5. CASE FlushLost \/ Reset \/ Evict
  <2>1. UNCHANGED <<job, rows, bucket, foreign>>
    BY <1>5 DEF FlushLost, Reset, Evict, memory, durable, observed
  <2> QED BY <1>1, <2>1
<1>6. ASSUME NEW p \in Paths, StageWrite(p) \/ StageDelete(p) PROVE RowInv'
  <2>1. UNCHANGED <<job, rows, bucket, foreign>>
    BY <1>6 DEF StageWrite, StageDelete, StageOp, durable
  <2> QED BY <1>1, <2>1
<1>7. CASE Checkpoint
  <2>1. UNCHANGED <<bucket, foreign>>
    BY <1>7 DEF Checkpoint
  <2>2. CASE CheckpointFails
    BY <1>1, <2>1, <2>2, IdleFields DEF CheckpointFails
  <2>3. CASE Flushes(Taken, rows)
    BY <2>1, <2>3, RowFlushes DEF RowInv, RowHasBody
  <2> QED BY <1>7, <2>2, <2>3, CheckpointShape DEF FsInv
<1>8. CASE FlushLands
  <2>1. job.pc = "flush"
    BY <1>8 DEF FlushLands
  <2>2. Flushes(job, LandedRows) /\ bucket' = LandedBucket /\ foreign' = foreign \ {job.path}
    BY <1>8, LandsShape
  <2>3. \A p \in Paths : LandedRows[p] # NoRow /\ p \notin foreign' => bucket'[p] # NoBody
    BY <2>1, <2>2, RowLanded DEF RowInv, RowHasBody
  <2> QED BY <2>2, <2>3, RowFlushes
<1>9. CASE FlushRefused
  <2>1. job.pc = "flush"
    BY <1>9 DEF FlushRefused
  <2>2. Flushes(GivenUp, rows) /\ bucket' \in {bucket, LandedBucket} /\ UNCHANGED foreign
    BY <1>9, RefusedShape
  <2>3. \A p \in Paths : rows[p] # NoRow /\ p \notin foreign' => bucket'[p] # NoBody
    BY <2>1, <2>2, RowLanded DEF RowInv, RowHasBody
  <2> QED BY <2>2, <2>3, RowFlushes
<1>10. ASSUME NEW f \in Frames, NEW p \in Paths, VfsWrite(f, p) PROVE RowInv'
  <2>1. UNCHANGED <<job, rows, bucket, foreign>>
    BY <1>10 DEF VfsWrite, durable
  <2> QED BY <1>1, <2>1
<1>11. ASSUME NEW f \in Frames, VfsSplice(f) \/ VfsAck(f) PROVE RowInv'
  <2>1. UNCHANGED <<job, rows, bucket, foreign>>
    BY <1>11 DEF VfsSplice, VfsAck, durable, observed
  <2> QED BY <1>1, <2>1
<1>12. ASSUME NEW f \in Frames, VfsCommit(f) PROVE RowInv'
  <2>1. frames[f].path \in Paths /\ frames[f].body # NoBody /\ job.pc # "flush"
    BY <1>12, Sentinels DEF VfsCommit, FsInv, HandlerInv, ParkedInv
  <2>2. /\ bucket' = [bucket EXCEPT ![frames[f].path] = frames[f].body]
        /\ rows' = [rows EXCEPT ![frames[f].path] = [body |-> frames[f].body, origin |-> "frame"]]
        /\ foreign' = foreign \ {frames[f].path} /\ UNCHANGED job
    BY <1>12 DEF VfsCommit
  <2>3. rows \in [Paths -> RowType] /\ bucket \in [Paths -> BodyType]
    BY Types DEF FsInv
  <2> QED BY <2>1, <2>2, <2>3 DEF RowInv, RowHasBody
<1>13. ASSUME NEW f \in Frames, VfsRefused(f) PROVE RowInv'
  <2>1. frames[f].path \in Paths /\ frames[f].body # NoBody
    BY <1>13, Sentinels DEF VfsRefused, FsInv, HandlerInv
  <2>2. bucket' \in {bucket, [bucket EXCEPT ![frames[f].path] = frames[f].body]} /\ UNCHANGED <<rows, foreign, job>>
    BY <1>13 DEF VfsRefused, observed
  <2>3. bucket \in [Paths -> BodyType]
    BY Types DEF FsInv
  <2> QED BY <2>1, <2>2, <2>3 DEF RowInv, RowHasBody
<1>14. ASSUME NEW p \in Paths, ContainerWrites(p) PROVE RowInv'
  <2>1. /\ bucket' \in {[bucket EXCEPT ![p] = <<Fresh>>], [bucket EXCEPT ![p] = NoBody]}
        /\ foreign' = foreign \cup {p} /\ UNCHANGED <<rows, job>>
    BY <1>14 DEF ContainerWrites, memory
  <2>2. bucket \in [Paths -> BodyType]
    BY Types DEF FsInv
  <2>3. \A q \in Paths : q \notin foreign' => bucket'[q] = bucket[q] /\ q \notin foreign
    BY <2>1, <2>2
  <2> QED BY <2>1, <2>3 DEF RowInv, RowHasBody
<1>15. CASE BeginReconcile
  <2>1. job'.listing = bucket /\ job'.pc = "list" /\ UNCHANGED <<rows, bucket, foreign>>
    BY <1>15 DEF BeginReconcile, IdleJob, durable, observed
  <2> QED BY <2>1 DEF RowInv, RowHasBody
<1>16. CASE Reconcile
  <2>1. /\ rows' = [p \in Paths |-> IF job.listing[p] = NoBody THEN NoRow
                                    ELSE [body |-> job.listing[p], origin |-> "reconcile"]]
        /\ foreign' = {p \in foreign : bucket[p] # job.listing[p]} /\ UNCHANGED bucket /\ job.pc = "list"
    BY <1>16 DEF Reconcile
  <2>2. ASSUME NEW p \in Paths, rows'[p] # NoRow, p \notin foreign' PROVE bucket'[p] # NoBody
    <3>1. job.listing[p] # NoBody
      BY <2>1, <2>2
    <3>2. p \notin foreign \/ bucket[p] = job.listing[p]
      BY <2>1, <2>2
    <3> QED BY <2>1, <3>1, <3>2 DEF RowInv
  <2>3. job'.pc \notin {"flush", "list"}
    BY <1>16, ReconcileShape
  <2> QED BY <2>2, <2>3 DEF RowInv, RowHasBody
<1>17. CASE Crash
  <2>1. job' = IdleJob /\ UNCHANGED <<rows, foreign>>
    BY <1>17 DEF Crash
  <2>2. bucket \in [Paths -> BodyType]
    BY Types DEF FsInv
  <2>3. ASSUME NEW p \in Paths, rows[p] # NoRow, p \notin foreign PROVE bucket'[p] # NoBody
    <3>1. CASE bucket' = bucket
      BY <2>3, <3>1 DEF RowInv, RowHasBody
    <3>2. CASE /\ job.pc = "flush"
               /\ bucket' = [q \in Paths |-> IF q # job.path THEN bucket[q]
                                             ELSE IF job.ops[q] = Tombstone THEN NoBody ELSE job.ops[q]]
      <4>1. bucket' = LandedBucket
        BY <2>2, <3>2 DEF LandedBucket
      <4> QED BY <2>3, <3>2, <4>1, RowLanded DEF RowInv, RowHasBody
    <3>3. ASSUME NEW f \in Frames, frames[f].pc = "put",
                 bucket' = [bucket EXCEPT ![frames[f].path] = frames[f].body]
          PROVE  bucket'[p] # NoBody
      <4>1. frames[f].path \in Paths /\ frames[f].body # NoBody
        BY <3>3, Sentinels DEF FsInv, HandlerInv
      <4> QED BY <2>2, <2>3, <3>3, <4>1 DEF RowInv, RowHasBody
    <3> QED
      BY <1>17, <3>1, <3>2, <3>3 DEF Crash, InFlight
  <2> QED BY <2>1, <2>3, IdleFields DEF RowInv, RowHasBody
<1> QED
  BY <1>2, <1>3, <1>4, <1>5, <1>6, <1>7, <1>8, <1>9, <1>10, <1>11, <1>12, <1>13, <1>14, <1>15,
     <1>16, <1>17 DEF Next, Cells, VfsFrames

(* A row never dangles while clients write in their turns: whatever order  *)
(* bodies, rows, failed requests, listings, containers and crashes come in *)
(* (flush_staged_fs, vfs_write, reconcile_fs_files), for every number of   *)
(* paths, connections and writes.                                          *)
THEOREM RowAlwaysHasBody ==
    ASSUME FrameWindow = "parked"
    PROVE  Spec => []RowHasBody
<1>1. Init => RowInv
  BY IdleFields DEF Init, RowInv, RowHasBody
<1>2. RowInv => RowHasBody
  BY DEF RowInv
<1> QED
  BY <1>1, <1>2, RowStep, FsInvariant, ParkedFrames, PTL DEF Spec

-----------------------------------------------------------------------------
(* A checkpoint and the files of its heap.                                 *)

(* What a flush from job j over rows r has still to do.                    *)
Accounted(j, r) ==
    \A p \in Paths : heapOps[p] # NoOp /\ p \notin dropped =>
        /\ j.ops[p] = heapOps[p]
        /\ p \in j.todo \/ Published(p, heapOps[p], j.refused, r, bucket', foreign')

CheckpointPublished ==
    \A p \in Paths : heapOps[p] # NoOp =>
        p \in dropped \/ Published(p, heapOps[p], job'.refused, rows', bucket', foreign')

LEMMA HeapFlushes ==
    ASSUME FsInv, NEW j, NEW r, Flushes(j, r), Accounted(j, r)
    PROVE  HeapInv' /\ (job'.pc = "export" => CheckpointPublished)
<1>1. CASE Ends(j, r)
  <2>1. /\ rows' = r /\ job'.refused = j.refused /\ job'.pc = "export" /\ heapOps' = NoOps
        /\ \A p \in j.todo : r[p].origin = "frame"
    BY <1>1 DEF Ends, OwnedByFrame
  <2>2. HeapInv'
    BY <2>1 DEF HeapInv, NoOps
  <2>3. CheckpointPublished
    BY <2>1 DEF Accounted, CheckpointPublished, Published
  <2> QED BY <2>2, <2>3
<1>2. ASSUME NEW p \in Paths, GoesOn(j, r, p) PROVE HeapInv' /\ job'.pc = "flush"
  <2>1. /\ job'.pc = "flush" /\ job'.path = p /\ job'.todo = {q \in j.todo : q > p}
        /\ job'.ops = j.ops /\ job'.refused = j.refused /\ UNCHANGED <<heapOps, dropped>>
        /\ rows' = IF j.ops[p] = Tombstone THEN [r EXCEPT ![p] = NoRow] ELSE r
        /\ \A q \in j.todo : q > p \/ q = p \/ r[q].origin = "frame"
    BY <1>2 DEF GoesOn, OwnedByFrame
  <2>2. \A q \in Paths : q # p => rows'[q] = r[q]
    BY <2>1 DEF Flushes
  <2>3. ASSUME NEW q \in Paths, heapOps[q] # NoOp, q \notin dropped
        PROVE  /\ job'.ops[q] = heapOps[q]
               /\ q \in job'.todo \cup {job'.path}
                    \/ Published(q, heapOps[q], job'.refused, rows', bucket', foreign')
    <3>1. CASE q = p
      BY <2>1, <2>3, <3>1 DEF Accounted
    <3>2. CASE q # p /\ q \in j.todo
      BY <2>1, <2>2, <2>3, <3>2 DEF Accounted, Published
    <3>3. CASE q # p /\ q \notin j.todo
      BY <2>1, <2>2, <2>3, <3>3 DEF Accounted, Published
    <3> QED BY <3>1, <3>2, <3>3
  <2> QED BY <2>1, <2>3 DEF HeapInv
<1> QED
  BY <1>1, <1>2 DEF Flushes

(* A step of the flush finds everything accounted for.                     *)
LEMMA FlushAccounted ==
    ASSUME FsInv, RowInv, HeapInv, Checkpoint \/ FlushLands \/ FlushRefused
    PROVE  \/ CheckpointFails /\ Checkpoint
           \/ HeapInv' /\ (job'.pc = "export" => CheckpointPublished)
<1>1. CASE Checkpoint /\ ~CheckpointFails
  <2>1. Flushes(Taken, rows)
    BY <1>1, CheckpointShape DEF FsInv
  <2>2. job.pc # "flush"
    BY <1>1 DEF Checkpoint
  <2>3. Accounted(Taken, rows)
    BY <2>2, TakenFields DEF HeapInv, Accounted, FsInv
  <2> QED BY <2>1, <2>3, HeapFlushes
<1>2. CASE FlushLands
  <2>1. job.pc = "flush"
    BY <1>2 DEF FlushLands
  <2>2. Flushes(job, LandedRows) /\ bucket' = LandedBucket /\ foreign' = foreign \ {job.path}
    BY <1>2, LandsShape
  <2>3. \A p \in Paths : p # job.path => LandedBucket[p] = bucket[p] /\ LandedRows[p] = rows[p]
    BY <2>1, RowLanded
  <2>4. \/ /\ job.ops[job.path] = Tombstone
           /\ LandedRows[job.path] = NoRow /\ LandedBucket[job.path] = NoBody
        \/ LandedRows[job.path].body = job.ops[job.path] /\ LandedBucket[job.path] = job.ops[job.path]
    <3>1. job.path \in Paths /\ rows \in [Paths -> RowType] /\ bucket \in [Paths -> BodyType]
      BY <2>1, Types DEF FsInv, HandlerInv
    <3>2. CASE job.ops[job.path] = Tombstone
      BY <2>1, <3>1, <3>2, RowLanded DEF LandedBucket
    <3>3. CASE job.ops[job.path] # Tombstone
      BY <3>1, <3>3 DEF LandedBucket, LandedRows
    <3> QED BY <3>2, <3>3
  <2>5. Accounted(job, LandedRows)
    <3> SUFFICES ASSUME NEW p \in Paths, heapOps[p] # NoOp, p \notin dropped
                 PROVE  /\ job.ops[p] = heapOps[p]
                        /\ p \in job.todo
                             \/ Published(p, heapOps[p], job.refused, LandedRows, bucket', foreign')
      BY DEF Accounted
    <3>1. job.ops[p] = heapOps[p]
      BY <2>1 DEF HeapInv
    <3>2. CASE p = job.path
      BY <2>2, <2>4, <3>1, <3>2 DEF Published
    <3>3. CASE p # job.path
      <4>1. p \in job.todo \/ Published(p, heapOps[p], job.refused, rows, bucket, foreign)
        BY <2>1, <3>3 DEF HeapInv
      <4> QED BY <2>2, <2>3, <3>1, <3>3, <4>1 DEF Published
    <3> QED BY <3>2, <3>3
  <2> QED BY <2>2, <2>5, HeapFlushes
<1>3. CASE FlushRefused
  <2>1. job.pc = "flush"
    BY <1>3 DEF FlushRefused
  <2>2. /\ Flushes(GivenUp, rows) /\ bucket' \in {bucket, LandedBucket} /\ UNCHANGED foreign
        /\ GivenUp.todo = job.todo /\ GivenUp.ops = job.ops
        /\ GivenUp.refused = job.refused \cup {job.path}
    BY <1>3, RefusedShape
  <2>3. \A p \in Paths : p # job.path => bucket'[p] = bucket[p]
    BY <2>1, <2>2, RowLanded
  <2>4. Accounted(GivenUp, rows)
    <3> SUFFICES ASSUME NEW p \in Paths, heapOps[p] # NoOp, p \notin dropped
                 PROVE  /\ GivenUp.ops[p] = heapOps[p]
                        /\ p \in GivenUp.todo
                             \/ Published(p, heapOps[p], GivenUp.refused, rows, bucket', foreign')
      BY DEF Accounted
    <3>1. GivenUp.ops[p] = heapOps[p]
      BY <2>1, <2>2 DEF HeapInv
    <3>2. CASE p = job.path
      BY <2>2, <3>1, <3>2 DEF Published
    <3>3. CASE p # job.path
      <4>1. p \in job.todo \/ Published(p, heapOps[p], job.refused, rows, bucket, foreign)
        BY <2>1, <3>3 DEF HeapInv
      <4> QED BY <2>2, <2>3, <3>1, <4>1 DEF Published
    <3> QED BY <3>2, <3>3
  <2> QED BY <2>2, <2>4, HeapFlushes
<1> QED
  BY <1>1, <1>2, <1>3

LEMMA HeapStep ==
    FsInv /\ ParkedInv /\ RowInv /\ HeapInv /\ [Next]_vars
      => HeapInv' /\ (job'.pc = "export" /\ job'.mode = "checkpoint" /\ job.pc # "export" => CheckpointPublished)
<1> DEFINE Commits == job'.pc = "export" /\ job'.mode = "checkpoint" /\ job.pc # "export"
<1> SUFFICES ASSUME FsInv, ParkedInv, RowInv, HeapInv, [Next]_vars
             PROVE  HeapInv' /\ (Commits => CheckpointPublished)
  OBVIOUS
<1>1. ASSUME UNCHANGED <<heapOps, kernel, staged, dropped>>, job.pc # "flush",
             job'.pc \notin {"flush", "export"} \/ job' = job \/ job'.mode = "reconcile", job'.pc # "flush"
      PROVE  HeapInv' /\ ~Commits
  BY <1>1 DEF HeapInv
<1>2. CASE UNCHANGED vars
  BY <1>2 DEF HeapInv, Published, vars, durable, memory, observed
<1>3. CASE BeginEval
  <2>1. PICK d \in Durabilities : job' = [[IdleJob EXCEPT !.pc = "eval"] EXCEPT !.mode = d]
    BY <1>3 DEF BeginEval, IdleJob
  <2>2. job'.pc = "eval" /\ job.pc = "idle" /\ kernel' = "live" /\ UNCHANGED heapOps
    BY <1>3, <2>1 DEF IdleJob, BeginEval
  <2>3. \/ dropped' = {p \in Paths : heapOps[p] # NoOp}
        \/ staged' = staged /\ dropped' = dropped
    BY <1>3 DEF BeginEval
  <2> QED BY <2>2, <2>3 DEF HeapInv
<1>4. CASE ReturnBuffered \/ Export
  <2>1. job' = IdleJob /\ UNCHANGED <<heapOps, kernel, staged, dropped>> /\ job.pc # "flush"
    BY <1>4 DEF ReturnBuffered, Export, observed
  <2> QED BY <1>1, <2>1, IdleFields
<1>5. CASE FlushLost
  <2>1. UNCHANGED <<job, heapOps, kernel, staged, dropped>> /\ job.pc # "flush"
    BY <1>5 DEF FlushLost, memory, observed
  <2> QED BY <1>1, <2>1
<1>6. ASSUME NEW p \in Paths, StageWrite(p) \/ StageDelete(p) PROVE HeapInv' /\ ~Commits
  <2>1. PICK op : StageOp(p, op)
    BY <1>6 DEF StageWrite, StageDelete
  <2>2. /\ staged' = [staged EXCEPT ![p] = op] /\ heapOps' = [heapOps EXCEPT ![p] = op]
        /\ dropped' = dropped \ {p} /\ kernel = "live" /\ UNCHANGED <<kernel, job>> /\ job.pc = "eval"
    BY <2>1 DEF StageOp
  <2>3. staged \in [Paths -> OpType] /\ heapOps \in [Paths -> OpType]
    BY Types DEF FsInv
  <2> QED BY <2>2, <2>3 DEF HeapInv
<1>7. CASE Checkpoint \/ FlushLands \/ FlushRefused
  <2>1. CASE CheckpointFails /\ Checkpoint
    <3>1. job' = IdleJob /\ UNCHANGED <<heapOps, kernel, staged, dropped>> /\ job.pc # "flush"
      BY <2>1 DEF CheckpointFails, Checkpoint
    <3> QED BY <1>1, <3>1, IdleFields
  <2> QED BY <1>7, <2>1, FlushAccounted
<1>8. CASE VfsFrames
  <2>1. UNCHANGED <<job, heapOps, kernel, staged, dropped>>
    BY <1>8 DEF VfsFrames, VfsWrite, VfsSplice, VfsCommit, VfsRefused, VfsAck, observed
  <2>2. job.pc # "flush" \/ UNCHANGED <<rows, bucket, foreign>>
    BY <1>8 DEF VfsFrames, VfsWrite, VfsSplice, VfsCommit, VfsRefused, VfsAck, ParkedInv, durable, observed
  <2> QED BY <2>1, <2>2 DEF HeapInv, Published
<1>9. ASSUME NEW p \in Paths, ContainerWrites(p) PROVE HeapInv' /\ ~Commits
  <2>1. /\ bucket' \in {[bucket EXCEPT ![p] = <<Fresh>>], [bucket EXCEPT ![p] = NoBody]}
        /\ foreign' = foreign \cup {p} /\ UNCHANGED <<rows, job, heapOps, kernel, staged, dropped>>
    BY <1>9 DEF ContainerWrites, memory
  <2>2. bucket \in [Paths -> BodyType]
    BY Types DEF FsInv
  <2>3. \A q \in Paths : q \notin foreign' => bucket'[q] = bucket[q] /\ q \notin foreign
    BY <2>1, <2>2
  <2>4. \A q \in Paths : \A op : Published(q, op, job.refused, rows, bucket, foreign)
                               => Published(q, op, job'.refused, rows', bucket', foreign')
    BY <2>1, <2>3 DEF Published
  <2> QED BY <2>1, <2>4 DEF HeapInv
<1>10. CASE BeginReconcile \/ Reconcile \/ ReconcileFails
  <2>1. UNCHANGED <<heapOps, kernel, staged, dropped>> /\ job.pc # "flush"
    BY <1>10 DEF BeginReconcile, Reconcile, ReconcileFails, observed
  <2>2. job'.pc \notin {"flush", "export"} \/ job'.mode = "reconcile"
    <3>1. CASE BeginReconcile \/ ReconcileFails
      BY <3>1, IdleFields DEF BeginReconcile, ReconcileFails, IdleJob
    <3>2. CASE Reconcile
      BY <3>2, ReconcileShape DEF FsInv, HandlerInv, Reconcile
    <3> QED BY <1>10, <3>1, <3>2
  <2>3. job'.pc # "flush"
    BY <1>10, IdleFields, ReconcileShape DEF BeginReconcile, ReconcileFails, IdleJob
  <2> QED BY <1>1, <2>1, <2>2, <2>3
<1>11. ASSUME heapOps' = NoOps, job'.pc # "flush" PROVE HeapInv'
  BY <1>11 DEF HeapInv, NoOps
<1>12. CASE Reset
  <2>1. heapOps' = NoOps /\ job' = job /\ job.pc = "idle"
    BY <1>12 DEF Reset, LoseHeap
  <2> QED BY <1>11, <2>1
<1>13. CASE Evict
  <2>1. CASE job.pc = "flush"
    <3>1. UNCHANGED <<rows, bucket, foreign, job, heapOps, dropped>>
      BY <1>13, <2>1 DEF Evict, durable
    <3> QED BY <2>1, <3>1 DEF HeapInv, Published
  <2>2. CASE job.pc # "flush"
    <3>1. heapOps' = NoOps /\ job' = job
      BY <1>13, <2>2 DEF Evict, LoseHeap
    <3> QED BY <1>11, <2>2, <3>1
  <2> QED BY <2>1, <2>2
<1>14. CASE Crash
  <2>1. heapOps' = NoOps /\ job' = IdleJob
    BY <1>14 DEF Crash, LoseHeap
  <2> QED BY <1>11, <2>1, IdleFields
<1> QED
  BY <1>2, <1>3, <1>4, <1>5, <1>6, <1>7, <1>8, <1>9, <1>10, <1>12, <1>13, <1>14 DEF Next, Cells

(* Heap and files commit together, for every number of paths and cells:    *)
(* when a checkpoint's transaction is done, each file operation of the     *)
(* heap it committed is durable unless R2 refused it, someone else owns    *)
(* the path, or the next eval had dropped it (flush_staged_fs).            *)
THEOREM CommitAlwaysPublishes ==
    ASSUME FrameWindow = "parked"
    PROVE  Spec => CommitPublishes
<1> DEFINE A == job'.pc = "export" /\ job'.mode = "checkpoint" /\ job.pc # "export" =>
                   \A p \in Paths : heapOps[p] # NoOp =>
                       \/ p \in job'.refused \cup foreign' \cup dropped \/ rows'[p].origin = "frame"
                       \/ heapOps[p] = Tombstone /\ rows'[p] = NoRow /\ bucket'[p] = NoBody
                       \/ rows'[p].body = heapOps[p] /\ bucket'[p] = heapOps[p]
           I == FsInv /\ ParkedInv /\ RowInv /\ HeapInv
<1>1. Init => RowInv /\ HeapInv
  BY IdleFields DEF Init, RowInv, RowHasBody, HeapInv, NoOps
<1>2. I /\ [Next]_vars => HeapInv'
  BY HeapStep
<1>3. I /\ [Next]_vars => [A]_vars
  BY HeapStep DEF CheckpointPublished, Published
<1>4. CommitPublishes <=> [][A]_vars
  BY PTL DEF CommitPublishes
<1> QED
  BY <1>1, <1>2, <1>3, <1>4, RowStep, FsInvariant, ParkedFrames, PTL DEF Spec

-----------------------------------------------------------------------------
(* Acknowledged writes.                                                    *)

(* What a step may not do to the acknowledged writes of path p.            *)
KeepsAcked(p) ==
    \A a \in acked[p] :
        /\ a.version > evalStart
        /\ a.write \in Ids(bucket[p]) /\ rows[p].origin = "frame"
        /\ \E b \in acked'[p] : b.write = a.write
        => a.write \in Ids(bucket'[p]) /\ rows'[p] # NoRow

AckKeeps == AckInv' /\ \A p \in Paths : KeepsAcked(p)

LEMMA FrameRow == \A row : row.origin = "frame" => row # NoRow
BY DEF NoRow

LEMMA KeepsUntouched ==
    ASSUME NEW p \in Paths, bucket'[p] = bucket[p], rows'[p] = rows[p]
    PROVE  KeepsAcked(p)
BY FrameRow DEF KeepsAcked

LEMMA AckedTyped ==
    ASSUME FsInv
    PROVE  /\ fsVersion \in Nat /\ evalStart \in Nat
           /\ \A p \in Paths : \A a \in acked[p] : a.version \in Nat /\ a.write \in Write /\ a.write # 0
BY Types DEF FsInv, AckType, Write

(* A flush step from job j over rows r that has left alone what frames     *)
(* own keeps the acknowledged writes.                                      *)
LEMMA AckFlushes ==
    ASSUME FsInv, AckInv, NEW j, NEW r, Flushes(j, r), j.raced <=> fsVersion > evalStart,
           \A f \in Frames : frames[f].pc = "idle", UNCHANGED <<acked, evalStart, frames>>,
           \A p \in Paths : j.raced /\ rows[p].origin = "frame" => bucket'[p] = bucket[p] /\ r[p] = rows[p]
    PROVE  AckKeeps
<1>1. ASSUME NEW p \in Paths, j.raced /\ rows[p].origin = "frame" => rows'[p] = rows[p]
      PROVE  KeepsAcked(p)
  <2> SUFFICES ASSUME NEW a \in acked[p], a.version > evalStart, a.write \in Ids(bucket[p]),
                      rows[p].origin = "frame"
               PROVE  a.write \in Ids(bucket'[p]) /\ rows'[p] # NoRow
    BY DEF KeepsAcked
  <2>1. a.version <= fsVersion /\ a.version \in Nat /\ fsVersion \in Nat /\ evalStart \in Nat
    BY AckedTyped DEF AckInv
  <2>2. fsVersion > evalStart
    BY <2>1
  <2> QED BY <1>1, <2>2, FrameRow
<1>2. ASSUME fsVersion' \in Nat, fsVersion <= fsVersion', NEW p \in Paths, NEW a \in acked'[p]
      PROVE  a.version <= fsVersion'
  <2>1. a.version <= fsVersion /\ a.version \in Nat /\ fsVersion \in Nat
    BY AckedTyped DEF AckInv
  <2> QED BY <1>2, <2>1
<1>3. CASE Ends(j, r)
  <2>1. rows' = r /\ job'.pc = "export" /\ fsVersion' \in Nat /\ fsVersion <= fsVersion'
    BY <1>3 DEF Ends
  <2>2. AckInv'
    BY <1>2, <2>1 DEF AckInv
  <2> QED BY <1>1, <2>1, <2>2 DEF AckKeeps
<1>4. ASSUME NEW q \in Paths, GoesOn(j, r, q) PROVE AckKeeps
  <2>1. /\ job'.pc = "flush" /\ job'.path = q /\ job'.raced = j.raced /\ fsVersion' = fsVersion
        /\ rows' = IF j.ops[q] = Tombstone THEN [r EXCEPT ![q] = NoRow] ELSE r
        /\ ~(j.raced /\ r[q].origin = "frame")
    BY <1>4 DEF GoesOn, OwnedByFrame
  <2>2. r \in [Paths -> RowType]
    BY DEF Flushes
  <2>3. \A p \in Paths : p # q => rows'[p] = r[p]
    BY <2>1, <2>2
  <2>4. ~(j.raced /\ rows'[q].origin = "frame")
    <3>1. rows'[q] = r[q] \/ rows'[q] = NoRow
      BY <2>1, <2>2
    <3> QED BY <2>1, <3>1 DEF NoRow
  <2>5. AckInv'
    <3>1. /\ job'.raced <=> fsVersion' > evalStart'
          /\ ~OwnedByFrame(job', rows', job'.path)
      BY <2>1, <2>4 DEF OwnedByFrame
    <3>2. \A p \in Paths : \A a \in acked'[p] : a.version <= fsVersion'
      BY <2>1 DEF AckInv
    <3>3. \A f \in Frames : frames'[f].pc # "put"
      OBVIOUS
    <3> QED BY <2>1, <3>1, <3>2, <3>3 DEF AckInv, OwnedByFrame
  <2>6. \A p \in Paths : j.raced /\ rows[p].origin = "frame" => rows'[p] = rows[p]
    BY <2>1, <2>3
  <2> QED BY <1>1, <2>5, <2>6 DEF AckKeeps
<1> QED
  BY <1>3, <1>4 DEF Flushes

LEMMA AckFlushStep ==
    ASSUME FsInv, ParkedInv, RowInv, AckInv, FrameWindow = "parked",
           Checkpoint \/ FlushLands \/ FlushRefused
    PROVE  AckKeeps
<1>1. CASE Checkpoint /\ CheckpointFails
  <2>1. job' = IdleJob /\ UNCHANGED <<rows, bucket, acked, fsVersion, evalStart, frames>>
    BY <1>1 DEF Checkpoint, CheckpointFails
  <2> QED BY <2>1, IdleFields, KeepsUntouched DEF AckInv, AckKeeps
<1>2. CASE Checkpoint /\ ~CheckpointFails
  <2>1. Flushes(Taken, rows)
    BY <1>2, CheckpointShape DEF FsInv
  <2>2. /\ \A f \in Frames : frames[f].pc = "idle"
        /\ UNCHANGED <<bucket, acked, evalStart, frames>>
    BY <1>2 DEF Checkpoint
  <2>3. Taken.raced <=> fsVersion > evalStart
    BY TakenFields DEF FsInv
  <2> QED BY <2>1, <2>2, <2>3, AckFlushes
<1>3. CASE FlushLands \/ FlushRefused
  <2>1. job.pc = "flush" /\ UNCHANGED <<acked, evalStart, frames>>
    BY <1>3 DEF FlushLands, FlushRefused
  <2>2. \A f \in Frames : frames[f].pc = "idle"
    BY <2>1 DEF ParkedInv
  <2>3. \A p \in Paths : p # job.path => LandedBucket[p] = bucket[p] /\ LandedRows[p] = rows[p]
    BY <2>1, RowLanded
  <2>4. /\ job.raced <=> fsVersion > evalStart
        /\ ~(job.raced /\ rows[job.path].origin = "frame")
    BY <2>1 DEF AckInv, OwnedByFrame
  <2>5. CASE FlushLands
    <3>1. Flushes(job, LandedRows) /\ bucket' = LandedBucket
      BY <2>5, LandsShape
    <3>2. \A p \in Paths : job.raced /\ rows[p].origin = "frame"
                             => bucket'[p] = bucket[p] /\ LandedRows[p] = rows[p]
      BY <2>3, <2>4, <3>1
    <3> QED BY <2>1, <2>2, <2>4, <3>1, <3>2, AckFlushes
  <2>6. CASE FlushRefused
    <3>1. Flushes(GivenUp, rows) /\ bucket' \in {bucket, LandedBucket} /\ GivenUp.raced = job.raced
      BY <2>6, RefusedShape
    <3>2. \A p \in Paths : GivenUp.raced /\ rows[p].origin = "frame"
                             => bucket'[p] = bucket[p] /\ rows[p] = rows[p]
      BY <2>3, <2>4, <3>1
    <3>3. GivenUp.raced <=> fsVersion > evalStart
      BY <2>4, <3>1
    <3> QED BY <2>1, <2>2, <3>1, <3>2, <3>3, AckFlushes
  <2> QED BY <1>3, <2>5, <2>6
<1> QED
  BY <1>1, <1>2, <1>3

LEMMA AckFrameStep ==
    ASSUME FsInv, ParkedInv, AckInv, GetFaults = FALSE,
           FrameWindow = "parked", \A f, g \in Frames : f = g,
           NEW f \in Frames,
           \/ \E p \in Paths : VfsWrite(f, p)
           \/ VfsSplice(f) \/ VfsCommit(f) \/ VfsRefused(f) \/ VfsAck(f)
    PROVE  AckKeeps
<1>1. /\ frames \in [Frames -> FrameType] /\ bucket \in [Paths -> BodyType]
      /\ rows \in [Paths -> RowType] /\ acked \in [Paths -> SUBSET AckType] /\ fsVersion \in Nat
  BY Types DEF FsInv
<1>2. job.pc \notin {"flush", "list"} /\ UNCHANGED <<job, evalStart>>
  BY DEF VfsWrite, VfsSplice, VfsCommit, VfsRefused, VfsAck, ParkedInv, observed
<1>3. ASSUME NEW fr, SetFrame(f, fr) PROVE frames'[f] = fr /\ \A g \in Frames : g = f
  BY <1>1, <1>3 DEF SetFrame
<1>4. ASSUME \A p \in Paths : \A a \in acked'[p] : a.version <= fsVersion',
             frames'[f].pc = "put" =>
                 \A a \in acked'[frames'[f].path] : a.write \in Ids(bucket'[frames'[f].path])
                                                      => a.write \in Ids(frames'[f].body)
      PROVE  AckInv'
  BY <1>2, <1>4 DEF AckInv
<1>5. ASSUME NEW p \in Paths, VfsWrite(f, p) PROVE AckKeeps
  <2>1. UNCHANGED <<rows, bucket, fsVersion>>
    BY <1>5 DEF VfsWrite, durable
  <2>2. acked' = acked \/ acked' = [acked EXCEPT ![p] = {}]
    BY <1>5 DEF VfsWrite
  <2>3. \A q \in Paths : acked'[q] \subseteq acked[q]
    BY <1>1, <2>2
  <2>4. \A q \in Paths : \A a \in acked'[q] : a.version <= fsVersion'
    BY <2>1, <2>3 DEF AckInv
  <2>5. \/ frames'[f].pc = "put" /\ frames'[f].path = p /\ acked'[p] = {}
        \/ frames'[f].pc = "get"
    <3>1. PICK fr : SetFrame(f, fr) /\ \/ fr.pc = "put" /\ fr.path = p /\ acked' = [acked EXCEPT ![p] = {}]
                                       \/ fr.pc = "get"
      <4>1. PICK truncate \in BOOLEAN :
              IF truncate \/ rows[p] = NoRow
              THEN /\ SetFrame(f, [IdleFrame EXCEPT !.pc = "put", !.path = p,
                                                    !.write = Fresh, !.body = <<Fresh>>])
                   /\ acked' = [acked EXCEPT ![p] = {}]
              ELSE /\ SetFrame(f, [IdleFrame EXCEPT !.pc = "get", !.path = p, !.write = Fresh])
                   /\ UNCHANGED acked
        BY <1>5 DEF VfsWrite
      <4>2. /\ [IdleFrame EXCEPT !.pc = "put", !.path = p, !.write = Fresh, !.body = <<Fresh>>].pc = "put"
            /\ [IdleFrame EXCEPT !.pc = "put", !.path = p, !.write = Fresh, !.body = <<Fresh>>].path = p
            /\ [IdleFrame EXCEPT !.pc = "get", !.path = p, !.write = Fresh].pc = "get"
        BY DEF IdleFrame
      <4> QED BY <4>1, <4>2
    <3>2. frames'[f] = fr
      BY <1>3, <3>1
    <3> QED BY <1>1, <3>1, <3>2
  <2> QED BY <1>4, <2>1, <2>4, <2>5, KeepsUntouched DEF AckKeeps
<1>6. CASE VfsSplice(f)
  <2> DEFINE p == frames[f].path
             w == frames[f].write
  <2>1. UNCHANGED <<rows, bucket, acked, fsVersion>> /\ frames[f].pc = "get"
    BY <1>6 DEF VfsSplice, durable, observed
  <2>2. p \in Paths /\ w \in Write /\ bucket[p] \in BodyType
    BY <1>1, <2>1 DEF FsInv, HandlerInv
  <2>3. SetFrame(f, [[frames[f] EXCEPT !.pc = "put"] EXCEPT
                       !.body = IF bucket[p] = NoBody THEN <<w>> ELSE Append(bucket[p], w)])
    BY <1>6 DEF VfsSplice
  <2>4. /\ frames'[f].pc = "put" /\ frames'[f].path = p
        /\ frames'[f].body = IF bucket[p] = NoBody THEN <<w>> ELSE Append(bucket[p], w)
    <3> DEFINE body == IF bucket[p] = NoBody THEN <<w>> ELSE Append(bucket[p], w)
    <3>1. frames'[f] = [[frames[f] EXCEPT !.pc = "put"] EXCEPT !.body = body]
      BY <1>3, <2>3
    <3>2. frames[f] \in FrameType
      BY <1>1
    <3> HIDE DEF body
    <3>3. frames'[f].pc = "put" /\ frames'[f].path = frames[f].path /\ frames'[f].body = body
      BY <3>1, <3>2 DEF FrameType
    <3> QED BY <3>3 DEF body
  <2>5. ASSUME NEW a \in acked[p], a.write \in Ids(bucket[p]) PROVE a.write \in Ids(frames'[f].body)
    <3>1. bucket[p] # NoBody
      BY <2>2, <2>5, AckedTyped, Sentinels
    <3>2. bucket[p] \in Seq(Write) /\ frames'[f].body = Append(bucket[p], w)
      BY <2>2, <2>4, <3>1 DEF BodyType, Body
    <3>3. PICK i \in 1..Len(bucket[p]) : bucket[p][i] = a.write
      BY <2>5 DEF Ids
    <3> HIDE DEF p, w
    <3>4. i \in 1..Len(Append(bucket[p], w)) /\ Append(bucket[p], w)[i] = bucket[p][i]
      BY <2>2, <3>2, <3>3
    <3> QED BY <3>2, <3>3, <3>4 DEF Ids
  <2>6. \A q \in Paths : \A a \in acked'[q] : a.version <= fsVersion'
    BY <2>1 DEF AckInv
  <2> QED BY <1>4, <2>1, <2>4, <2>5, <2>6, KeepsUntouched DEF AckKeeps
<1>7. CASE VfsCommit(f)
  <2> DEFINE p == frames[f].path
             new == [write |-> frames[f].write, version |-> fsVersion + 1, exported |-> FALSE]
  <2>1. /\ frames[f].pc = "put" /\ bucket' = [bucket EXCEPT ![p] = frames[f].body]
        /\ rows' = [rows EXCEPT ![p] = [body |-> frames[f].body, origin |-> "frame"]]
        /\ acked' = [acked EXCEPT ![p] = acked[p] \cup {new}] /\ fsVersion' = fsVersion + 1
    BY <1>7 DEF VfsCommit
  <2>2. p \in Paths
    BY <2>1 DEF FsInv, HandlerInv
  <2>3. frames'[f].pc = "export"
    <3>1. SetFrame(f, [[[frames[f] EXCEPT !.pc = "export"] EXCEPT !.body = NoBody] EXCEPT !.version = fsVersion'])
      BY <1>7 DEF VfsCommit
    <3>2. frames'[f] = [[[frames[f] EXCEPT !.pc = "export"] EXCEPT !.body = NoBody] EXCEPT !.version = fsVersion']
      BY <1>3, <3>1
    <3>3. frames[f] \in FrameType
      BY <1>1
    <3> QED BY <3>2, <3>3 DEF FrameType
  <2>4. ASSUME NEW q \in Paths, NEW a \in acked'[q] PROVE a.version <= fsVersion'
    <3>1. a \in acked[q] \/ a = new
      BY <1>1, <2>1, <2>2
    <3>2. a \in acked[q] => a.version <= fsVersion /\ a.version \in Nat
      BY AckedTyped DEF AckInv
    <3>3. new.version = fsVersion'
      BY <2>1
    <3> HIDE DEF new
    <3> QED BY <1>1, <2>1, <3>1, <3>2, <3>3
  <2>5. ASSUME NEW q \in Paths PROVE KeepsAcked(q)
    <3>1. CASE q # p
      BY <1>1, <2>1, <3>1, KeepsUntouched
    <3>2. CASE q = p
      <4>1. bucket'[p] = frames[f].body /\ rows'[p].origin = "frame"
        BY <1>1, <2>1, <2>2
      <4>2. \A a \in acked[p] : a.write \in Ids(bucket[p]) => a.write \in Ids(bucket'[p])
        BY <2>1, <4>1 DEF AckInv
      <4> QED BY <3>2, <4>1, <4>2, FrameRow DEF KeepsAcked
    <3> QED BY <3>1, <3>2
  <2> QED BY <1>4, <2>3, <2>4, <2>5 DEF AckKeeps
<1>8. CASE VfsRefused(f)
  <2> DEFINE p == frames[f].path
  <2>1. /\ frames[f].pc = "put" /\ bucket' \in {bucket, [bucket EXCEPT ![p] = frames[f].body]}
        /\ UNCHANGED <<rows, acked, fsVersion>>
    BY <1>8 DEF VfsRefused, observed
  <2>2. p \in Paths
    BY <2>1 DEF FsInv, HandlerInv
  <2>3. frames'[f].pc = "idle"
    BY <1>3, <1>8, IdleFields DEF VfsRefused
  <2>4. ASSUME NEW q \in Paths PROVE KeepsAcked(q)
    <3>1. CASE bucket'[q] = bucket[q]
      BY <2>1, <3>1, KeepsUntouched
    <3>2. CASE bucket'[q] # bucket[q]
      <4>1. q = p /\ bucket'[p] = frames[f].body
        BY <1>1, <2>1, <2>2, <3>2
      <4>2. \A a \in acked[p] : a.write \in Ids(bucket[p]) => a.write \in Ids(bucket'[p])
        BY <2>1, <4>1 DEF AckInv
      <4> QED BY <2>1, <4>1, <4>2, FrameRow DEF KeepsAcked
    <3> QED BY <3>1, <3>2
  <2>5. \A q \in Paths : \A a \in acked'[q] : a.version <= fsVersion'
    BY <2>1 DEF AckInv
  <2> QED BY <1>4, <2>3, <2>4, <2>5 DEF AckKeeps
<1>9. CASE VfsAck(f)
  <2> DEFINE p == frames[f].path
  <2>1. UNCHANGED <<rows, bucket, fsVersion>> /\ frames[f].pc = "export"
    BY <1>9 DEF VfsAck
  <2>2. p \in Paths
    BY <2>1 DEF FsInv, HandlerInv
  <2>3. frames'[f].pc = "idle"
    BY <1>3, <1>9, IdleFields DEF VfsAck
  <2>4. PICK refused \in {FALSE, R2Faults} :
          acked' = [acked EXCEPT ![p] = {IF a.write = frames[f].write /\ ~refused
                                         THEN [a EXCEPT !.exported = TRUE] ELSE a : a \in acked[p]}]
    BY <1>9 DEF VfsAck
  <2>5. ASSUME NEW q \in Paths, NEW a \in acked'[q] PROVE a.version <= fsVersion'
    <3>1. PICK b \in acked[q] : a = b \/ a = [b EXCEPT !.exported = TRUE]
      BY <1>1, <2>2, <2>4
    <3>2. b \in AckType
      BY <1>1, <3>1
    <3>3. a.version = b.version
      BY <3>1, <3>2 DEF AckType
    <3> QED BY <2>1, <3>1, <3>3 DEF AckInv
  <2> QED BY <1>4, <2>1, <2>3, <2>5, KeepsUntouched DEF AckKeeps
<1> QED
  BY <1>5, <1>6, <1>7, <1>8, <1>9

LEMMA AckStep ==
    ASSUME FrameWindow = "parked", \A f, g \in Frames : f = g, GetFaults = FALSE,
           FsInv, ParkedInv, RowInv, AckInv, [Next]_vars
    PROVE  AckKeeps
<1>1. ASSUME UNCHANGED <<rows, bucket, acked, fsVersion, frames>>,
             job'.pc \notin {"flush", "list"} \/ UNCHANGED <<job, evalStart>>
      PROVE  AckKeeps
  BY <1>1, KeepsUntouched DEF AckInv, AckKeeps, OwnedByFrame
<1>2. CASE UNCHANGED vars
  BY <1>1, <1>2 DEF vars, durable, memory, observed
<1>3. CASE BeginEval
  <2>1. PICK d \in Durabilities : job' = [[IdleJob EXCEPT !.pc = "eval"] EXCEPT !.mode = d]
    BY <1>3 DEF BeginEval, IdleJob
  <2>2. job'.pc = "eval" /\ UNCHANGED <<rows, bucket, acked, fsVersion, frames>>
    BY <1>3, <2>1 DEF IdleJob, BeginEval
  <2> QED BY <1>1, <2>2
<1>4. CASE ReturnBuffered \/ Export \/ ReconcileFails
  <2>1. job' = IdleJob /\ UNCHANGED <<rows, bucket, acked, fsVersion, frames>>
    BY <1>4 DEF ReturnBuffered, Export, ReconcileFails, observed, durable
  <2> QED BY <1>1, <2>1, IdleFields
<1>5. CASE FlushLost \/ Reset \/ Evict
  <2>1. UNCHANGED <<job, evalStart, rows, bucket, acked, fsVersion, frames>>
    BY <1>5 DEF FlushLost, Reset, Evict, memory, durable, observed
  <2> QED BY <1>1, <2>1
<1>6. ASSUME NEW p \in Paths, StageWrite(p) \/ StageDelete(p) PROVE AckKeeps
  <2>1. /\ UNCHANGED <<job, evalStart, rows, bucket, fsVersion, frames>> /\ job.pc = "eval"
        /\ acked' = [acked EXCEPT ![p] = {}]
    BY <1>6 DEF StageWrite, StageDelete, StageOp, durable
  <2>2. \A q \in Paths : acked'[q] \subseteq acked[q]
    BY <2>1, Types DEF FsInv
  <2>3. \A f \in Frames : frames[f].pc = "put" => frames[f].path \in Paths
    BY DEF FsInv, HandlerInv
  <2> QED BY <2>1, <2>2, <2>3, KeepsUntouched DEF AckInv, AckKeeps
<1>7. CASE Checkpoint \/ FlushLands \/ FlushRefused
  BY <1>7, AckFlushStep
<1>8. CASE VfsFrames
  BY <1>8, AckFrameStep DEF VfsFrames
<1>9. ASSUME NEW p \in Paths, ContainerWrites(p) PROVE AckKeeps
  <2>1. /\ bucket' \in {[bucket EXCEPT ![p] = <<Fresh>>], [bucket EXCEPT ![p] = NoBody]}
        /\ acked' = [acked EXCEPT ![p] = {}]
        /\ UNCHANGED <<rows, job, evalStart, fsVersion, frames>>
    BY <1>9 DEF ContainerWrites, memory
  <2>2. bucket \in [Paths -> BodyType] /\ acked \in [Paths -> SUBSET AckType]
    BY Types DEF FsInv
  <2>3. acked'[p] = {} /\ \A q \in Paths : q # p => bucket'[q] = bucket[q] /\ acked'[q] = acked[q]
    BY <2>1, <2>2
  <2>4. \A q \in Paths : KeepsAcked(q)
    BY <2>1, <2>3, KeepsUntouched DEF KeepsAcked
  <2>5. \A f \in Frames : frames[f].pc = "put" => frames[f].path \in Paths
    BY DEF FsInv, HandlerInv
  <2>6. AckInv'
    BY <2>1, <2>3, <2>5 DEF AckInv, OwnedByFrame
  <2> QED BY <2>4, <2>6 DEF AckKeeps
<1>10. CASE BeginReconcile
  <2>1. /\ job'.listing = bucket /\ job'.pc = "list"
        /\ UNCHANGED <<rows, bucket, acked, fsVersion, frames>>
    BY <1>10 DEF BeginReconcile, IdleJob, durable, observed
  <2> QED BY <2>1, KeepsUntouched DEF AckInv, AckKeeps
<1>11. CASE Reconcile
  <2>1. /\ rows' = [p \in Paths |-> IF job.listing[p] = NoBody THEN NoRow
                                    ELSE [body |-> job.listing[p], origin |-> "reconcile"]]
        /\ UNCHANGED <<bucket, acked, frames>> /\ job.pc = "list"
    BY <1>11 DEF Reconcile
  <2>2. job'.pc \notin {"flush", "list"}
    BY <1>11, ReconcileShape
  <2>3. fsVersion' = fsVersion + 1 \/ fsVersion' = fsVersion
    BY <1>11 DEF Reconcile
  <2>4. ASSUME NEW p \in Paths, NEW a \in acked'[p] PROVE a.version <= fsVersion'
    <3>1. a.version <= fsVersion /\ a.version \in Nat /\ fsVersion \in Nat
      BY <2>1, AckedTyped DEF AckInv
    <3> QED BY <2>3, <3>1
  <2>5. \A f \in Frames : frames[f].pc = "idle"
    BY <2>1 DEF ParkedInv
  <2>6. AckInv'
    BY <2>1, <2>2, <2>4, <2>5 DEF AckInv
  <2>7. ASSUME NEW p \in Paths PROVE KeepsAcked(p)
    <3> SUFFICES ASSUME NEW a \in acked[p], a.write \in Ids(bucket[p]) PROVE rows'[p] # NoRow
      BY <2>1 DEF KeepsAcked
    <3>1. job.listing[p] = bucket[p]
      BY <2>1 DEF AckInv
    <3>2. bucket[p] # NoBody
      BY AckedTyped, Sentinels
    <3>3. rows'[p].origin = "reconcile"
      BY <2>1, <3>1, <3>2
    <3> QED BY <3>3 DEF NoRow
  <2> QED BY <2>6, <2>7 DEF AckKeeps
<1>12. CASE Crash
  <2>1. job' = IdleJob /\ UNCHANGED <<rows, acked, fsVersion>> /\ frames' = [f \in Frames |-> IdleFrame]
    BY <1>12 DEF Crash
  <2>2. AckInv'
    BY <2>1, IdleFields DEF AckInv
  <2>3. bucket \in [Paths -> BodyType]
    BY Types DEF FsInv
  <2>4. ASSUME NEW p \in Paths PROVE KeepsAcked(p)
    <3>1. CASE bucket' = bucket
      BY <2>1, <3>1, KeepsUntouched
    <3>2. CASE /\ job.pc = "flush"
               /\ bucket' = [q \in Paths |-> IF q # job.path THEN bucket[q]
                                             ELSE IF job.ops[q] = Tombstone THEN NoBody ELSE job.ops[q]]
      <4>1. CASE p # job.path
        BY <2>1, <3>2, <4>1, KeepsUntouched
      <4>2. CASE p = job.path
        <5>1. ~(fsVersion > evalStart /\ rows[p].origin = "frame")
          BY <3>2, <4>2 DEF AckInv, OwnedByFrame
        <5>2. \A a \in acked[p] : a.version > evalStart => fsVersion > evalStart
          <6> SUFFICES ASSUME NEW a \in acked[p], a.version > evalStart PROVE fsVersion > evalStart
            OBVIOUS
          <6>1. a.version <= fsVersion /\ a.version \in Nat /\ fsVersion \in Nat /\ evalStart \in Nat
            BY AckedTyped DEF AckInv
          <6> QED BY <6>1
        <5> QED BY <5>1, <5>2 DEF KeepsAcked
      <4> QED BY <4>1, <4>2
    <3>3. ASSUME NEW f \in Frames, frames[f].pc = "put",
                 bucket' = [bucket EXCEPT ![frames[f].path] = frames[f].body]
          PROVE  KeepsAcked(p)
      <4>1. frames[f].path \in Paths
        BY <3>3 DEF FsInv, HandlerInv
      <4>2. CASE p # frames[f].path
        BY <2>1, <2>3, <3>3, <4>2, KeepsUntouched
      <4>3. CASE p = frames[f].path
        <5>1. bucket'[p] = frames[f].body
          BY <2>3, <3>3, <4>3
        <5>2. \A a \in acked[p] : a.write \in Ids(bucket[p]) => a.write \in Ids(bucket'[p])
          BY <3>3, <4>3, <5>1 DEF AckInv
        <5> QED BY <2>1, <5>2, FrameRow DEF KeepsAcked
      <4> QED BY <4>2, <4>3
    <3> QED
      BY <1>12, <3>1, <3>2, <3>3 DEF Crash, InFlight
  <2> QED BY <2>2, <2>4 DEF AckKeeps
<1> QED
  BY <1>2, <1>3, <1>4, <1>5, <1>6, <1>7, <1>8, <1>9, <1>10, <1>11, <1>12 DEF Next, Cells

(* BUG-3 stays fixed for every number of paths, cells, writes, failed      *)
(* requests and crashes: with one connection that writes in its turns and  *)
(* whose GETs do not fail, no step destroys an acknowledged vfs-write of   *)
(* the current cell (flush_staged_fs steps aside, vfs_write splices).      *)
THEOREM AckedAlwaysSurvive ==
    ASSUME FrameWindow = "parked", \A f, g \in Frames : f = g, GetFaults = FALSE
    PROVE  Spec => ParkedAckSurvives
<1> DEFINE A == \A p \in Paths : \A a \in acked[p] :
                  /\ a.version > evalStart
                  /\ a.write \in Ids(bucket[p]) /\ rows[p].origin = "frame"
                  /\ \E b \in acked'[p] : b.write = a.write
                  => a.write \in Ids(bucket'[p]) /\ rows'[p] # NoRow
           I == FsInv /\ ParkedInv /\ RowInv /\ AckInv
<1>1. Init => RowInv /\ AckInv
  BY IdleFields DEF Init, RowInv, RowHasBody, AckInv
<1>2. I /\ [Next]_vars => AckInv'
  BY AckStep DEF AckKeeps
<1>3. I /\ [Next]_vars => [A]_vars
  BY AckStep DEF AckKeeps, KeepsAcked
<1>4. ParkedAckSurvives <=> [][A]_vars
  BY PTL DEF ParkedAckSurvives
<1> QED
  BY <1>1, <1>2, <1>3, <1>4, RowStep, FsInvariant, ParkedFrames, PTL DEF Spec

=============================================================================
