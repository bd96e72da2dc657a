--------------------------- MODULE DurableSession ---------------------------
(***************************************************************************)
(* What an engram session promises about its heap, with no chunks, deltas, *)
(* buckets or restarts in sight.  A session has a live heap, a committed   *)
(* heap (what a cold wake brings back) and, while a checkpoint is under    *)
(* way, the snapshot it is about to commit.  A heap is the sequence of the *)
(* evaluations that built it.                                              *)
(*                                                                         *)
(* apps/docs/src/content/docs/durability/hibernation.md: "Per-cell         *)
(* move-forward checkpoints recover to the last committed cell."           *)
(***************************************************************************)
EXTENDS Sequences

CONSTANTS
    Evals,          \* the evaluations a client may ask for
    NoImage         \* "no snapshot is being taken"

VARIABLES
    committed,      \* the heap a cold wake restores
    live,           \* the heap the next evaluation runs in
    snapshot        \* the heap a checkpoint is committing, or NoImage

vars == <<committed, live, snapshot>>

Init ==
    /\ committed = <<>>
    /\ live = <<>>
    /\ snapshot = NoImage

(* A cell runs in the live heap; with eager durability its snapshot is     *)
(* taken in the same step.                                                 *)
Run ==
    /\ snapshot = NoImage
    /\ \E e \in Evals : live' = Append(live, e)
    /\ snapshot' \in {NoImage, live'}
    /\ UNCHANGED committed

(* A flush takes a snapshot of a heap that ran before.                     *)
TakeSnapshot ==
    /\ snapshot = NoImage
    /\ snapshot' = live
    /\ UNCHANGED <<committed, live>>

(* The snapshot, and nothing else, becomes the committed heap.             *)
Commit ==
    /\ snapshot # NoImage
    /\ committed' = snapshot
    /\ live' = snapshot
    /\ snapshot' = NoImage

(* A checkpoint fails: neither heap moves.                                 *)
Abandon ==
    /\ snapshot' = NoImage
    /\ UNCHANGED <<committed, live>>

(* Uncommitted work is lost and exactly the committed heap comes back.     *)
Lose ==
    /\ live' = committed
    /\ snapshot' \in {NoImage, snapshot}
    /\ UNCHANGED committed

(* reset.                                                                  *)
Wipe ==
    /\ committed' = <<>>
    /\ live' = <<>>
    /\ snapshot' = NoImage

Next == Run \/ TakeSnapshot \/ Commit \/ Abandon \/ Lose \/ Wipe

Spec == Init /\ [][Next]_vars
=============================================================================
