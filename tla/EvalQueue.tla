----------------------------- MODULE EvalQueue -----------------------------
(***************************************************************************)
(* How KernelDO (apps/kernel/src/lib.rs) admits, runs and answers the      *)
(* create and eval frames of its sockets: the bounded queue in front of    *)
(* the VM mutex, and the eval_replies rows that keep a frame sent twice    *)
(* (same reqId) from running its cell twice.  WsTransport adds the clients *)
(* that send the frames, and the next-state relation.                      *)
(*                                                                         *)
(* Data abstraction.  A request is <<client, number>> and stands for its   *)
(* reqId; a heap is the sequence of the requests whose cells it ran.  An   *)
(* answer is the kind of reply, and carries (unlike the real frame) the    *)
(* request it was computed for.  A snapshot is the moment its transaction  *)
(* commits; KernelSnapshots has the rest.  Of the frames that take no      *)
(* mutex only evict is here: it takes the glue from under a parked cell.   *)
(* reset, which empties eval_replies, is left out.                         *)
(***************************************************************************)
EXTENDS Integers, SequencesExt

CONSTANTS
    Clients,
    Kinds,          \* what pending_eval_reply may see in a cell's source
    MaxDepth,       \* DEFAULT_MAX_EVAL_QUEUE_DEPTH, 16 in the code
    MaxRows         \* eval_replies rows kept, 256 in the code

ASSUME QueueAssumption ==
    /\ Kinds \subseteq {"sideEffectLike", "timeoutLike", "neither"}
    /\ MaxDepth \in Nat \ {0} /\ MaxRows \in Nat \ {0}

VARIABLES
    frames,         \* frames sent and not yet received
    answers,        \* replies sent and not yet received
    open,           \* the sockets that are up; <<c, k>> is the k-th of client c
    queue,          \* the frames that hold a VmQueuePermit, mutex owner first
    phase,          \* how far the mutex owner is
    rows,           \* eval_replies, oldest first
    glue,           \* self.glue, "Some" or "None"
    heap,           \* the heap of the last glue
    committed       \* the heap a cold wake restores

wire == <<frames, answers, open>>
kernel == <<queue, phase, rows, glue, heap, committed>>

KernelInit ==
    /\ frames = {} /\ answers = {} /\ open = {}
    /\ queue = <<>> /\ phase = "queued" /\ rows = <<>>
    /\ glue = "None" /\ heap = <<>> /\ committed = <<>>

Elements(s) == {s[i] : i \in 1..Len(s)}

-----------------------------------------------------------------------------
(* ws.send of a reply; it is lost on a socket that has gone.               *)
Answer(f, res) ==
    answers' = IF f.sock \in open
               THEN answers \cup {[sock |-> f.sock, t |-> f.t, req |-> f.req, res |-> res]}
               ELSE answers

(* try_enter_vm_queue: a full queue answers at once, and keeps no trace.   *)
Receive(f) ==
    /\ f \in frames
    /\ frames' = frames \ {f}
    /\ IF Len(queue) >= MaxDepth
       THEN Answer(f, "queueFull") /\ UNCHANGED queue
       ELSE queue' = Append(queue, f) /\ UNCHANGED answers
    /\ UNCHANGED <<open, phase, rows, glue, heap, committed>>

(* A frame already on its way when its socket went down may be lost.       *)
LoseFrame(f) ==
    /\ f \in frames
    /\ f.sock \notin open
    /\ frames' = frames \ {f}
    /\ UNCHANGED <<answers, open, kernel>>

-----------------------------------------------------------------------------
(* The mutex owner.                                                        *)
Owner == queue[1]

(* Reply, close the permit and release the mutex.                          *)
Finish(res) ==
    /\ Answer(Owner, res)
    /\ queue' = Tail(queue)
    /\ phase' = "queued"

(* ensure_glue: a glue that is gone is restored from the snapshot.         *)
EnsureGlue ==
    /\ glue' = "Some"
    /\ heap' = IF glue = "Some" THEN heap ELSE committed

(* create_critical.                                                        *)
Create ==
    /\ queue # <<>> /\ phase = "queued"
    /\ Owner.t = "create"
    /\ EnsureGlue
    /\ Finish("created")
    /\ UNCHANGED <<frames, open, rows, committed>>

(* Where the row of req is (nowhere or at one place: req_id is the key).   *)
RowsOf(req) == {i \in 1..Len(rows) : rows[i].req = req}

(* write_eval_reply: an upsert, and only the newest MaxRows rows are kept. *)
WriteEvalReply(req, reply) ==
    LET others == IF RowsOf(req) = {} THEN rows
                  ELSE RemoveAt(rows, CHOOSE i \in RowsOf(req) : TRUE)
        all == Append(others, [req |-> req, reply |-> reply])
    IN  rows' = SubSeq(all, (IF Len(all) > MaxRows THEN Len(all) - MaxRows ELSE 0) + 1,
                       Len(all))

(* read_eval_reply.                                                        *)
EvalReplies(req) == {rows[i].reply : i \in RowsOf(req)}

(* pending_eval_replay, given what the reservation recorded of the source. *)
(* For a source that looks like neither, eval_critical returns the stored  *)
(* reservation itself.                                                     *)
PendingEvalReplay(kind) ==
    CASE kind = "timeoutLike"    -> "reservedTimeout"
      [] kind = "sideEffectLike" -> "reserved"
      [] kind = "neither"        -> "rawReservation"

(* eval_critical, a reqId seen before: the stored reply, or what a         *)
(* reservation stands for.  The cell is not run.                           *)
Replay ==
    /\ queue # <<>> /\ phase = "queued"
    /\ Owner.t = "eval"
    /\ \E reply \in EvalReplies(Owner.req) :
          Finish(IF reply \in Kinds THEN PendingEvalReplay(reply) ELSE reply)
    /\ UNCHANGED <<frames, open, rows, glue, heap, committed>>

(* Mutant: the cell starts with no reservation.                            *)
ReserveNothing ==
    /\ queue # <<>> /\ phase = "queued"
    /\ Owner.t = "eval"
    /\ EvalReplies(Owner.req) = {}
    /\ EnsureGlue
    /\ phase' = "run"
    /\ UNCHANGED <<wire, queue, rows, committed>>

(* eval_critical, a new reqId: reserved before anything is awaited.        *)
Reserve ==
    /\ queue # <<>> /\ phase = "queued"
    /\ Owner.t = "eval"
    /\ EvalReplies(Owner.req) = {}
    /\ WriteEvalReply(Owner.req, Owner.kind)
    /\ EnsureGlue
    /\ phase' = "run"
    /\ UNCHANGED <<wire, queue, committed>>

(* Mutant: the early return keeps the mutex.                               *)
EvalFailsKeepsMutex ==
    /\ phase = "run"
    /\ Answer(Owner, "error")
    /\ phase' = "stuck"
    /\ UNCHANGED <<frames, open, queue, rows, glue, heap, committed>>

(* Mutant: a failed eval withdraws its reservation.                        *)
EvalFailsForgets ==
    /\ phase = "run"
    /\ Finish("error")
    /\ rows' = SelectSeq(rows, LAMBDA row : row.req # Owner.req)
    /\ UNCHANGED <<frames, open, glue, heap, committed>>

(* ensure_glue or the glue returns an error: an error reply, while the     *)
(* reservation stays.                                                      *)
EvalFails ==
    /\ phase = "run"
    /\ Finish("error")
    /\ UNCHANGED <<frames, open, rows, glue, heap, committed>>

(* The cell runs (to its end, to an exception, or out of its budget).      *)
Execute ==
    /\ phase = "run" /\ glue = "Some"
    /\ heap' = Append(heap, Owner.req)
    /\ phase' = "ran"
    /\ UNCHANGED <<wire, queue, rows, glue, committed>>

(* An evict frame took the glue while the cell was parked: what it did is  *)
(* lost.  warmBuffered replies all the same; an eagerDurable cell goes to  *)
(* checkpoint_impl, which unwraps None and panics.  Nobody finishes the    *)
(* permit or releases the mutex any more.                                  *)
ExecuteEvicted ==
    /\ phase = "run" /\ glue = "None"
    /\ phase' \in {"notDurable", "trapped"}
    /\ UNCHANGED <<wire, queue, rows, glue, heap, committed>>

(* The checkpoint commits; or it fails, or warmBuffered skips it.  It has  *)
(* its own hold on the glue (clone_glue), so that what it dumps is heap,   *)
(* evicted or not.                                                         *)
Checkpoint ==
    /\ phase = "ran"
    /\ \/ phase' = "durable" /\ committed' = heap
       \/ phase' = "notDurable" /\ UNCHANGED committed
    /\ UNCHANGED <<wire, queue, rows, glue, heap>>

(* The reply takes the reservation's place, unless it is too large a value *)
(* for SQLite, and is sent.                                                *)
Reply ==
    /\ phase \in {"durable", "notDurable"}
    /\ Finish(phase)
    /\ WriteEvalReply(Owner.req, phase) \/ UNCHANGED rows
    /\ UNCHANGED <<frames, open, glue, heap, committed>>

-----------------------------------------------------------------------------
(* An evict frame, of any caller: it takes no mutex and drops the kernel.  *)
Evict ==
    /\ glue = "Some"
    /\ glue' = "None"
    /\ UNCHANGED <<wire, queue, phase, rows, heap, committed>>

(* The isolate goes away: queue, mutex and live heap with it, and every    *)
(* socket.                                                                 *)
Crash ==
    /\ queue' = <<>> /\ phase' = "queued"
    /\ glue' = "None" /\ heap' = committed
    /\ frames' = {} /\ answers' = {} /\ open' = {}
    /\ UNCHANGED <<rows, committed>>

Serve ==
    \/ Create \/ Replay \/ Reserve \/ EvalFails \/ Execute \/ ExecuteEvicted
    \/ Checkpoint \/ Reply

Kernel == Serve \/ Evict \/ \E f \in frames : Receive(f) \/ LoseFrame(f)
=============================================================================
