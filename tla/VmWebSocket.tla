---------------------------- MODULE VmWebSocket ----------------------------
(***************************************************************************)
(* A WebSocket opened from a cell.  The live socket and its inbound queue  *)
(* are in DO memory (the ws.* effects of apps/kernel/src/kernel-glue.ts);  *)
(* the VM keeps a handle and a cursor in its heap and pulls frames with    *)
(* the WebSocket class the engine installs (poll, then one parked recv).   *)
(*                                                                         *)
(* One handle.  A frame is its type and its seq; texts, codes, sends and   *)
(* the egress checks of _wsOpen (see Egress) are left out.                 *)
(***************************************************************************)
EXTENDS Integers, Sequences, FiniteSets, SequencesExt

CONSTANTS
    QueueMax,       \* WS_QUEUE_MAX_FRAMES
    MaxFrames       \* bound: events the remote end raises

ASSUME VmWebSocketAssumption == QueueMax \in Nat \ {0} /\ MaxFrames \in Nat

VARIABLES
    reg,        \* the entry of _ws; up = FALSE: there is none
    vm,         \* the VM's WebSocket object and the operation it is in
    remote,     \* what the remote end has done
    saved,      \* the VM's object in the committed snapshot
    lost        \* observation: seqs dropped before the VM had read them

wsVars == <<reg, vm, remote, saved, lost>>

NoReg == [up |-> FALSE, queue |-> <<>>, seq |-> 0, closed |-> FALSE,
          droppedThrough |-> 0, waiter |-> FALSE]
NewVm == [pc |-> "idle", handle |-> FALSE, ready |-> "CONNECTING", last |-> 0,
          got |-> <<>>, told |-> 0]

WsInit ==
    /\ reg = NoReg /\ vm = NewVm /\ saved = NewVm
    /\ remote = [events |-> 0, open |-> FALSE]
    /\ lost = {}

Since == vm.last + 1
AtOrAfter(queue, since) ==
    FoldLeft(LAMBDA out, f : IF f.seq >= since THEN Append(out, f) ELSE out, <<>>, queue)

-----------------------------------------------------------------------------
(* _ingest: the cursor moves to the frame, and the event is dispatched.    *)
(* "gone" is a close and "dropped" an overflow marker that recv or poll    *)
(* makes up; the other types are queued frames.                            *)
Ingest(v, f) ==
    [v EXCEPT !.last = IF f.seq > @ THEN f.seq ELSE @,
              !.got = IF f.type \notin {"gone", "dropped"} THEN Append(@, f.seq) ELSE @,
              !.told = IF f.type = "dropped" /\ f.seq > @ THEN f.seq ELSE @,
              !.ready = CASE f.type \in {"close", "gone"} -> "CLOSED"
                          [] f.type \in {"open", "message"} /\ @ = "CONNECTING" -> "OPEN"
                          [] OTHER -> @]

(* Mutant: the newest frame is dropped instead of the oldest.              *)
EnqueueDropsNewest(r, type) ==
    LET f == [type |-> type, seq |-> r.seq + 1]
        full == Len(r.queue) >= QueueMax IN
    [reg |-> [r EXCEPT !.seq = @ + 1, !.queue = IF full THEN @ ELSE Append(@, f),
                       !.droppedThrough = IF full THEN f.seq ELSE @, !.waiter = FALSE],
     woke |-> r.waiter, frame |-> f, dropped |-> {}]

(* _wsEnqueue: number the frame, drop the oldest past the bound, hand the  *)
(* frame to a parked recv.                                                 *)
Enqueue(r, type) ==
    LET f == [type |-> type, seq |-> r.seq + 1]
        q == Append(r.queue, f)
        n == IF Len(q) > QueueMax THEN 1 ELSE 0 IN
    [reg |-> [r EXCEPT !.seq = @ + 1, !.queue = SubSeq(q, 1 + n, Len(q)),
                       !.droppedThrough = IF n = 1 /\ q[1].seq > @ THEN q[1].seq ELSE @,
                       !.waiter = FALSE],
     woke |-> r.waiter, frame |-> f, dropped |-> {q[i].seq : i \in 1..n}]

(* A socket listener enqueues a frame; the VM goes on when it was parked.  *)
Arrives(r, type) ==
    LET e == Enqueue(r, type) IN
    /\ reg' = e.reg
    /\ vm' = IF e.woke THEN [Ingest(vm, e.frame) EXCEPT !.pc = "idle"] ELSE vm
    /\ lost' = lost \cup {s \in e.dropped : s > vm.last}

(* _wsOpen: refused (a URL, egress or upgrade failure), or connected, with *)
(* an open frame queued.                                                   *)
WsOpenRefused ==
    /\ vm.pc = "idle" /\ ~vm.handle /\ vm.ready = "CONNECTING"
    /\ vm' = [vm EXCEPT !.ready = "CLOSED"]
    /\ UNCHANGED <<reg, remote, saved, lost>>

WsOpen ==
    /\ vm.pc = "idle" /\ ~vm.handle /\ vm.ready = "CONNECTING"
    /\ reg' = Enqueue([NoReg EXCEPT !.up = TRUE], "open").reg
    /\ vm' = [vm EXCEPT !.handle = TRUE]
    /\ remote' = [remote EXCEPT !.open = TRUE]
    /\ UNCHANGED <<saved, lost>>

(* The listeners: a message (or the marker for one that is too large), an  *)
(* error, the close.  Frames in flight when the VM closed still arrive.    *)
RemoteEvent(type) ==
    /\ reg.up /\ remote.open /\ remote.events < MaxFrames
    /\ type \in {"message", "overflow", "error"}
    /\ Arrives(reg, type)
    /\ remote' = [remote EXCEPT !.events = @ + 1]
    /\ UNCHANGED saved

RemoteCloses ==
    /\ reg.up /\ remote.open
    /\ Arrives([reg EXCEPT !.closed = TRUE], "close")
    /\ remote' = [remote EXCEPT !.open = FALSE]
    /\ UNCHANGED saved

-----------------------------------------------------------------------------
(* pump and recv start with ws.poll: every queued frame at or after the    *)
(* cursor (pump takes them all, recv the first).  A missing handle is a    *)
(* severed close.  Cells stop pulling from a socket they saw close.        *)
WsPoll(n) ==
    /\ vm.pc = "idle" /\ vm.handle /\ vm.ready # "CLOSED"
    /\ LET events == AtOrAfter(reg.queue, Since) IN
       IF ~reg.up
       THEN n = 0 /\ vm' = Ingest(vm, [type |-> "gone", seq |-> Since])
       ELSE /\ n = Len(events) \/ (n = 1 /\ events # <<>>)
            /\ vm' = IF events = <<>> THEN [vm EXCEPT !.pc = "recv"]
                     ELSE FoldLeft(Ingest, vm, SubSeq(events, 1, n))
    /\ UNCHANGED <<reg, remote, saved, lost>>

(* ws.recv: the overflow marker, a queued frame, a close, else park with a *)
(* waiter in place.                                                        *)
WsRecv ==
    /\ vm.pc = "recv"
    /\ LET events == AtOrAfter(reg.queue, Since)
           back(f) == [Ingest(vm, f) EXCEPT !.pc = "idle"] IN
       CASE ~reg.up ->
              vm' = back([type |-> "gone", seq |-> Since]) /\ UNCHANGED reg
         [] reg.up /\ reg.droppedThrough >= Since ->
              /\ vm' = back([type |-> "dropped", seq |-> reg.droppedThrough])
              /\ reg' = [reg EXCEPT !.droppedThrough = 0]
         [] reg.up /\ reg.droppedThrough < Since /\ events # <<>> ->
              vm' = back(Head(events)) /\ UNCHANGED reg
         [] reg.up /\ reg.droppedThrough < Since /\ events = <<>> /\ reg.closed ->
              vm' = back([type |-> "gone", seq |-> reg.seq]) /\ UNCHANGED reg
         [] OTHER ->
              vm' = [vm EXCEPT !.pc = "parked"] /\ reg' = [reg EXCEPT !.waiter = TRUE]
    /\ UNCHANGED <<remote, saved, lost>>

(* Mutant: the deadline of a parked recv is not checked.                   *)
RecvNeverIdles ==
    /\ vm.pc = "parked" /\ AtOrAfter(reg.queue, Since) # <<>>
    /\ vm' = [vm EXCEPT !.pc = "idle"]
    /\ UNCHANGED <<reg, remote, saved, lost>>

(* The poll timer of a parked recv at its deadline: idle, and the waiter   *)
(* is withdrawn.                                                           *)
RecvIdles ==
    /\ vm.pc = "parked" /\ AtOrAfter(reg.queue, Since) = <<>> /\ ~reg.closed
    /\ vm' = [vm EXCEPT !.pc = "idle"]
    /\ reg' = [reg EXCEPT !.waiter = FALSE]
    /\ UNCHANGED <<remote, saved, lost>>

(* ws.close: the socket is told, the entry stays.  (A cell that closes is  *)
(* not parked, so no waiter is left to wake.)                              *)
WsClose ==
    /\ vm.pc = "idle" /\ vm.handle /\ vm.ready # "CLOSED"
    /\ reg' = [reg EXCEPT !.closed = reg.up]
    /\ vm' = [vm EXCEPT !.ready = "CLOSED"]
    /\ UNCHANGED <<remote, saved, lost>>

-----------------------------------------------------------------------------
(* Between operations a cell may end and commit the VM's heap.             *)
Commit ==
    /\ vm.pc = "idle" /\ saved # vm
    /\ saved' = vm
    /\ UNCHANGED <<reg, vm, remote, lost>>

(* Hibernation: the socket dies with the isolate, the heap is the saved    *)
(* one, and its handle is severed.                                         *)
Hibernate ==
    /\ reg' = NoReg
    /\ vm' = saved
    /\ remote' = [remote EXCEPT !.open = FALSE]
    /\ lost' = {}
    /\ UNCHANGED saved

WsNext ==
    \/ WsOpen \/ WsOpenRefused \/ WsRecv \/ RecvIdles \/ WsClose
    \/ \E n \in 0..QueueMax : WsPoll(n)
    \/ \E t \in {"message", "overflow", "error"} : RemoteEvent(t)
    \/ RemoteCloses \/ Commit \/ Hibernate

WsSpec == WsInit /\ [][WsNext]_wsVars

-----------------------------------------------------------------------------
(* While the socket lives, the events dispatched are the frames received,  *)
(* in order and without repetition: one is missing only when the queue     *)
(* dropped it unread.                                                      *)
DeliveredInOrder ==
    /\ \A i \in 1..(Len(vm.got) - 1) : vm.got[i] < vm.got[i + 1]
    /\ reg.up => 1..vm.last \subseteq Range(vm.got) \cup lost

(* Once the VM has been told of a loss it has been told of all the frames  *)
(* before it: "drop-oldest and surface a typed overflow marker so loss is  *)
(* visible".                                                               *)
LossIsAnnounced == \A s \in lost : s < vm.last => s <= vm.told

(* A recv returns: a frame, a close or idle.                               *)
RecvReturns == (vm.pc # "idle") ~> (vm.pc = "idle")

=============================================================================
