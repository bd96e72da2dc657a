----------------------------- MODULE HostCalls -----------------------------
(***************************************************************************)
(* The host-call loop of the kernel glue (GlueKernel.evalCode in           *)
(* apps/kernel/src/kernel-glue.ts): a cell runs in the engine until it     *)
(* parks on host.<name>(...), the glue serves the call and resumes the     *)
(* engine with the result.  The calls served are fetch, fetch streams,     *)
(* the client bridge, registered extensions, host.fs, the sandbox and the  *)
(* ws.* effects (VmWebSocket models their queue).  Around the loop: the    *)
(* cell's number and fence, the crash-tail journal, eviction, the two ways *)
(* a cold kernel comes back, and the reset that starts the numbers again.  *)
(*                                                                         *)
(* Bytes of a stream are counted in units of STREAM_CHUNK_BYTES; what a    *)
(* call returns is reduced to what the properties tell apart.              *)
(***************************************************************************)
EXTENDS Integers, Sequences, FiniteSets, SequencesExt

CONSTANTS
    Sources,        \* the cells clients submit, each once
    Kinds,          \* the host calls the cells make
    Budget,         \* config.max*PerCell of each class of calls
    CallsPerCell,   \* an extension's limits.callsPerCell
    Body,           \* length of a streamed body, in units
    Faults,         \* subset of {"evict", "refuse", "clamp"}
    MaxCalls,       \* bound: host calls of all live cells together
    MaxResets       \* bound: resets of the session

Classes == {"guard", "stream", "ws", "fs"}
AllKinds == {"post", "open", "upload", "read", "write", "cancel",
             "client", "ext", "fs", "sandbox", "ws"}

ASSUME HostCallsAssumption ==
    /\ Kinds \subseteq AllKinds
    /\ Sources \subseteq Nat \ {0}
    /\ Budget \in [Classes -> Nat \ {0}]
    /\ CallsPerCell \in Nat \ {0} /\ Body \in Nat /\ MaxCalls \in Nat /\ MaxResets \in Nat
    /\ Faults \subseteq {"evict", "refuse", "clamp"}

VARIABLES
    eval,       \* evalCode's locals while a cell runs (pc = "idle": none does)
    engine,     \* RESULT: whose result the engine's buffer holds; warm
    oplog,      \* the committed cells: source, calls made, results recorded
    bridge,     \* __pendingHostCalls and __hostCallSeq
    streams,    \* _streams: streamId -> state of the stream
    heap,       \* handles the VM holds, with the units each has received
    saved,      \* the heap of the committed snapshot
    todo,       \* sources not submitted yet
    made,       \* host calls made by live cells, for the bound
    epoch,      \* how often the session was reset
    done,       \* observation: the cells ever committed
    fired,      \* observation: the effects sent out, with their fence keys
    reply       \* observation: whose result each submission was answered with

vars == <<eval, engine, oplog, bridge, streams, heap, saved, todo, made, epoch, done, fired,
          reply>>

NoSrc == 0
NoKey == <<>>
NoStreams == [k \in {} |-> <<>>]
Idle ==
    [pc |-> "idle", src |-> NoSrc, no |-> 0, live |-> TRUE, calls |-> <<>>,
     ops |-> [c \in Classes |-> 0], ext |-> 0, res |-> <<>>, feed |-> <<>>,
     id |-> 0]

Init ==
    /\ eval = Idle
    /\ engine = [result |-> NoSrc, warm |-> TRUE, replayed |-> 0]
    /\ oplog = <<>>
    /\ bridge = [pending |-> {}, seq |-> 0]
    /\ streams = NoStreams /\ heap = <<>> /\ saved = <<>>
    /\ todo = Sources /\ made = 0 /\ epoch = 0 /\ done = {}
    /\ fired = {} /\ reply = [s \in Sources |-> NoSrc]

-----------------------------------------------------------------------------
(* The budget a call is charged to.                                        *)
ClassOf(kind) ==
    CASE kind \in {"read", "write"} -> "stream"
      [] kind = "ws" -> "ws"
      [] kind = "fs" -> "fs"
      [] OTHER -> "guard"

WithinBudget(ops) == \A c \in Classes : ops[c] <= Budget[c]

(* The ordinal of the call being served (_curFetchSeq), and the name that  *)
(* fence, stream and socket ids are made of: (doId, cell, ordinal).  A     *)
(* fresh glue that replays its journal has no fence context yet.           *)
Ordinal == Len(eval.res)

(* Mutant: the fence is set when the kernel comes up, not per cell.        *)
FenceNameOfKernel == IF eval.live THEN <<1, Ordinal>> ELSE <<0, Ordinal>>

FenceName == IF eval.live THEN <<eval.no, Ordinal>> ELSE <<0, Ordinal>>
Effect == <<eval.src, Ordinal>>

(* evalCode up to eval_begin, for a client's cell: the next cell number.   *)
EvalBegin(s) ==
    /\ eval.pc = "idle" /\ engine.warm
    /\ s \in todo /\ \A u \in todo : s <= u
    /\ todo' = todo \ {s}
    /\ eval' = [Idle EXCEPT !.pc = "vm", !.src = s, !.no = Len(oplog) + 1]
    /\ UNCHANGED <<engine, oplog, bridge, streams, heap, saved, made, epoch, done, fired, reply>>

(* The VM parks on a call; the loop's condition is the budgets as they     *)
(* stand before this call is charged.  A replayed cell makes the calls it  *)
(* made before.                                                            *)
VmCalls(kind) ==
    /\ eval.pc = "vm"
    /\ made' = IF eval.live THEN made + 1 ELSE made
    /\ eval.live => made < MaxCalls
    /\ ~eval.live => /\ Len(eval.calls) < Len(oplog[eval.no].calls)
                     /\ kind = oplog[eval.no].calls[Len(eval.calls) + 1]
    /\ kind \in {"read", "write", "cancel"} => heap # <<>>
    /\ IF WithinBudget(eval.ops)
       THEN eval' = [eval EXCEPT !.pc = "call", !.calls = Append(@, kind),
                                 !.ops[ClassOf(kind)] = @ + 1]
       ELSE eval' = [eval EXCEPT !.pc = "over", !.calls = Append(@, kind)]
    /\ UNCHANGED <<engine, oplog, bridge, streams, heap, saved, todo, epoch, done, fired, reply>>

(* A result: what the call returned (a stream's id, a unit of a body, the  *)
(* hostcall frame that was answered), for which handle or frame.           *)
Result(data, for) == [kind |-> Last(eval.calls), data |-> data, for |-> for]
Plain == Result(<<>>, 0)

(* eval_resume: the result is recorded and the VM goes on with it.         *)
Resume(r) ==
    /\ eval' = [eval EXCEPT !.pc = "vm", !.id = 0, !.res = Append(@, r),
                            !.feed = IF @ = <<>> THEN @ ELSE Tail(@)]
    /\ heap' = IF r.kind \in {"open", "upload"}
               THEN Append(heap, [id |-> r.data, of |-> Effect, got |-> <<>>])
               ELSE IF r.kind = "read" /\ r.data # <<>>
               THEN [heap EXCEPT ![r.for].got = Append(@, r.data)]
               ELSE heap

(* Replay: the recorded result is fed back, the effect does not fire.      *)
Feeding == eval.feed # <<>>
FeedRecorded ==
    /\ eval.pc = "call" /\ Feeding
    /\ Resume(Head(eval.feed))
    /\ UNCHANGED <<engine, oplog, bridge, streams, saved, todo, made, epoch, done, fired, reply>>

Serving(kind) == eval.pc = "call" /\ ~Feeding /\ Last(eval.calls) = kind

(* _doFetch with a non-idempotent method: sent with an Idempotency-Key     *)
(* made of the fence, when there is a fence.                               *)
DoFetch ==
    /\ Serving("post")
    /\ fired' = fired \cup {[effect |-> Effect, live |-> eval.live, epoch |-> epoch,
                             key |-> IF eval.live THEN FenceName ELSE NoKey]}
    /\ Resume(Plain)
    /\ UNCHANGED <<engine, oplog, bridge, streams, saved, todo, made, epoch, done, reply>>

(* _doSandbox, when the capability is on and the endpoint configured: a    *)
(* request to the container worker (module Sandbox), with no fence.  When  *)
(* it is not, nothing is sent (SandboxUnavailable): that is an "fs" call   *)
(* as far as this module can tell.                                         *)
DoSandbox ==
    /\ Serving("sandbox")
    /\ fired' = fired \cup {[effect |-> Effect, live |-> eval.live, epoch |-> epoch,
                             key |-> NoKey]}
    /\ Resume(Plain)
    /\ UNCHANGED <<engine, oplog, bridge, streams, saved, todo, made, epoch, done, reply>>

(* _serviceFs: the installed handler (module HostFs) answers, and whatever *)
(* goes wrong comes back as a value.                                       *)
ServiceFs ==
    /\ Serving("fs")
    /\ Resume(Plain)
    /\ UNCHANGED <<engine, oplog, bridge, streams, saved, todo, made, epoch, done, fired, reply>>

(* The effects of the VM's WebSockets and sockets (modules VmWebSocket and *)
(* Sockets): every failure is a value here too.                            *)
ServiceChannel ==
    /\ Serving("ws")
    /\ Resume(Plain)
    /\ UNCHANGED <<engine, oplog, bridge, streams, saved, todo, made, epoch, done, fired, reply>>

-----------------------------------------------------------------------------
(* Fetch streams.  The registry lives in DO memory; the VM holds the id.   *)
Units(of, from, n) == [i \in 1..n |-> <<of, from + i>>]

Put(id, st) == [k \in DOMAIN streams \cup {id} |-> IF k = id THEN st ELSE streams[k]]
Drop(id) == [k \in DOMAIN streams \ {id} |-> streams[k]]

(* _doFetchStream: a chunked download, or an upload whose response comes   *)
(* later.  (A short body is returned inline, as fetch does.)               *)
DoFetchStream(kind) ==
    /\ kind \in {"open", "upload"} /\ Serving(kind)
    /\ streams' = Put(FenceName, [of |-> Effect, reader |-> kind = "open", writer |-> kind = "upload",
                                  read |-> 0, pending |-> <<>>, done |-> FALSE])
    /\ Resume(Result(FenceName, 0))
    /\ UNCHANGED <<engine, oplog, bridge, saved, todo, made, epoch, done, fired, reply>>

(* Mutant: the leftover that was served stays pending.                     *)
DoStreamReadKeepsLeftover(h, n) ==
    /\ Serving("read") /\ h \in DOMAIN heap
    /\ LET id == heap[h].id
           known == id \in DOMAIN streams /\ streams[id].reader
           st == streams[id]
           chunk == IF st.pending # <<>> THEN st.pending ELSE Units(st.of, st.read, n)
           fresh == st.pending = <<>> IN
       IF ~known
       THEN n = 0 /\ Resume(Plain) /\ UNCHANGED streams
       ELSE IF chunk = <<>>
       THEN st.read = Body /\ Resume(Plain) /\ streams' = Drop(id)
       ELSE /\ IF fresh THEN st.read + n <= Body ELSE n = 0
            /\ Resume(Result(Head(chunk), h))
            /\ streams' = [streams EXCEPT ![id].pending = IF fresh THEN Tail(chunk) ELSE @,
                                          ![id].read = IF fresh THEN @ + n ELSE @]
    /\ UNCHANGED <<engine, oplog, bridge, saved, todo, made, epoch, done, fired, reply>>

(* _doStreamRead: the leftover first, else one upstream chunk of any size; *)
(* at most one unit crosses, the rest stays pending.                       *)
DoStreamRead(h, n) ==
    /\ Serving("read") /\ h \in DOMAIN heap
    /\ LET id == heap[h].id
           known == id \in DOMAIN streams /\ streams[id].reader
           st == streams[id]
           chunk == IF st.pending # <<>> THEN st.pending ELSE Units(st.of, st.read, n)
           fresh == st.pending = <<>> IN
       IF ~known                                                \* StreamExpiredError
       THEN n = 0 /\ Resume(Plain) /\ UNCHANGED streams
       ELSE IF chunk = <<>>                                     \* end of the body
       THEN st.read = Body /\ Resume(Plain) /\ streams' = Drop(id)
       ELSE /\ IF fresh THEN st.read + n <= Body ELSE n = 0
            /\ Resume(Result(Head(chunk), h))
            /\ streams' = [streams EXCEPT ![id].pending = Tail(chunk),
                                          ![id].read = IF fresh THEN @ + n ELSE @]
    /\ UNCHANGED <<engine, oplog, bridge, saved, todo, made, epoch, done, fired, reply>>

(* reader.read() rejects: the stream is dropped.                           *)
StreamReadFails(h) ==
    /\ Serving("read") /\ h \in DOMAIN heap
    /\ LET id == heap[h].id IN
       /\ id \in DOMAIN streams /\ streams[id].reader /\ streams[id].pending = <<>>
       /\ streams' = Drop(id)
    /\ Resume(Plain)
    /\ UNCHANGED <<engine, oplog, bridge, saved, todo, made, epoch, done, fired, reply>>

(* _doStreamCancel.                                                        *)
DoStreamCancel(h) ==
    /\ Serving("cancel") /\ h \in DOMAIN heap
    /\ streams' = Drop(heap[h].id)
    /\ Resume(Plain)
    /\ UNCHANGED <<engine, oplog, bridge, saved, todo, made, epoch, done, fired, reply>>

(* _doStreamWrite: a chunk of the request body; the last one closes the    *)
(* writer and turns the entry into the response's reader (or marks it done *)
(* when the response has no body).  A failed write leaves the entry as it  *)
(* is.                                                                     *)
DoStreamWrite(h, last, body) ==
    /\ Serving("write") /\ h \in DOMAIN heap
    /\ LET id == heap[h].id IN
       IF id \in DOMAIN streams /\ streams[id].writer /\ last
       THEN streams' = [streams EXCEPT ![id].writer = FALSE, ![id].reader = body, ![id].done = ~body]
       ELSE UNCHANGED streams
    /\ Resume(Plain)
    /\ UNCHANGED <<engine, oplog, bridge, saved, todo, made, epoch, done, fired, reply>>

-----------------------------------------------------------------------------
(* _clientHostCall: no socket, an oversized frame or a failed send answers *)
(* at once; otherwise the call is parked under a fresh id with a timer.    *)
(* An extension's call is counted, and refused past its cap, first.        *)
ClientUnavailable ==
    /\ \E k \in {"client", "ext"} : Serving(k)
    /\ Resume(Plain)
    /\ UNCHANGED <<engine, oplog, bridge, streams, saved, todo, made, epoch, done, fired, reply>>

ClientHostCall(kind) ==
    /\ kind \in {"client", "ext"} /\ Serving(kind)
    /\ eval.live
    /\ kind = "ext" => eval.ext < CallsPerCell
    /\ LET id == bridge.seq + 1 IN
       /\ bridge' = [bridge EXCEPT !.seq = id, !.pending = @ \cup {id}]
       /\ eval' = [eval EXCEPT !.pc = "parked", !.id = id,
                               !.ext = IF kind = "ext" THEN @ + 1 ELSE @]
    /\ UNCHANGED <<engine, oplog, streams, heap, saved, todo, made, epoch, done, fired, reply>>

(* A result for the parked call.                                           *)
Settle(id, by) == Resume(Result(<<by>>, id))

(* Mutant: any answer resolves whatever call is parked.                    *)
ResolveAnyHostCall(id) ==
    /\ bridge' = [bridge EXCEPT !.pending = {}]
    /\ IF eval.pc = "parked" THEN Settle(eval.id, id) ELSE UNCHANGED <<eval, heap>>
    /\ UNCHANGED <<engine, oplog, streams, saved, todo, made, epoch, done, fired, reply>>

(* websocket_message on hostcall-result, outside the mutex.  The client's  *)
(* answer to a frame it was sent may come at any time, twice or never;     *)
(* resolveHostCall ignores an id it does not know.                         *)
ResolveHostCall(id) ==
    /\ bridge' = [bridge EXCEPT !.pending = @ \ {id}]
    /\ IF id \in bridge.pending THEN Settle(eval.id, id) ELSE UNCHANGED <<eval, heap>>
    /\ UNCHANGED <<engine, oplog, streams, saved, todo, made, epoch, done, fired, reply>>

(* Mutant: the timer is never armed.                                       *)
HostCallNeverTimesOut(id) ==
    /\ id \in bridge.pending /\ id > bridge.seq
    /\ UNCHANGED vars

(* The timer of a pending call.                                            *)
HostCallTimeout(id) ==
    /\ id \in bridge.pending
    /\ bridge' = [bridge EXCEPT !.pending = @ \ {id}]
    /\ Settle(id, id)
    /\ UNCHANGED <<engine, oplog, streams, saved, todo, made, epoch, done, fired, reply>>

-----------------------------------------------------------------------------
(* The finally of evalCode: finished streams leave the registry.           *)
SweepStreams == [k \in {k \in DOMAIN streams : ~streams[k].done} |-> streams[k]]

(* finalize_cell writes RESULT; a cell that ran over a budget leaves it    *)
(* as it was.  _readResult returns what is there.                          *)
ResultNow == IF eval.pc = "over" THEN engine.result ELSE eval.src

(* A live cell ends: the reply, and a checkpoint that commits its journal  *)
(* row (its results replaced by [] when they do not fit) or is refused.    *)
CellEnds(commits, fits) ==
    /\ eval.pc \in {"vm", "over"} /\ eval.live
    /\ commits \/ "refuse" \in Faults
    /\ fits \/ ("clamp" \in Faults /\ commits)
    /\ engine' = [engine EXCEPT !.result = ResultNow]
    /\ reply' = [reply EXCEPT ![eval.src] = ResultNow]
    /\ streams' = SweepStreams
    /\ IF commits
       THEN /\ oplog' = Append(oplog, [src |-> eval.src, calls |-> eval.calls,
                                       res |-> IF fits THEN eval.res ELSE <<>>])
            /\ saved' = heap /\ done' = done \cup {eval.src}
       ELSE UNCHANGED <<oplog, saved, done>>
    /\ eval' = Idle
    /\ UNCHANGED <<bridge, heap, todo, made, epoch, fired>>

(* The isolate is evicted or crashes: everything in memory is gone, the    *)
(* cell that ran is lost.                                                  *)
Evict ==
    /\ "evict" \in Faults /\ engine.warm
    /\ engine' = [result |-> NoSrc, warm |-> FALSE, replayed |-> 0]
    /\ eval' = Idle
    /\ bridge' = [bridge EXCEPT !.pending = {}]
    /\ streams' = NoStreams /\ heap' = <<>>
    /\ UNCHANGED <<oplog, saved, todo, made, epoch, done, fired, reply>>

(* reset_critical, under the mutex: kernel, snapshot and journal go, and   *)
(* committedCell is -1 again, so that the next cell has the first number.  *)
(* The fence does not know of the epoch.  (Before any cell is committed,   *)
(* that is what Evict does.)                                               *)
Reset ==
    /\ eval.pc = "idle" /\ engine.replayed = 0
    /\ epoch < MaxResets /\ oplog # <<>>
    /\ epoch' = epoch + 1
    /\ oplog' = <<>> /\ saved' = <<>> /\ heap' = <<>> /\ streams' = NoStreams
    /\ engine' = [result |-> NoSrc, warm |-> FALSE, replayed |-> 0]
    /\ UNCHANGED <<eval, bridge, todo, made, done, fired, reply>>

(* ensure_glue: the committed image ...                                    *)
RestoreImage ==
    /\ ~engine.warm /\ eval.pc = "idle" /\ engine.replayed = 0
    /\ heap' = saved
    /\ engine' = [engine EXCEPT !.warm = TRUE,
                                !.result = NoSrc]   \* the seeds and the probe
    /\ UNCHANGED <<eval, oplog, bridge, streams, saved, todo, made, epoch, done, fired, reply>>

(* Mutant: a replayed cell is not fed its recorded results.                *)
ReplayCellUnfed ==
    /\ ~engine.warm /\ eval.pc = "idle" /\ engine.replayed < Len(oplog)
    /\ LET k == engine.replayed + 1 IN
       eval' = [Idle EXCEPT !.pc = "vm", !.src = oplog[k].src, !.no = k, !.live = FALSE]
    /\ UNCHANGED <<engine, oplog, bridge, streams, heap, saved, todo, made, epoch, done, fired, reply>>

(* ... or replayJournal: the committed cells run again in order, fed with  *)
(* what was recorded, with no sender and no fence.                         *)
ReplayCell ==
    /\ ~engine.warm /\ eval.pc = "idle" /\ engine.replayed < Len(oplog)
    /\ LET k == engine.replayed + 1 IN
       eval' = [Idle EXCEPT !.pc = "vm", !.src = oplog[k].src, !.no = k, !.live = FALSE,
                            !.feed = oplog[k].res]
    /\ UNCHANGED <<engine, oplog, bridge, streams, heap, saved, todo, made, epoch, done, fired, reply>>

ReplayedCellEnds ==
    /\ eval.pc \in {"vm", "over"} /\ ~eval.live
    /\ Len(eval.calls) = Len(oplog[eval.no].calls)
    /\ LET k == engine.replayed + 1 IN
       engine' = [result |-> ResultNow, replayed |-> IF k = Len(oplog) THEN 0 ELSE k,
                  warm |-> k = Len(oplog)]
    /\ streams' = SweepStreams
    /\ eval' = Idle
    /\ UNCHANGED <<oplog, bridge, heap, saved, todo, made, epoch, done, fired, reply>>

Finished ==
    /\ eval.pc = "idle" /\ engine.warm /\ todo = {}
    /\ UNCHANGED vars

Next ==
    \/ \E s \in Sources : EvalBegin(s)
    \/ \E k \in Kinds : VmCalls(k) \/ DoFetchStream(k) \/ ClientHostCall(k)
    \/ FeedRecorded \/ DoFetch \/ ServiceFs \/ ServiceChannel \/ ClientUnavailable \/ DoSandbox
    \/ \E h \in 1..Len(heap) :
        \/ \E n \in 0..Body : DoStreamRead(h, n)
        \/ StreamReadFails(h) \/ DoStreamCancel(h)
        \/ \E last, body \in BOOLEAN : DoStreamWrite(h, last, body)
    \/ \E id \in 1..bridge.seq : ResolveHostCall(id) \/ HostCallTimeout(id)
    \/ \E commits, fits \in BOOLEAN : CellEnds(commits, fits)
    \/ Evict \/ Reset \/ RestoreImage \/ ReplayCell \/ ReplayedCellEnds \/ Finished

Spec == Init /\ [][Next]_vars

(* Fairness: the engine runs (a cell that keeps calling meets its budgets, *)
(* and MaxCalls here), the DO's own effects settle, and timers fire; the   *)
(* client owes nothing.                                                    *)
Running ==
    \/ \E h \in 1..Len(heap) :
        \/ \E n \in 0..Body : DoStreamRead(h, n)
        \/ DoStreamCancel(h)
        \/ \E last, body \in BOOLEAN : DoStreamWrite(h, last, body)
    \/ \E k \in Kinds : VmCalls(k) \/ DoFetchStream(k) \/ ClientHostCall(k)
    \/ FeedRecorded \/ DoFetch \/ ServiceFs \/ ServiceChannel \/ ClientUnavailable \/ DoSandbox
    \/ RestoreImage \/ ReplayCell \/ ReplayedCellEnds
    \/ \E commits, fits \in BOOLEAN : CellEnds(commits, fits)
FairSpec ==
    Spec /\ WF_vars(Running) /\ WF_vars(\E id \in 1..bridge.seq : HostCallTimeout(id))

-----------------------------------------------------------------------------
TypeOK ==
    /\ eval.pc \in {"idle", "vm", "call", "parked", "over"}
    /\ eval.src \in Sources \cup {NoSrc} /\ eval.ops \in [Classes -> Nat]
    /\ Len(eval.calls) - Len(eval.res) \in {0, 1}
    /\ engine.result \in Sources \cup {NoSrc} /\ engine.warm \in BOOLEAN
    /\ bridge.pending \subseteq 1..bridge.seq
    /\ todo \subseteq Sources /\ done \subseteq Sources /\ epoch \in Nat
    /\ \A h \in DOMAIN heap : heap[h].of \in Sources \X Nat

(* A cell goes on with the answer to the hostcall it made: an answer that  *)
(* comes late (its call timed out) or a second time is never taken for the *)
(* answer to a later call (resolveHostCall).                               *)
AnswerMatchesCall ==
    \A r \in Range(eval.res) \cup UNION {Range(oplog[i].res) : i \in DOMAIN oplog} :
        r.kind \in {"client", "ext"} /\ r.data # <<>> => r.data = <<r.for>>

(* A journal replay fires no effect again (replayJournal: "no re-fire of   *)
(* effects").                                                              *)
ReplayIsSilent == \A f \in fired : f.live

(* Every unit a stream handle has received is the next one of the body its *)
(* own cell opened: re-chunking, reads spread over cells, the sweep and    *)
(* evictions neither lose, repeat nor mix them.                            *)
StreamDelivery ==
    \A h \in DOMAIN heap : heap[h].got = Units(heap[h].of, 0, Len(heap[h].got))

(* The effects of cells that were committed.                               *)
Committed == {f \in fired : f.key # NoKey /\ f.effect[1] \in done}

(* The exactly-once fence within an epoch: what two committed cells, or    *)
(* two calls of one, sent out between two resets never carries the same    *)
(* Idempotency-Key, although a cell that was lost gives its number to the  *)
(* next one.                                                               *)
CommittedKeysDiffer ==
    \A f, g \in Committed :
        f.epoch = g.epoch /\ f.key = g.key => f.effect = g.effect

(* Not so across a reset: "a stable Idempotency-Key per (session, cell,    *)
(* in-cell fetch ordinal)" (lib.rs:2898) names the first cell of every     *)
(* epoch.  It does not hold.                                               *)
CommittedKeysNeverRepeat ==
    \A f, g \in Committed : f.key = g.key => f.effect = g.effect

(* Nor for a cell that was lost: "EXACTLY-ONCE FENCE: deterministic        *)
(* Idempotency-Key" (_fetchPrep) does not hold of its effects.             *)
KeyNamesOneEffect ==
    \A f, g \in fired : f.key = g.key /\ f.key # NoKey => f.effect = g.effect

(* Nor is every cell answered with its own result: one that ran over a     *)
(* budget gets what the buffer held before it.                             *)
OwnReply == \A s \in Sources : reply[s] \in {NoSrc, s}

(* A cell that started ends, whatever the client does: parked calls time   *)
(* out and the engine leaves the loop.                                     *)
CellTerminates == (eval.pc # "idle") ~> (eval.pc = "idle")

=============================================================================
