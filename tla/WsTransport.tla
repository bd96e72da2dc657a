---------------------------- MODULE WsTransport ----------------------------
(***************************************************************************)
(* The SDK's WebSocket transport (class WsTransport and _evalCore in       *)
(* packages/sdk/src/index.ts), composed with the kernel it talks to        *)
(* (EvalQueue).  A client serialises its evals, keeps at most one rpc      *)
(* pending, retries an eval once after a dropped connection with the same  *)
(* reqId, and takes any frame that arrives for the answer to what is       *)
(* pending.                                                                *)
(*                                                                         *)
(* onReady is reduced to its create frame; requests that are not evals,    *)
(* injected sockets, host calls and pings (answered without touching the   *)
(* pending rpc) are left out.                                              *)
(***************************************************************************)
EXTENDS EvalQueue

CONSTANTS
    KeepAlive,      \* TRUE: keepAliveAfterActivityMs is set
    EventGap,       \* TRUE: a socket's readyState may change some time before
                    \* its close event is dispatched
    MaxRequests     \* bound: evals per client

ASSUME TransportAssumption ==
    KeepAlive \in BOOLEAN /\ EventGap \in BOOLEAN /\ MaxRequests \in Nat

VARIABLES
    client,         \* the state of each WsTransport
    answered        \* observation: what each eval was resolved with

vars == <<wire, kernel, client, answered>>

(* ws: the current socket or 0.  listening: sockets with our handlers on   *)
(* them.  ready: sockets whose readyState is OPEN.  ignoring: before       *)
(* ignoreCloseUntil.  armed: the keep-alive timer runs.                    *)
NewClient ==
    [pc |-> "idle", n |-> 0, kind |-> "none", retried |-> FALSE, opened |-> 0,
     ws |-> 0, listening |-> {}, ready |-> {}, ignoring |-> FALSE, armed |-> FALSE]

Init ==
    /\ KernelInit
    /\ client = [c \in Clients |-> NewClient]
    /\ answered = {}

Pending(cl) == cl.pc \in {"readying", "waiting"}

(* A client's new state, after it has heard some answers and closed the    *)
(* socket numbered hangup (0: none).                                       *)
Set(c, cl, hangup, heard) ==
    /\ client' = [client EXCEPT ![c] = cl]
    /\ open' = open \ {<<c, hangup>>}
    /\ answers' = {a \in answers \ heard : a.sock # <<c, hangup>>}

-----------------------------------------------------------------------------
(* dropSocket: detach the handlers, close, forget.                         *)
DropSocket(cl) ==
    IF cl.ws = 0 THEN cl
    ELSE [cl EXCEPT !.listening = @ \ {cl.ws}, !.ready = @ \ {cl.ws},
                    !.ws = 0, !.ignoring = TRUE]

(* rawRequest: park the rpc and send; a frame sent on a dead socket is     *)
(* lost.                                                                   *)
Send(c, t) ==
    LET cl == client'[c]
        f == [t |-> t, req |-> <<c, cl.n>>, kind |-> cl.kind, sock |-> <<c, cl.ws>>]
    IN  frames' = IF f.sock \in open' THEN frames \cup {f} ELSE frames

(* request: the first __ws_closed__ or failed connect is retried, after a  *)
(* backoff; the second goes to the caller.                                 *)
Rejected(c, cl, heard) ==
    /\ IF cl.retried
       THEN Set(c, [cl EXCEPT !.pc = "idle"], 0, heard)
       ELSE Set(c, [DropSocket(cl) EXCEPT !.pc = "opening", !.retried = TRUE], cl.ws, heard)
    /\ UNCHANGED <<frames, kernel, answered>>

(* Put the eval on the wire; with no socket, ws.send throws.               *)
SendEval(c, cl, heard) ==
    IF cl.ws = 0 THEN Rejected(c, cl, heard)
    ELSE /\ Set(c, [cl EXCEPT !.pc = "waiting"], 0, heard)
         /\ Send(c, "eval")
         /\ UNCHANGED <<kernel, answered>>

(* open assigns ws as soon as it starts to connect, whatever became of the *)
(* handlers of the old socket.                                             *)
Dial(cl) ==
    LET k == cl.opened + 1
    IN  [cl EXCEPT !.pc = "connecting", !.opened = k, !.ws = k,
                   !.listening = @ \cup {k}]

(* _evalCore and request, up to the first await: send on a socket that is  *)
(* OPEN, or connect.  With keep-alive a socket that is no longer OPEN is   *)
(* dropped first, and some time passes (refreshSocketBeforeUserFrame).     *)
Request(c) ==
    /\ client[c].pc = "idle"
    /\ client[c].n < MaxRequests
    /\ \E kind \in Kinds :
          LET cl == [client[c] EXCEPT !.n = @ + 1, !.kind = kind, !.retried = FALSE]
          IN  IF cl.ws \in cl.ready
              THEN SendEval(c, cl, {})
              ELSE /\ IF KeepAlive /\ cl.ws # 0
                      THEN Set(c, [DropSocket(cl) EXCEPT !.pc = "opening"], cl.ws, {})
                      ELSE Set(c, Dial(cl), 0, {})
                   /\ UNCHANGED <<frames, kernel, answered>>

(* The pause or the backoff is over.                                       *)
Reopen(c) ==
    /\ client[c].pc = "opening"
    /\ Set(c, Dial(client[c]), 0, {})
    /\ UNCHANGED <<frames, kernel, answered>>

(* The new socket opens, and onReady sends its create frame on ws, if ws   *)
(* is still there.                                                         *)
Connect(c) ==
    LET k == client[c].opened
        cl == [client[c] EXCEPT !.ready = @ \cup {k}]
    IN  /\ client[c].pc = "connecting"
        /\ k \in cl.listening
        /\ IF cl.ws = 0
           THEN Rejected(c, cl, {})
           ELSE /\ client' = [client EXCEPT ![c] = [cl EXCEPT !.pc = "readying"]]
                /\ open' = open \cup {<<c, k>>}
                /\ Send(c, "create")
                /\ UNCHANGED <<answers, kernel, answered>>

(* The connection cannot be established, or was dropped meanwhile.  The    *)
(* close event that follows the error finds its handler detached by the    *)
(* retry, or, the second time, clears ws unless it is ignored.             *)
ConnectFails(c) ==
    LET was == client[c]
        cl == [was EXCEPT !.listening = @ \ {was.opened},
                          !.ws = IF was.retried /\ ~was.ignoring THEN 0 ELSE @]
    IN  /\ was.pc = "connecting"
        /\ Rejected(c, cl, {})

-----------------------------------------------------------------------------
(* onMessage: a frame on any socket with our handler.                      *)
Heard(c, a) == a \in answers /\ a.sock[1] = c /\ a.sock[2] \in client[c].listening

(* It resolves the create of onReady: open returns and the eval is sent.   *)
OnReady(c, a) ==
    /\ Heard(c, a)
    /\ client[c].pc = "readying"
    /\ SendEval(c, client[c], {a})

(* It resolves the eval, whatever it was an answer to.                     *)
OnReply(c, a) ==
    /\ Heard(c, a)
    /\ client[c].pc = "waiting"
    /\ Set(c, [client[c] EXCEPT !.pc = "idle", !.armed = KeepAlive], 0, {a})
    /\ answered' = answered \cup {[req |-> <<c, client[c].n>>, t |-> a.t, of |-> a.req,
                                   res |-> a.res]}
    /\ UNCHANGED <<frames, kernel>>

(* Nothing is pending: it is dropped.                                      *)
OnStray(c, a) ==
    /\ Heard(c, a)
    /\ ~Pending(client[c])
    /\ Set(c, client[c], 0, {a})
    /\ UNCHANGED <<frames, kernel, answered>>

(* A socket's readyState leaves OPEN; its close event is still to come.    *)
Closing(c, k) ==
    /\ EventGap
    /\ k \in client[c].ready
    /\ <<c, k>> \notin open
    /\ Set(c, [client[c] EXCEPT !.ready = @ \ {k}], 0, {})
    /\ UNCHANGED <<frames, kernel, answered>>

(* onClose, of any socket with our handler: ignored within a second of the *)
(* last dropSocket; otherwise the current socket is forgotten and the      *)
(* pending rpc rejected.                                                   *)
OnClose(c, k) ==
    LET cl == [client[c] EXCEPT !.listening = @ \ {k}, !.ready = @ \ {k}]
        forgot == [cl EXCEPT !.ws = 0]
    IN  /\ k \in client[c].listening
        /\ <<c, k>> \notin open
        /\ IF ~cl.ignoring /\ Pending(cl)
           THEN Rejected(c, forgot, {})
           ELSE /\ Set(c, IF cl.ignoring THEN cl ELSE forgot, 0, {})
                /\ UNCHANGED <<frames, kernel, answered>>

(* Mutant: the socket of a request that timed out stays in use.            *)
TimeoutKeepsSocket(c) ==
    /\ Pending(client[c])
    /\ Set(c, [client[c] EXCEPT !.pc = "idle"], 0, {})
    /\ UNCHANGED <<frames, kernel, answered>>

(* Mutant: the timer goes with the socket it was started for.              *)
TimeoutWithSocket(c) ==
    /\ Pending(client[c]) /\ client[c].ws # 0
    /\ Set(c, [DropSocket(client[c]) EXCEPT !.pc = "idle"], client[c].ws, {})
    /\ UNCHANGED <<frames, kernel, answered>>

(* The timer of rawRequest: drop the socket, reject, no retry.             *)
Timeout(c) ==
    /\ Pending(client[c])
    /\ Set(c, [DropSocket(client[c]) EXCEPT !.pc = "idle"], client[c].ws, {})
    /\ UNCHANGED <<frames, kernel, answered>>

(* armKeepAlive's window ends, whatever is pending.                        *)
KeepAliveExpires(c) ==
    /\ client[c].armed
    /\ Set(c, [DropSocket(client[c]) EXCEPT !.armed = FALSE], client[c].ws, {})
    /\ UNCHANGED <<frames, kernel, answered>>

(* ignoreCloseUntil passes.                                                *)
StopIgnoring(c) ==
    /\ client[c].ignoring
    /\ Set(c, [client[c] EXCEPT !.ignoring = FALSE], 0, {})
    /\ UNCHANGED <<frames, kernel, answered>>

(* The network loses a connection, and the answers on it.                  *)
NetworkDrop(s) ==
    /\ s \in open
    /\ open' = open \ {s}
    /\ answers' = {a \in answers : a.sock # s}
    /\ UNCHANGED <<frames, kernel, client, answered>>

Transport(c) ==
    \/ Request(c) \/ Reopen(c) \/ Connect(c) \/ ConnectFails(c)
    \/ \E a \in answers : OnReady(c, a) \/ OnReply(c, a) \/ OnStray(c, a)
    \/ \E k \in client[c].listening : Closing(c, k) \/ OnClose(c, k)
    \/ Timeout(c) \/ KeepAliveExpires(c) \/ StopIgnoring(c)

Environment == Crash \/ \E s \in open : NetworkDrop(s)

Next ==
    \/ (Kernel \/ Environment) /\ UNCHANGED <<client, answered>>
    \/ \E c \in Clients : Transport(c)

Spec == Init /\ [][Next]_vars

(* The handler that owns the mutex goes on: its awaits (host calls, R2,    *)
(* the snapshot) are all bounded in time.  The client's timers go off (the *)
(* pause or backoff before a connect, rawRequest's time-out) and a         *)
(* connection attempt ends one way or the other.  Nothing is assumed of    *)
(* the frames, of the callers or of the keep-alive window.                 *)
FairSpec ==
    /\ Spec
    /\ WF_vars(Serve /\ UNCHANGED <<client, answered>>)
    /\ \A c \in Clients :
          WF_vars(Reopen(c)) /\ WF_vars(Connect(c) \/ ConnectFails(c)) /\ WF_vars(Timeout(c))

-----------------------------------------------------------------------------
Requests == Clients \X (0..MaxRequests)
Sockets == Clients \X Nat
Results == {"queueFull", "created", "error", "durable", "notDurable", "reserved",
            "reservedTimeout", "rawReservation"}

(* Type invariant: frames, replies, rows and clients keep their shapes and *)
(* no more than MaxDepth frames hold a permit.                             *)
TypeOK ==
    /\ frames \subseteq [t : {"create", "eval"}, req : Requests, kind : Kinds, sock : Sockets]
    /\ answers \subseteq [t : {"create", "eval"}, req : Requests, res : Results, sock : Sockets]
    /\ open \subseteq Sockets
    /\ queue \in Seq([t : {"create", "eval"}, req : Requests, kind : Kinds, sock : Sockets])
    /\ Len(queue) <= MaxDepth
    /\ phase \in {"queued", "run", "ran", "durable", "notDurable", "trapped"}
    /\ phase # "queued" => queue # <<>>
    /\ rows \in Seq([req : Requests, reply : Kinds \cup {"durable", "notDurable"}])
    /\ Len(rows) <= MaxRows
    /\ glue \in {"Some", "None"} /\ heap \in Seq(Requests) /\ committed \in Seq(Requests)
    /\ client \in [Clients ->
          [pc : {"idle", "opening", "connecting", "readying", "waiting"}, n : 0..MaxRequests,
           kind : Kinds \cup {"none"}, retried : BOOLEAN, opened : Nat, ws : Nat,
           listening : SUBSET Nat, ready : SUBSET Nat, ignoring : BOOLEAN,
           armed : BOOLEAN]]
    /\ answered \subseteq [req : Requests, t : {"create", "eval"}, of : Requests, res : Results]

(* "must commit exactly once each ... with no duplicate side effects"      *)
(* (docs/STRESS-LOAD-RESEARCH.md): over retries, duplicated and late       *)
(* frames, crashes and failed evals, no heap holds a cell twice (as long   *)
(* as eval_replies has not rolled over in between).                        *)
RunsOnce ==
    \A i, j \in 1..Len(heap) : heap[i] = heap[j] => i = j

(* No cross-talk: every eval is resolved with the reply to its own frame,  *)
(* never with a late reply to an earlier one or to onReady's create.       *)
RepliesMatch ==
    \A x \in answered : x.of = x.req /\ x.t = "eval"

(* "checkpoint: the durable snapshot committed after this cell"            *)
(* (packages/sdk/README.md), for every reply whose checkpoint is ok.       *)
CheckpointMeansCommitted ==
    \A x \in answered : x.res \in {"durable", "reserved"} => x.of \in Elements(committed)

(* A request that has been answered, other than by QueueFullError, never   *)
(* runs afterwards: no frame of it left behind on an old socket or in the  *)
(* queue slips past its eval_replies row.                                  *)
AnswerIsFinal ==
    [][\A x \in answered : x.res # "queueFull" /\ x.of = x.req =>
          (x.req \in Elements(heap') => x.req \in Elements(heap))]_vars

(* The VM queue never stays full: each owner of the mutex lets go of it,   *)
(* on every return path, and the frames behind it get their turn.  The one *)
(* exception is an eager cell that an evict frame met while it was parked: *)
(* its handler panics and keeps the mutex until the isolate goes away.     *)
QueueDrains == Len(queue) = MaxDepth ~> (Len(queue) < MaxDepth \/ phase = "trapped")

(* "Force-evict the in-memory kernel.  The durable snapshot is kept; the   *)
(* next op cold-restores" (packages/sdk/src/index.ts:1818): an evict never *)
(* leaves the queue without anybody to serve it.  It does not hold.        *)
EvictLeavesServed == phase # "trapped"

(* No caller waits for ever: an eval is resolved or rejected although the  *)
(* keep-alive tick may drop the socket under it and a close event may be   *)
(* ignored, so that no handler is left to reject it; "the in-flight rpc    *)
(* (if any) will reject via onClose" (index.ts:628) is then left to the    *)
(* timer.                                                                  *)
RequestSettles == \A c \in Clients : client[c].pc # "idle" ~> client[c].pc = "idle"
=============================================================================
