------------------------------ MODULE Sockets ------------------------------
(***************************************************************************)
(* Outbound TCP: the net and tls shims in the VM                           *)
(* (apps/kernel/stdlib-src/shims/net.js, tls.js), the socket.* effects of  *)
(* the glue and the host's table of live sockets (host-sockets.mjs).       *)
(*                                                                         *)
(* The engine holds one host call at a time and runs no VM code while one  *)
(* is parked, so the shim chains every socket.* call of every socket on    *)
(* one tail.  A socket has a command loop that drains its writes and then  *)
(* reads; a read blocks until the peer sends or closes.                    *)
(*                                                                         *)
(* What lives in the VM heap is one record, "net": it is what a snapshot    *)
(* keeps.  The table and the connections die with the instance.  Bytes     *)
(* are counted in units of SOCKET_READ_CHUNK_BYTES and tagged with the     *)
(* socket or the connection they belong to.                                *)
(***************************************************************************)
EXTENDS Integers, Sequences, FiniteSets, FiniteSetsExt, SequencesExt

CONSTANTS
    Socks,          \* the net.Socket objects cells create, numbered in that order
    Modes,          \* secureTransport the sockets are opened with
    HalfOpen,       \* values of allowHalfOpen
    MAX_SOCKETS,    \* the cap the shim and the host apply
    MaxOpens,       \* bound: connections opened
    MaxOps,         \* bound: calls cells make on their sockets
    MaxWrites,      \* bound: units written on a socket
    ChunkSizes,     \* sizes of the chunks a peer sends, in units
    MaxSends,       \* bound: chunks a peer sends
    MaxResets,      \* bound: only the first connections are ever reset
    MaxEvictions    \* bound: losses of the instance

ASSUME SocketsAssumption ==
    /\ Modes \subseteq {"off", "on", "starttls"} /\ HalfOpen \subseteq BOOLEAN
    /\ Socks \subseteq Nat
    /\ MAX_SOCKETS \in Nat \ {0} /\ ChunkSizes \subseteq Nat \ {0}
    /\ {MaxOpens, MaxOps, MaxWrites, MaxSends, MaxResets, MaxEvictions} \subseteq Nat

VARIABLES
    net,        \* the heap: sockets, _openCount, _hostTail, loop turns queued
    parked,     \* the head of the tail is in the engine's host-call slot
    table,      \* the host's map: handle -> connection and secureTransport
    nextId,     \* the host's next handle
    conn,       \* the connections: what the peer got, what it sent
    netSaved,   \* the heap of the last cell boundary
    ops,        \* calls made on sockets so far, for the bound
    evictions   \* evictions so far

socketsVars == <<net, parked, table, nextId, conn, netSaved, ops, evictions>>

NoHandle == 0
NoTable == [id \in {} |-> <<>>]

Socket ==
    [handle |-> NoHandle, connecting |-> FALSE, destroyed |-> FALSE,
     closed |-> FALSE, counted |-> FALSE, loopRunning |-> FALSE,
     wantClose |-> FALSE, endAfterFlush |-> FALSE, upgrade |-> FALSE,
     preQ |-> <<>>, writeQ |-> <<>>, mode |-> "off", allowHalfOpen |-> FALSE,
     written |-> 0, rx |-> <<>>, flushed |-> FALSE]

SocketsInit ==
    /\ net = [sock |-> [s \in Socks |-> Socket], openCount |-> 0,
             tail |-> <<>>, turns |-> <<>>]
    /\ parked = FALSE
    /\ table = NoTable /\ nextId = 1
    /\ conn = <<>>
    /\ netSaved = net /\ ops = 0
    /\ evictions = 0

-----------------------------------------------------------------------------
(* The shim's helpers, each a function of the heap.                        *)

(* A socket.* call: it starts when every call queued before it has settled. *)
HostCall(h, op, s, id, unit) ==
    [h EXCEPT !.tail = Append(@, [op |-> op, s |-> s, id |-> id, unit |-> unit])]

Uncount(h, s) ==
    [h EXCEPT !.sock[s].counted = FALSE,
              !.openCount = IF h.sock[s].counted THEN @ - 1 ELSE @]

Fail(h, s) ==
    [Uncount(h, s) EXCEPT !.sock[s].connecting = FALSE,
                          !.sock[s].closed = TRUE,
                          !.sock[s].destroyed = TRUE]

StartLoop(h, s) ==
    IF \/ h.sock[s].loopRunning \/ h.sock[s].handle = NoHandle
       \/ h.sock[s].destroyed \/ h.sock[s].closed
    THEN h
    ELSE [h EXCEPT !.sock[s].loopRunning = TRUE,
                   !.turns = Append(@, [s |-> s, id |-> h.sock[s].handle])]

StopLoop(h, s) == [h EXCEPT !.sock[s].loopRunning = FALSE]

DoClose(h, s) ==
    IF h.sock[s].closed THEN h
    ELSE LET g == [Uncount(h, s) EXCEPT !.sock[s].loopRunning = FALSE,
                                        !.sock[s].closed = TRUE]
         IN  IF h.sock[s].handle = NoHandle
             THEN [g EXCEPT !.sock[s].destroyed = TRUE]
             ELSE HostCall(g, "close", s, h.sock[s].handle, 0)

Destroy(h, s) ==
    IF h.sock[s].destroyed THEN h
    ELSE LET g == [Uncount(h, s) EXCEPT !.sock[s].destroyed = TRUE,
                                        !.sock[s].connecting = FALSE,
                                        !.sock[s].loopRunning = FALSE,
                                        !.sock[s].closed = TRUE]
         IN  IF h.sock[s].handle = NoHandle THEN g
             ELSE HostCall(g, "close", s, h.sock[s].handle, 0)

Teardown(h, s) ==
    LET g == [Uncount(h, s) EXCEPT !.sock[s].loopRunning = FALSE,
                                   !.sock[s].closed = TRUE,
                                   !.sock[s].destroyed = TRUE,
                                   !.sock[s].handle = NoHandle]
    IN  IF h.sock[s].destroyed THEN h
        ELSE HostCall(g, "close", s, h.sock[s].handle, 0)

(* Mutant: the loop closes before it has drained the writes queued to it. *)
TurnClosesFirst(h, s, id) ==
    LET k == h.sock[s]
    IN  IF k.destroyed \/ k.closed \/ k.handle # id THEN StopLoop(h, s)
        ELSE IF k.wantClose
        THEN DoClose([h EXCEPT !.sock[s].flushed = TRUE], s)
        ELSE IF k.writeQ # <<>>
        THEN HostCall([h EXCEPT !.sock[s].writeQ = Tail(@)], "write", s, id, Head(k.writeQ))
        ELSE HostCall(h, "read", s, id, 0)

(* One turn of a command loop bound to handle id: writes, then a requested *)
(* close, then a read.                                                     *)
Turn(h, s, id) ==
    LET k == h.sock[s]
    IN  IF k.destroyed \/ k.closed \/ k.handle # id THEN StopLoop(h, s)
        ELSE IF k.writeQ # <<>>
        THEN HostCall([h EXCEPT !.sock[s].writeQ = Tail(@)], "write", s, id, Head(k.writeQ))
        ELSE IF k.wantClose
        THEN DoClose([h EXCEPT !.sock[s].flushed = TRUE], s)
        ELSE HostCall(h, "read", s, id, 0)

-----------------------------------------------------------------------------
(* What cells do with a socket, which they get from net.connect or         *)
(* tls.connect.  VM code runs only when no call is parked.                 *)

Edit(h) ==
    /\ ~parked /\ ops < MaxOps
    /\ net' = h /\ net # h /\ ops' = ops + 1
    /\ UNCHANGED <<parked, table, nextId, conn, netSaved, evictions>>

Created(s) == net.sock[s].connecting \/ net.sock[s].handle # NoHandle

Opening == Cardinality({i \in DOMAIN net.tail : net.tail[i].op = "open"})

Connect(s, mode, half) ==
    /\ ~Created(s) /\ \A r \in Socks : r < s => net.sock[r] # Socket
    /\ Len(conn) + Opening < MaxOpens
    /\ LET h == [net EXCEPT !.sock[s].mode = mode, !.sock[s].allowHalfOpen = half]
       IN  Edit(IF h.openCount >= MAX_SOCKETS THEN Fail(h, s)
                ELSE HostCall([h EXCEPT !.sock[s].connecting = TRUE,
                                        !.sock[s].counted = TRUE,
                                        !.openCount = @ + 1],
                              "open", s, NoHandle, 0))

(* A unit accepted by write(), or by end(data).                            *)
Accept(h, s) ==
    LET g == [h EXCEPT !.sock[s].written = @ + 1]
        n == g.sock[s].written
    IN  IF h.sock[s].handle = NoHandle
        THEN [g EXCEPT !.sock[s].preQ = Append(@, n)]
        ELSE StartLoop([g EXCEPT !.sock[s].writeQ = Append(@, n)], s)

Writable(s) ==
    /\ Created(s) /\ ~net.sock[s].destroyed /\ ~net.sock[s].closed
    /\ net.sock[s].written < MaxWrites

Write(s) == Writable(s) /\ Edit(Accept(net, s))

End(s) ==
    LET k == net.sock[s]
    IN  /\ Created(s)
        /\ Edit(IF k.connecting THEN [net EXCEPT !.sock[s].endAfterFlush = TRUE]
                ELSE IF k.loopRunning THEN [net EXCEPT !.sock[s].wantClose = TRUE]
                ELSE DoClose(net, s))

EndWith(s) ==
    /\ Writable(s)
    /\ LET h == Accept(net, s)
       IN  Edit(IF net.sock[s].handle = NoHandle
                THEN [h EXCEPT !.sock[s].endAfterFlush = TRUE]
                ELSE [h EXCEPT !.sock[s].wantClose = TRUE])

DestroySocket(s) == Created(s) /\ Edit(Destroy(net, s))

(* tls.connect({socket}): the upgrade waits for an open under way.         *)
TlsConnect(s) ==
    /\ Created(s)
    /\ Edit(IF net.sock[s].handle # NoHandle
            THEN HostCall(net, "startTls", s, net.sock[s].handle, 0)
            ELSE [net EXCEPT !.sock[s].upgrade = TRUE])

(* A queued loop turn runs.                                                *)
LoopTurn ==
    /\ ~parked /\ net.turns # <<>>
    /\ LET t == Head(net.turns)
       IN  net' = Turn([net EXCEPT !.turns = Tail(@)], t.s, t.id)
    /\ UNCHANGED <<parked, table, nextId, conn, netSaved, ops, evictions>>

(* The next call of the tail reaches the engine's slot: the VM stops.      *)
Park ==
    /\ ~parked /\ net.tail # <<>>
    /\ parked' = TRUE
    /\ UNCHANGED <<net, table, nextId, conn, netSaved, ops, evictions>>

-----------------------------------------------------------------------------
(* The host serves the parked call; the VM resumes and runs the callback.  *)

Call == Head(net.tail)
Resumed == [net EXCEPT !.tail = Tail(@)]
Live(id) == id \in DOMAIN table
ConnOf(id) == conn[table[id].c]
Without(id) == [i \in DOMAIN table \ {id} |-> table[i]]
WithEntry(m, id, e) == [i \in DOMAIN m \cup {id} |-> IF i = id THEN e ELSE m[i]]
(* The loop that made the call is still the socket's.                      *)
Bound(h, s, id) == h.sock[s].handle = id /\ ~h.sock[s].destroyed

Serve(op) == parked /\ Call.op = op /\ parked' = FALSE /\ UNCHANGED <<netSaved, ops, evictions>>

OpenFails ==
    /\ Serve("open")
    /\ net' = Fail(Resumed, Call.s)
    /\ UNCHANGED <<table, nextId, conn>>

(* Mutant: the handle that a destroyed socket just got is not closed.      *)
OpenedLeaks(h, s, id) ==
    IF h.sock[s].destroyed THEN Uncount(h, s)
    ELSE StartLoop([h EXCEPT !.sock[s].handle = id,
                             !.sock[s].connecting = FALSE,
                             !.sock[s].writeQ = h.sock[s].preQ,
                             !.sock[s].preQ = <<>>,
                             !.sock[s].wantClose = h.sock[s].endAfterFlush], s)

(* The open's callback.                                                    *)
Opened(h, s, id) ==
    IF h.sock[s].destroyed THEN HostCall(Uncount(h, s), "close", s, id, 0)
    ELSE LET k == h.sock[s]
             g == [h EXCEPT !.sock[s] = [k EXCEPT !.handle = id, !.connecting = FALSE,
                                                  !.writeQ = k.preQ, !.preQ = <<>>,
                                                  !.wantClose = k.endAfterFlush]]
         IN  StartLoop(IF k.upgrade THEN HostCall(g, "startTls", s, id, 0) ELSE g, s)

Open ==
    /\ Serve("open")
    /\ IF Cardinality(DOMAIN table) >= MAX_SOCKETS
       THEN net' = Fail(Resumed, Call.s) /\ UNCHANGED <<table, nextId, conn>>
       ELSE /\ conn' = Append(conn, [owner |-> Call.s, got |-> <<>>, inbox |-> <<>>,
                                     pending |-> 0, read |-> 0, sends |-> 0,
                                     fin |-> FALSE, up |-> TRUE])
            /\ table' = WithEntry(table, nextId, [c |-> Len(conn) + 1,
                                                  mode |-> net.sock[Call.s].mode])
            /\ nextId' = nextId + 1
            /\ net' = Opened(Resumed, Call.s, nextId)

WriteCall ==
    LET s == Call.s  id == Call.id  h == Resumed
        sent == Live(id) /\ ConnOf(id).up
    IN  /\ Serve("write")
        /\ conn' = IF sent
                   THEN [conn EXCEPT ![table[id].c].got = Append(@, <<s, Call.unit>>)]
                   ELSE conn
        /\ net' = IF Bound(h, s, id) THEN Turn(h, s, id) ELSE StopLoop(h, s)
        /\ UNCHANGED <<table, nextId>>

(* One unit out of what the peer sent, the leftover of a larger chunk      *)
(* first.                                                                  *)
Chunk(c) ==
    LET k == conn[c]
    IN  [conn EXCEPT ![c].inbox = IF k.pending > 0 THEN @ ELSE Tail(@),
                     ![c].pending = IF k.pending > 0 THEN @ - 1 ELSE Head(k.inbox) - 1,
                     ![c].read = @ + 1]

ReadData ==
    LET s == Call.s  id == Call.id  h == Resumed  c == table[id].c
    IN  /\ Serve("read") /\ Live(id) /\ ConnOf(id).up
        /\ ConnOf(id).pending > 0 \/ ConnOf(id).inbox # <<>>
        /\ conn' = Chunk(c)
        /\ net' = IF Bound(h, s, id)
                 THEN Turn([h EXCEPT !.sock[s].rx = Append(@, <<c, conn'[c].read>>)], s, id)
                 ELSE StopLoop(h, s)
        /\ UNCHANGED <<table, nextId>>

(* The peer has closed: the host closes its side too and forgets the       *)
(* handle; the socket ends and, unless half-open was asked for, closes.    *)
ReadDone ==
    LET s == Call.s  id == Call.id  h == StopLoop(Resumed, s)
    IN  /\ Serve("read") /\ Live(id) /\ ConnOf(id).up
        /\ ConnOf(id).fin /\ ConnOf(id).pending = 0 /\ ConnOf(id).inbox = <<>>
        /\ table' = Without(id)
        /\ conn' = [conn EXCEPT ![table[id].c].up = FALSE]
        /\ net' = IF Bound(Resumed, s, id) /\ ~h.sock[s].allowHalfOpen THEN DoClose(h, s) ELSE h
        /\ UNCHANGED nextId

(* An unknown handle, or a connection that was reset.                      *)
ReadFails ==
    LET s == Call.s  id == Call.id  h == StopLoop(Resumed, s)
    IN  /\ Serve("read") /\ (Live(id) => ~ConnOf(id).up)
        /\ table' = Without(id)
        /\ net' = IF Bound(Resumed, s, id) THEN Teardown(h, s) ELSE h
        /\ UNCHANGED <<nextId, conn>>

StartTls ==
    LET s == Call.s  id == Call.id  h == Resumed
    IN  /\ Serve("startTls")
        /\ IF Live(id) /\ table[id].mode = "starttls" /\ ConnOf(id).up
           THEN /\ table' = WithEntry(Without(id), nextId, [table[id] EXCEPT !.mode = "on"])
                /\ nextId' = nextId + 1
                /\ net' = StartLoop([h EXCEPT !.sock[s].handle = nextId,
                                             !.sock[s].loopRunning = FALSE], s)
           ELSE net' = Destroy(h, s) /\ UNCHANGED <<table, nextId>>
        /\ UNCHANGED conn

(* Mutant: the callback of close leaves the socket half closed.            *)
CloseCallForgets ==
    /\ Serve("close")
    /\ table' = Without(Call.id)
    /\ net' = Resumed
    /\ UNCHANGED <<nextId, conn>>

CloseCall ==
    /\ Serve("close")
    /\ table' = Without(Call.id)
    /\ net' = [Resumed EXCEPT !.sock[Call.s].destroyed = TRUE]
    /\ UNCHANGED <<nextId, conn>>

-----------------------------------------------------------------------------
(* The peers, and the loss of the instance.                                *)

Peer(c, k) == conn' = [conn EXCEPT ![c] = k] /\ UNCHANGED <<net, parked, table, nextId, netSaved, ops, evictions>>
Reachable(c) == conn[c].up /\ ~conn[c].fin

PeerSends(c, n) ==
    /\ Reachable(c) /\ conn[c].sends < MaxSends
    /\ Peer(c, [conn[c] EXCEPT !.inbox = Append(@, n), !.sends = @ + 1])

PeerCloses(c) == Reachable(c) /\ Peer(c, [conn[c] EXCEPT !.fin = TRUE])

PeerResets(c) == c <= MaxResets /\ conn[c].up /\ Peer(c, [conn[c] EXCEPT !.up = FALSE])

(* No call is parked and no job is left: the cell is over and its heap is  *)
(* what a snapshot would hold.                                             *)
CellEnds ==
    /\ ~parked /\ net.tail = <<>> /\ net.turns = <<>>
    /\ evictions < MaxEvictions /\ netSaved # net
    /\ netSaved' = net
    /\ UNCHANGED <<net, parked, table, nextId, conn, ops, evictions>>

(* The instance is gone; the next one restores the heap and has a fresh,   *)
(* empty table.                                                            *)
Evict ==
    /\ evictions < MaxEvictions
    /\ evictions' = evictions + 1
    /\ net' = netSaved /\ parked' = FALSE
    /\ table' = NoTable /\ nextId' = 1
    /\ conn' = [c \in DOMAIN conn |-> [conn[c] EXCEPT !.up = FALSE]]
    /\ UNCHANGED <<netSaved, ops>>

SocketsNext ==
    \/ \E s \in Socks :
          \/ \E m \in Modes, half \in HalfOpen : Connect(s, m, half)
          \/ Write(s) \/ End(s) \/ EndWith(s) \/ DestroySocket(s) \/ TlsConnect(s)
    \/ LoopTurn \/ Park
    \/ OpenFails \/ Open \/ WriteCall \/ ReadData \/ ReadDone \/ ReadFails
    \/ StartTls \/ CloseCall
    \/ \E c \in DOMAIN conn : (\E n \in ChunkSizes : PeerSends(c, n)) \/ PeerCloses(c) \/ PeerResets(c)
    \/ CellEnds \/ Evict

SocketsSpec == SocketsInit /\ [][SocketsNext]_socketsVars

Served == Open \/ WriteCall \/ ReadData \/ ReadDone \/ ReadFails \/ StartTls \/ CloseCall

-----------------------------------------------------------------------------
(* Properties.                                                             *)

(* What a peer receives on a connection is what its own socket wrote, in   *)
(* order and without gaps, across the queue filled before the connect, the *)
(* loop's turns and the other sockets' calls on the shared tail; and a     *)
(* socket closed by end() has flushed every write it accepted (net.js,     *)
(* write, end and the command loop).                                       *)
WritesArrive ==
    \A c \in DOMAIN conn :
        LET k == conn[c]  s == k.owner
        IN  /\ k.got = [i \in DOMAIN k.got |-> <<s, i>>]
            /\ net.sock[s].flushed /\ k.up => Len(k.got) = net.sock[s].written

(* What a socket delivers is what the peer of its own connection sent, in  *)
(* order and without gaps, although the host cuts large chunks and keeps   *)
(* the leftover for the next read (host-sockets.mjs, read).                *)
ReadsInOrder ==
    \A s \in Socks :
        LET rx == net.sock[s].rx
        IN  \A i \in DOMAIN rx : /\ rx[i] = <<rx[1][1], i>>
                                 /\ conn[rx[i][1]].owner = s

(* Both directions of every connection: the shared tail, the loop and the  *)
(* host's leftovers neither lose, reorder nor misdirect a byte.            *)
BytesInOrder == WritesArrive /\ ReadsInOrder

(* A live host socket is always in reach of the VM: it is the handle of a  *)
(* socket that has not closed, or its close is queued.  The shim's count   *)
(* of open sockets is the number of sockets that hold a slot.              *)
NoHandleLeak ==
    /\ \A id \in DOMAIN table :
          \/ \E s \in Socks : net.sock[s].handle = id /\ ~net.sock[s].closed
          \/ \E i \in DOMAIN net.tail : net.tail[i].op = "close" /\ net.tail[i].id = id
    /\ net.openCount = Cardinality({s \in Socks : net.sock[s].counted})

(* A socket that was asked to end is closed in the end, whatever the other *)
(* sockets have queued on the shared tail, provided peers close.  (Not a   *)
(* half-open one: when the peer's close is read between end() and the next *)
(* turn, its loop stops and the request to close is forgotten.)  An        *)
(* eviction may undo the end() itself.                                     *)
EndCloses ==
    \A s \in Socks :
        /\ net.sock[s].wantClose /\ ~net.sock[s].allowHalfOpen
        ~> net.sock[s].destroyed \/ ~net.sock[s].wantClose

(* net.js: after a cold restore "any read/write on" a stale handle         *)
(* "surfaces a typed 'ECONNRESET'-coded error": it never reaches another   *)
(* socket's connection.                                                    *)
StaleHandleFails ==
    /\ \A c \in DOMAIN conn, i \in 1..MaxWrites :
          i \in DOMAIN conn[c].got => conn[c].got[i][1] = conn[c].owner
    /\ \A s \in Socks : \A i \in DOMAIN net.sock[s].rx :
          conn[net.sock[s].rx[i][1]].owner = s
=============================================================================
