----------------------------- MODULE MCChannels -----------------------------
(***************************************************************************)
(* The two live channels of a session, TCP sockets and WebSockets.  They   *)
(* share no state, so a behaviour runs one of them (which), the other      *)
(* keeping its initial values: the state space is their sum.               *)
(***************************************************************************)
EXTENDS Sockets, VmWebSocket

CONSTANT Machines       \* the channels this instance runs

VARIABLE which

channelVars == <<net, parked, table, nextId, conn, netSaved, ops, evictions,
                 reg, vm, remote, saved, lost, which>>

Init == SocketsInit /\ WsInit /\ which \in Machines

OfSockets(A) == which = "sockets" /\ A /\ UNCHANGED <<wsVars, which>>
OfWs(A) == which = "ws" /\ A /\ UNCHANGED <<socketsVars, which>>

Next == OfSockets(SocketsNext) \/ OfWs(WsNext)

Spec == Init /\ [][Next]_channelVars

(* The engine pumps jobs and the glue serves what is parked; the VM's      *)
(* operations run to their end and the poll timer of a recv fires.  A TCP  *)
(* read is answered only when the peer sends or closes, and net.js makes   *)
(* its callers see to it that the peer closes.                             *)
FairSpec ==
    /\ Spec
    /\ WF_channelVars(OfSockets(LoopTurn)) /\ WF_channelVars(OfSockets(Park))
    /\ WF_channelVars(OfSockets(Served))
    /\ \A c \in 1..MaxOpens : WF_channelVars(OfSockets(c \in DOMAIN conn /\ PeerCloses(c)))
    /\ WF_channelVars(OfWs(WsRecv)) /\ WF_channelVars(OfWs(RecvIdles))
=============================================================================
