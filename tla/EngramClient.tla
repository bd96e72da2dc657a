---------------------------- MODULE EngramClient ----------------------------
(***************************************************************************)
(* EngramClient of the SDK (packages/sdk/src/index.ts): a registry of open *)
(* sessions by id, and of the connects under way.  session(id) is called   *)
(* concurrently; a connect takes as long as it takes, and close and        *)
(* closeAll may come meanwhile.                                            *)
(***************************************************************************)
EXTENDS Integers, FiniteSets

CONSTANTS
    ClIds,          \* session ids
    ClConnects      \* bound: connects started

VARIABLE cl
    \* sessions, pending: id -> the connect behind it, 0 for none; conns: the
    \* connects so far, with their state; raced: observation, the ids a
    \* closeAll came for while they were connecting

ClientInit ==
    cl = [sessions |-> [i \in ClIds |-> 0], pending |-> [i \in ClIds |-> 0],
          conns |-> [n \in {} |-> 0], raced |-> {}]

Started == DOMAIN cl.conns
Connecting(n) == n \in Started /\ cl.conns[n].st = "connecting"

(* Mutant: the connect under way is not remembered.                        *)
ClientSessionUnshared(id) ==
    /\ cl.sessions[id] = 0 /\ cl.pending[id] = 0 /\ Cardinality(Started) < ClConnects
    /\ LET n == Cardinality(Started) + 1 IN
       cl' = [cl EXCEPT !.conns = [m \in Started \cup {n} |->
                            IF m = n THEN [id |-> id, st |-> "connecting"] ELSE cl.conns[m]]]

(* session(id), and eval(id, ...), which begins with it: the registered    *)
(* session, else the connect under way, else a new connect.                *)
ClientSession(id) ==
    /\ cl.sessions[id] = 0 /\ cl.pending[id] = 0 /\ Cardinality(Started) < ClConnects
    /\ LET n == Cardinality(Started) + 1 IN
       cl' = [cl EXCEPT !.pending[id] = n,
                        !.conns = [m \in Started \cup {n} |->
                            IF m = n THEN [id |-> id, st |-> "connecting"] ELSE cl.conns[m]]]

(* Engram.connect settles: registered, or only forgotten.                  *)
ConnectSettles(n, ok) ==
    /\ Connecting(n)
    /\ LET id == cl.conns[n].id IN
       cl' = [cl EXCEPT !.pending[id] = 0, !.sessions[id] = IF ok THEN n ELSE @,
                        !.conns[n].st = IF ok THEN "open" ELSE "closed"]

(* close(id): nothing when the id is still connecting.                     *)
ClientClose(id) ==
    /\ cl.sessions[id] # 0
    /\ cl' = [cl EXCEPT !.conns[cl.sessions[id]].st = "closed", !.sessions[id] = 0]

CloseAll ==
    /\ cl' = [cl EXCEPT !.sessions = [i \in ClIds |-> 0], !.pending = [i \in ClIds |-> 0],
                        !.conns = [n \in Started |->
                            IF \E i \in ClIds : cl.sessions[i] = n THEN [cl.conns[n] EXCEPT !.st = "closed"]
                            ELSE cl.conns[n]],
                        !.raced = @ \cup {cl.conns[n].id : n \in {m \in Started : Connecting(m)}}]

(* The holder of a session closes it itself: it stays registered.          *)
HolderCloses(n) ==
    /\ n \in Started /\ cl.conns[n].st = "open"
    /\ cl' = [cl EXCEPT !.conns[n].st = "closed"]

ClientNext ==
    \/ \E id \in ClIds : ClientSession(id) \/ ClientClose(id)
    \/ \E n \in Started : HolderCloses(n) \/ \E ok \in BOOLEAN : ConnectSettles(n, ok)
    \/ CloseAll

ClientSpec == ClientInit /\ [][ClientNext]_cl

-----------------------------------------------------------------------------
(* Callers for one id share one connection, and every open connection can  *)
(* be closed through the client: at most one is open or opening per id,    *)
(* and an open one is the registered one; connects that fail, closes and   *)
(* reopens do not break that.  An id for which closeAll came while it was  *)
(* connecting is excepted: there the connect goes on unregistered          *)
(* (EngramClient.session, close, closeAll).                                *)
OneSessionPerId ==
    \A id \in ClIds \ cl.raced :
        /\ Cardinality({n \in Started : cl.conns[n].id = id /\ cl.conns[n].st # "closed"}) <= 1
        /\ \A n \in Started : cl.conns[n].id = id /\ cl.conns[n].st = "open" => cl.sessions[id] = n

=============================================================================
