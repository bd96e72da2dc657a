------------------------- MODULE WsTransportProofs -------------------------
(***************************************************************************)
(* The eval queue and the SDK's transport, for any number of clients,      *)
(* requests, sockets, retries, lost connections and crashes.               *)
(*                                                                         *)
(* While eval_replies does not roll over (NoRollOver), no heap holds a     *)
(* cell twice.  With keep-alive, every eval is resolved with the reply to  *)
(* its own frame: one socket at a time has our handlers on it, and at most *)
(* one message is under way on it.  With both, an answered request never   *)
(* runs again.                                                             *)
(***************************************************************************)
EXTENDS WsTransport, FiniteSetTheorems, TLAPS

(* The requests that are ever sent.                                        *)
Sent == Clients \X (1..MaxRequests)

(* eval_replies has room for every request: no row is pushed out.          *)
NoRollOver == IsFiniteSet(Clients) /\ Cardinality(Sent) <= MaxRows

FrameType == [t : {"create", "eval"}, req : Sent, kind : Kinds, sock : Sockets]
AnswerType == [t : {"create", "eval"}, req : Sent, res : Results, sock : Sockets]
RowType == [req : Sent, reply : Kinds \cup {"durable", "notDurable"}]
ClientType ==
    [pc : {"idle", "opening", "connecting", "readying", "waiting"}, n : 0..MaxRequests,
     kind : Kinds \cup {"none"}, retried : BOOLEAN, opened : Nat, ws : Nat,
     listening : SUBSET Nat, ready : SUBSET Nat, ignoring : BOOLEAN, armed : BOOLEAN]

(* A client that is not idle works on a request.                           *)
ClientOK(cl) == cl \in ClientType /\ (cl.pc # "idle" => cl.n > 0 /\ cl.kind \in Kinds)

KernelTypes ==
    /\ frames \subseteq FrameType /\ answers \subseteq AnswerType /\ open \subseteq Sockets
    /\ queue \in Seq(FrameType) /\ Len(queue) <= MaxDepth
    /\ phase \in {"queued", "run", "ran", "durable", "notDurable", "trapped"}
    /\ phase # "queued" => queue # <<>>
    /\ rows \in Seq(RowType) /\ Len(rows) <= MaxRows
    /\ glue \in {"Some", "None"} /\ heap \in Seq(Sent) /\ committed \in Seq(Sent)

ClientTypes ==
    /\ client \in [Clients -> ClientType]
    /\ \A c \in Clients : ClientOK(client[c])
    /\ answered \subseteq [req : Sent, t : {"create", "eval"}, of : Sent, res : Results]

TransportInv == KernelTypes /\ ClientTypes

-----------------------------------------------------------------------------
(* The cells that ran.                                                     *)

Reserved == {rows[i].req : i \in 1..Len(rows)}

(* Every cell of a heap has its eval_replies row, written before it ran,   *)
(* and there is one row per request: a frame sent again finds it.          *)
OnceInv ==
    /\ \A i, j \in 1..Len(rows) : rows[i].req = rows[j].req => i = j
    /\ RunsOnce
    /\ \A i, j \in 1..Len(committed) : committed[i] = committed[j] => i = j
    /\ Elements(committed) \subseteq Elements(heap) /\ Elements(heap) \subseteq Reserved
    /\ phase # "queued" => Owner.t = "eval" /\ Owner.req \in Reserved
    /\ phase = "run" => Owner.req \notin Elements(heap)

-----------------------------------------------------------------------------
(* The messages under way.                                                 *)

(* At most one message is under way on a socket.                           *)
OnePerSocket ==
    /\ \A f, g \in frames : f.sock = g.sock => f = g
    /\ \A f \in frames : \A i \in 1..Len(queue) : f.sock # queue[i].sock
    /\ \A f \in frames : \A a \in answers : f.sock # a.sock
    /\ \A i, j \in 1..Len(queue) : queue[i].sock = queue[j].sock => i = j
    /\ \A i \in 1..Len(queue) : \A a \in answers : queue[i].sock # a.sock
    /\ \A a, b \in answers : a.sock = b.sock => a = b

UnderWay == frames \cup Elements(queue) \cup answers

(* The handlers of a keep-alive client are on its current socket only.     *)
SocketOK(cl) ==
    /\ cl.listening \subseteq {cl.ws} \ {0} /\ cl.ready \subseteq cl.listening
    /\ cl.ws <= cl.opened
    /\ cl.pc = "opening" => cl.ws = 0
    /\ cl.pc = "connecting" => cl.ws \in {0, cl.opened} /\ cl.ready = {} /\ cl.opened > 0

(* A message m of client c is on a socket that was opened; on the one that *)
(* is listened to, it belongs to what the client waits for.                *)
Belongs(m, c, cl) ==
    m.sock[1] = c =>
        /\ m.sock[2] <= cl.opened
        /\ cl.pc = "connecting" => m.sock[2] < cl.opened
        /\ m.sock[2] \in cl.listening =>
              \/ cl.pc = "readying" /\ m.t = "create"
              \/ cl.pc = "waiting" /\ m.t = "eval" /\ m.req = <<c, cl.n>>

MatchInv ==
    /\ OnePerSocket
    /\ \A c \in Clients : SocketOK(client[c])
    /\ \A m \in UnderWay : \A c \in Clients : Belongs(m, c, client[c])
    /\ RepliesMatch

(* A reply other than QueueFullError has its row, and is not one to the    *)
(* request that is running.                                                *)
Settled(req) == req \in Reserved /\ (phase # "queued" => req # Owner.req)

FinalInv ==
    /\ \A a \in answers : a.t = "eval" /\ a.res # "queueFull" => Settled(a.req)
    /\ \A x \in answered : x.t = "eval" /\ x.res # "queueFull" => Settled(x.of)

-----------------------------------------------------------------------------
(* eval_replies.                                                           *)

LEMMA RemovedAt ==
    ASSUME NEW S, NEW s \in Seq(S), NEW k \in 1..Len(s)
    PROVE  /\ RemoveAt(s, k) \in Seq(S) /\ Len(RemoveAt(s, k)) = Len(s) - 1
           /\ \A i \in 1..Len(s) - 1 : RemoveAt(s, k)[i] = IF i < k THEN s[i] ELSE s[i + 1]
<1> DEFINE l == SubSeq(s, 1, k - 1)
           r == SubSeq(s, k + 1, Len(s))
<1>1. l \in Seq(S) /\ Len(l) = k - 1 /\ \A i \in 1..k - 1 : l[i] = s[i]
  OBVIOUS
<1>2. r \in Seq(S) /\ Len(r) = Len(s) - k /\ \A i \in 1..Len(s) - k : r[i] = s[k + i]
  OBVIOUS
<1>3. RemoveAt(s, k) = l \o r
  BY DEF RemoveAt
<1> HIDE DEF l, r
<1>4. /\ l \o r \in Seq(S) /\ Len(l \o r) = Len(l) + Len(r)
      /\ \A i \in 1..Len(l) + Len(r) : (l \o r)[i] = IF i <= Len(l) THEN l[i] ELSE r[i - Len(l)]
  <2>1. l \in Seq(S) /\ r \in Seq(S)
    BY <1>1, <1>2
  <2> QED BY <2>1
<1>5. Len(s) \in Nat /\ Len(l) + Len(r) = Len(s) - 1
  BY <1>1, <1>2
<1>6. ASSUME NEW i \in 1..Len(s) - 1 PROVE (l \o r)[i] = IF i < k THEN s[i] ELSE s[i + 1]
  <2>1. CASE i < k
    <3>1. i <= Len(l) /\ i \in 1..Len(l) + Len(r) /\ i \in 1..k - 1
      BY <1>1, <1>5, <2>1
    <3> QED BY <1>1, <1>4, <2>1, <3>1
  <2>2. CASE ~(i < k)
    <3>1. ~(i <= Len(l)) /\ i \in 1..Len(l) + Len(r) /\ i - Len(l) \in 1..Len(s) - k /\ k + (i - Len(l)) = i + 1
      BY <1>1, <1>5, <2>2
    <3> QED BY <1>2, <1>4, <2>2, <3>1
  <2> QED BY <2>1, <2>2
<1> QED
  BY <1>3, <1>4, <1>5, <1>6

(* The rows that stay when req gets a new one.                             *)
Others(req) ==
    IF RowsOf(req) = {} THEN rows ELSE RemoveAt(rows, CHOOSE i \in RowsOf(req) : TRUE)

LEMMA OthersShape ==
    ASSUME KernelTypes, NEW req
    PROVE  /\ Others(req) \in Seq(RowType) /\ Len(Others(req)) <= Len(rows)
           /\ RowsOf(req) # {} => Len(Others(req)) = Len(rows) - 1
           /\ RowsOf(req) = {} => Others(req) = rows
<1>1. rows \in Seq(RowType)
  BY DEF KernelTypes
<1>2. CASE RowsOf(req) # {}
  <2> DEFINE k == CHOOSE i \in RowsOf(req) : TRUE
  <2>1. k \in 1..Len(rows) /\ Others(req) = RemoveAt(rows, k)
    BY <1>2 DEF RowsOf, Others
  <2> HIDE DEF k
  <2> QED BY <1>1, <1>2, <2>1, RemovedAt
<1>3. CASE RowsOf(req) = {}
  BY <1>1, <1>3 DEF Others
<1> QED
  BY <1>2, <1>3

(* With one row per request, they are the rows of the other requests.      *)
LEMMA OthersAre ==
    ASSUME KernelTypes, NEW req,
           \A i, j \in 1..Len(rows) : rows[i].req = rows[j].req => i = j
    PROVE  /\ \A i, j \in 1..Len(Others(req)) : Others(req)[i].req = Others(req)[j].req => i = j
           /\ {Others(req)[i].req : i \in 1..Len(Others(req))} = Reserved \ {req}
<1>1. rows \in Seq(RowType)
  BY DEF KernelTypes
<1>2. CASE RowsOf(req) # {}
  <2> DEFINE k == CHOOSE i \in RowsOf(req) : TRUE
             o == Others(req)
  <2>1. k \in 1..Len(rows) /\ rows[k].req = req /\ o = RemoveAt(rows, k)
    BY <1>2 DEF RowsOf, Others
  <2> HIDE DEF k, o
  <2>2. /\ o \in Seq(RowType) /\ Len(o) = Len(rows) - 1
        /\ \A i \in 1..Len(rows) - 1 : o[i] = IF i < k THEN rows[i] ELSE rows[i + 1]
    BY <1>1, <2>1, RemovedAt
  <2>3. Len(rows) \in Nat
    BY <1>1
  <2>4. ASSUME NEW i \in 1..Len(o), NEW j \in 1..Len(o), o[i].req = o[j].req PROVE i = j
    <3> DEFINE ii == IF i < k THEN i ELSE i + 1
               jj == IF j < k THEN j ELSE j + 1
    <3>1. ii \in 1..Len(rows) /\ jj \in 1..Len(rows) /\ o[i] = rows[ii] /\ o[j] = rows[jj]
      BY <2>1, <2>2, <2>3
    <3>2. ii = jj
      <4> HIDE DEF ii, jj
      <4> QED BY <2>4, <3>1
    <3> QED BY <2>1, <2>2, <2>3, <3>2
  <2>5. ASSUME NEW i \in 1..Len(o) PROVE o[i].req \in Reserved \ {req}
    <3> DEFINE ii == IF i < k THEN i ELSE i + 1
    <3>1. ii \in 1..Len(rows) /\ o[i] = rows[ii] /\ ii # k
      BY <2>1, <2>2, <2>3
    <3> HIDE DEF ii
    <3> QED BY <2>1, <3>1 DEF Reserved
  <2>6. ASSUME NEW x \in Reserved, x # req PROVE \E i \in 1..Len(o) : o[i].req = x
    <3>1. PICK j \in 1..Len(rows) : rows[j].req = x
      BY <2>6 DEF Reserved
    <3>2. j # k
      BY <2>1, <2>6, <3>1
    <3> DEFINE i == IF j < k THEN j ELSE j - 1
    <3>3. i \in 1..Len(o) /\ o[i] = rows[j]
      BY <2>1, <2>2, <2>3, <3>2
    <3> HIDE DEF i
    <3> QED BY <3>1, <3>3
  <2>7. {o[i].req : i \in 1..Len(o)} = Reserved \ {req}
    BY <2>5, <2>6
  <2> QED BY <2>4, <2>7 DEF o
<1>3. CASE RowsOf(req) = {}
  <2>1. Others(req) = rows /\ req \notin Reserved
    BY <1>3 DEF Others, RowsOf, Reserved
  <2> QED BY <2>1 DEF Reserved
<1> QED
  BY <1>2, <1>3

(* An upsert keeps the types, whether or not it pushes a row out.          *)
LEMMA UpsertTyped ==
    ASSUME KernelTypes, NEW req \in Sent, NEW reply \in Kinds \cup {"durable", "notDurable"},
           WriteEvalReply(req, reply)
    PROVE  rows' \in Seq(RowType) /\ Len(rows') <= MaxRows
<1> DEFINE all == Append(Others(req), [req |-> req, reply |-> reply])
           from == IF Len(all) > MaxRows THEN Len(all) - MaxRows ELSE 0
<1>1. rows' = SubSeq(all, from + 1, Len(all))
  BY DEF WriteEvalReply, Others
<1>2. all \in Seq(RowType)
  <2>1. [req |-> req, reply |-> reply] \in RowType
    BY DEF RowType
  <2> QED BY <2>1, OthersShape
<1> HIDE DEF all
<1>3. Len(all) \in Nat /\ from \in 0..Len(all) /\ Len(all) - from <= MaxRows /\ MaxRows \in Nat
  BY <1>2, QueueAssumption
<1> HIDE DEF from
<1> QED
  BY <1>1, <1>2, <1>3

(* With room for every request, it pushes none out.                        *)
LEMMA UpsertKeeps ==
    ASSUME NoRollOver, KernelTypes, NEW req \in Sent,
           NEW reply \in Kinds \cup {"durable", "notDurable"}, WriteEvalReply(req, reply),
           \A i, j \in 1..Len(rows) : rows[i].req = rows[j].req => i = j
    PROVE  /\ \A i, j \in 1..Len(rows') : rows'[i].req = rows'[j].req => i = j
           /\ Reserved' = Reserved \cup {req}
<1> DEFINE o == Others(req)
           row == [req |-> req, reply |-> reply]
           all == Append(o, row)
<1>1. o \in Seq(RowType) /\ row \in RowType /\ row.req = req
  BY OthersShape DEF RowType
<1>2. /\ \A i, j \in 1..Len(o) : o[i].req = o[j].req => i = j
      /\ {o[i].req : i \in 1..Len(o)} = Reserved \ {req}
  BY OthersAre
<1>3. Len(o) + 1 <= MaxRows
  <2>1. CASE RowsOf(req) # {}
    <3>1. Len(o) = Len(rows) - 1 /\ Len(rows) <= MaxRows /\ Len(rows) \in Nat /\ MaxRows \in Nat
      BY <2>1, OthersShape, QueueAssumption DEF KernelTypes
    <3> QED BY <3>1
  <2>2. CASE RowsOf(req) = {}
    <3> DEFINE others == Sent \ {req}
               f == [i \in 1..Len(rows) |-> rows[i].req]
    <3>1. rows \in Seq(RowType) /\ Len(rows) \in Nat /\ MaxRows \in Nat /\ o = rows
      BY <2>2, OthersShape, QueueAssumption DEF KernelTypes
    <3>2. f \in [1..Len(rows) -> others]
      <4>1. \A i \in 1..Len(rows) : rows[i] \in RowType /\ rows[i].req # req
        BY <2>2, <3>1 DEF RowsOf
      <4> QED BY <4>1 DEF RowType
    <3>3. f \in Injection(1..Len(rows), others)
      BY <3>2 DEF Injection, IsInjective
    <3>4. IsFiniteSet(Sent)
      <4>1. IsFiniteSet(1..MaxRequests)
        BY FS_Interval, TransportAssumption
      <4> QED BY <4>1, FS_Product DEF NoRollOver, Sent
    <3>5. IsFiniteSet(others) /\ Cardinality(others) = Cardinality(Sent) - 1 /\ Cardinality(Sent) \in Nat
      BY <3>4, FS_RemoveElement, FS_CardinalityType
    <3> HIDE DEF f, others
    <3>6. Cardinality(1..Len(rows)) <= Cardinality(others)
      BY <3>3, <3>5, FS_Injection
    <3>7. Cardinality(1..Len(rows)) = Len(rows)
      <4>1. \A n \in Nat : Cardinality(1..n) = IF 1 > n THEN 0 ELSE n - 1 + 1
        BY FS_Interval
      <4> QED BY <3>1, <4>1
    <3> QED BY <3>1, <3>5, <3>6, <3>7 DEF NoRollOver
  <2> QED BY <2>1, <2>2
<1> HIDE DEF o, row
<1>4. /\ all \in Seq(RowType) /\ Len(all) = Len(o) + 1 /\ all[Len(o) + 1] = row
      /\ \A i \in 1..Len(o) : all[i] = o[i]
  BY <1>1
<1>5. rows' = all
  <2>1. rows' = SubSeq(all, (IF Len(all) > MaxRows THEN Len(all) - MaxRows ELSE 0) + 1, Len(all))
    BY DEF WriteEvalReply, Others, o, row
  <2> HIDE DEF all
  <2>2. Len(o) \in Nat /\ MaxRows \in Nat
    BY <1>1, QueueAssumption
  <2>3. rows' = SubSeq(all, 1, Len(all))
    <3>1. ~(Len(all) > MaxRows)
      BY <1>3, <1>4, <2>2
    <3> QED BY <2>1, <3>1
  <2> QED BY <1>4, <2>3
<1> HIDE DEF all
<1>6. Len(o) \in Nat
  BY <1>1
<1>7. ASSUME NEW i \in 1..Len(all), NEW j \in 1..Len(all), all[i].req = all[j].req PROVE i = j
  <2>1. i \in 1..Len(o) \/ i = Len(o) + 1
    BY <1>4, <1>6
  <2>2. j \in 1..Len(o) \/ j = Len(o) + 1
    BY <1>4, <1>6
  <2>3. \A k \in 1..Len(o) : all[k].req # req
    <3> SUFFICES ASSUME NEW k \in 1..Len(o) PROVE o[k].req # req
      BY <1>4
    <3>1. o[k].req \in Reserved \ {req}
      BY <1>2
    <3> QED BY <3>1
  <2> QED BY <1>1, <1>2, <1>4, <1>7, <2>1, <2>2, <2>3
<1>8. Reserved' = Reserved \cup {req}
  <2>1. Reserved' = {all[i].req : i \in 1..Len(all)}
    BY <1>5 DEF Reserved
  <2>2. \A i \in 1..Len(all) : i \in 1..Len(o) \/ i = Len(o) + 1
    BY <1>4, <1>6
  <2>3. \A i \in 1..Len(all) : all[i].req \in Reserved \cup {req}
    BY <1>1, <1>2, <1>4, <2>2
  <2>4. \A i \in 1..Len(o) : i \in 1..Len(all)
    BY <1>4, <1>6
  <2>5. Len(o) + 1 \in 1..Len(all)
    BY <1>4, <1>6
  <2>6. ASSUME NEW x \in Reserved \cup {req} PROVE \E i \in 1..Len(all) : all[i].req = x
    <3>1. CASE x = req
      BY <1>1, <1>4, <2>5, <3>1
    <3>2. CASE x # req
      <4>1. PICK i \in 1..Len(o) : o[i].req = x
        BY <1>2, <3>2
      <4> QED BY <1>4, <2>4, <4>1
    <3> QED BY <3>1, <3>2
  <2>7. \A x \in Reserved' : x \in Reserved \cup {req}
    BY <2>1, <2>3
  <2>8. \A x \in Reserved \cup {req} : x \in Reserved'
    BY <2>1, <2>6
  <2> QED BY <2>7, <2>8
<1> QED
  BY <1>5, <1>7, <1>8

-----------------------------------------------------------------------------
(* The kernel's steps.                                                     *)

LEMMA AnswerShape ==
    ASSUME KernelTypes, NEW f \in FrameType, NEW res \in Results, Answer(f, res)
    PROVE  /\ answers' \subseteq AnswerType
           /\ \/ answers' = answers
              \/ \E a \in AnswerType :
                    answers' = answers \cup {a} /\ a.sock = f.sock /\ a.t = f.t /\ a.req = f.req /\ a.res = res
<1> DEFINE a == [sock |-> f.sock, t |-> f.t, req |-> f.req, res |-> res]
<1>1. a \in AnswerType /\ a.sock = f.sock /\ a.t = f.t /\ a.req = f.req /\ a.res = res
  BY DEF FrameType, AnswerType
<1>2. answers' = answers \/ answers' = answers \cup {a}
  BY DEF Answer
<1>3. answers \subseteq AnswerType
  BY DEF KernelTypes
<1> HIDE DEF a
<1> QED
  BY <1>1, <1>2, <1>3

LEMMA OwnerShape ==
    ASSUME KernelTypes, queue # <<>>
    PROVE  /\ Owner \in FrameType /\ Len(queue) \in Nat \ {0} /\ 1 \in 1..Len(queue)
           /\ Tail(queue) \in Seq(FrameType) /\ Len(Tail(queue)) = Len(queue) - 1
           /\ \A i \in 1..Len(queue) - 1 : Tail(queue)[i] = queue[i + 1] /\ i + 1 \in 1..Len(queue)
BY DEF KernelTypes, Owner

(* A turn of the mutex owner that ends with the answer res.                *)
LEMMA FinishShape ==
    ASSUME KernelTypes, queue # <<>>, NEW res \in Results, Finish(res)
    PROVE  /\ Owner \in FrameType /\ Answer(Owner, res) /\ answers' \subseteq AnswerType
           /\ queue' = Tail(queue) /\ queue' \in Seq(FrameType) /\ Len(queue') <= MaxDepth
           /\ phase' = "queued"
<1>1. Answer(Owner, res) /\ queue' = Tail(queue) /\ phase' = "queued"
  BY DEF Finish
<1>2. /\ Owner \in FrameType /\ Len(queue) \in Nat \ {0} /\ Tail(queue) \in Seq(FrameType)
      /\ Len(Tail(queue)) = Len(queue) - 1
  BY OwnerShape
<1>3. Len(queue) <= MaxDepth /\ MaxDepth \in Nat
  BY QueueAssumption DEF KernelTypes
<1> QED
  BY <1>1, <1>2, <1>3, AnswerShape

(* The mutex owner's steps: it ends its turn with an answer, or goes on.   *)
EndsTurn(res) ==
    /\ queue # <<>> /\ res \in Results /\ Finish(res)
    /\ glue' \in {"Some", "None"} /\ heap' \in {heap, committed}
    /\ UNCHANGED <<frames, open, committed>>

LEMMA ServeShape ==
    ASSUME KernelTypes, Serve
    PROVE  \/ Create /\ EndsTurn("created") /\ UNCHANGED rows
           \/ Replay /\ UNCHANGED rows /\ \E res \in Results :
                 EndsTurn(res) /\ Owner.t = "eval" /\ RowsOf(Owner.req) # {} /\ phase = "queued"
           \/ EvalFails /\ EndsTurn("error") /\ UNCHANGED rows
           \/ Reply /\ EndsTurn(phase) /\ (WriteEvalReply(Owner.req, phase) \/ UNCHANGED rows)
           \/ Reserve \/ Execute \/ ExecuteEvicted \/ Checkpoint
<1>1. CASE Create
  BY <1>1 DEF Create, EndsTurn, EnsureGlue, Results
<1>2. CASE Replay
  <2>1. PICK reply \in EvalReplies(Owner.req) :
          Finish(IF reply \in Kinds THEN PendingEvalReplay(reply) ELSE reply)
    BY <1>2 DEF Replay
  <2>2. PICK i \in RowsOf(Owner.req) : reply = rows[i].reply
    BY <2>1 DEF EvalReplies
  <2>3. rows[i] \in RowType
    BY <2>2 DEF RowsOf, KernelTypes
  <2>4. reply \in Kinds \cup {"durable", "notDurable"}
    BY <2>2, <2>3 DEF RowType
  <2>5. (IF reply \in Kinds THEN PendingEvalReplay(reply) ELSE reply) \in Results
    BY <2>4, QueueAssumption DEF PendingEvalReplay, Results
  <2> QED BY <1>2, <2>1, <2>2, <2>5 DEF Replay, EndsTurn, KernelTypes
<1>3. CASE EvalFails
  BY <1>3 DEF EvalFails, EndsTurn, Results, KernelTypes
<1>4. CASE Reply
  BY <1>4 DEF Reply, EndsTurn, Results, KernelTypes
<1> QED
  BY <1>1, <1>2, <1>3, <1>4 DEF Serve

LEMMA KernelTyped ==
    ASSUME KernelTypes, Kernel \/ Environment
    PROVE  KernelTypes'
<1>1. ASSUME NEW res \in Results, EndsTurn(res), rows' \in Seq(RowType), Len(rows') <= MaxRows
      PROVE  KernelTypes'
  BY <1>1, FinishShape DEF EndsTurn, KernelTypes
<1>2. rows \in Seq(RowType) /\ Len(rows) <= MaxRows
  BY DEF KernelTypes
<1>3. CASE Create \/ Replay \/ EvalFails
  BY <1>1, <1>2, <1>3, ServeShape DEF Serve, Create, Replay, EvalFails, Results, EndsTurn, Finish, Execute,
     ExecuteEvicted, Checkpoint, Reserve, Reply
<1>4. CASE Reply
  <2>1. EndsTurn(phase) /\ phase \in {"durable", "notDurable"} /\ queue # <<>>
    BY <1>4 DEF Reply, EndsTurn, KernelTypes, Results
  <2>2. Owner.req \in Sent
    BY <2>1, OwnerShape DEF FrameType
  <2>3. WriteEvalReply(Owner.req, phase) \/ UNCHANGED rows
    BY <1>4 DEF Reply
  <2>4. rows' \in Seq(RowType) /\ Len(rows') <= MaxRows
    BY <1>2, <2>1, <2>2, <2>3, UpsertTyped
  <2> QED BY <1>1, <2>1, <2>4 DEF Results
<1>5. CASE Reserve
  <2>1. /\ queue # <<>> /\ WriteEvalReply(Owner.req, Owner.kind) /\ phase' = "run"
        /\ UNCHANGED <<frames, answers, open, queue, committed>>
        /\ glue' = "Some" /\ heap' \in {heap, committed}
    BY <1>5 DEF Reserve, EnsureGlue, wire
  <2>2. Owner.req \in Sent /\ Owner.kind \in Kinds
    BY <2>1, OwnerShape DEF FrameType
  <2>3. rows' \in Seq(RowType) /\ Len(rows') <= MaxRows
    BY <2>1, <2>2, UpsertTyped
  <2> QED BY <2>1, <2>3 DEF KernelTypes
<1>12. CASE ExecuteEvicted \/ Evict
  BY <1>12 DEF ExecuteEvicted, Evict, KernelTypes, wire
<1>6. CASE Execute
  <2>1. Owner.req \in Sent
    BY <1>6, OwnerShape DEF FrameType, KernelTypes, Execute
  <2>2. heap' \in Seq(Sent)
    BY <1>6, <2>1 DEF Execute, KernelTypes
  <2> QED BY <1>6, <2>2 DEF Execute, KernelTypes, wire
<1>7. CASE Checkpoint
  BY <1>7 DEF Checkpoint, KernelTypes, wire
<1>8. ASSUME NEW f \in frames, Receive(f) PROVE KernelTypes'
  <2>1. f \in FrameType /\ queue \in Seq(FrameType) /\ Len(queue) \in Nat /\ MaxDepth \in Nat /\ Len(queue) <= MaxDepth
    BY QueueAssumption DEF KernelTypes
  <2>2. frames' \subseteq FrameType /\ UNCHANGED <<open, phase, rows, glue, heap, committed>>
    BY <1>8 DEF Receive, KernelTypes
  <2>3. CASE Len(queue) >= MaxDepth
    <3>1. Answer(f, "queueFull") /\ UNCHANGED queue
      BY <1>8, <2>3 DEF Receive
    <3>2. answers' \subseteq AnswerType
      BY <2>1, <3>1, AnswerShape DEF Results
    <3> QED BY <2>2, <3>1, <3>2 DEF KernelTypes
  <2>4. CASE ~(Len(queue) >= MaxDepth)
    <3>1. queue' = Append(queue, f) /\ UNCHANGED answers
      BY <1>8, <2>4 DEF Receive
    <3>2. queue' \in Seq(FrameType) /\ Len(queue') = Len(queue) + 1
      BY <2>1, <3>1
    <3>3. Len(queue') <= MaxDepth /\ queue' # <<>>
      BY <2>1, <2>4, <3>2
    <3> QED BY <2>2, <3>1, <3>2, <3>3 DEF KernelTypes
  <2> QED BY <2>3, <2>4
<1>9. ASSUME NEW f \in frames, LoseFrame(f) PROVE KernelTypes'
  BY <1>9 DEF LoseFrame, KernelTypes, kernel
<1>10. CASE Crash
  BY <1>10, QueueAssumption DEF Crash, KernelTypes
<1>11. ASSUME NEW s \in open, NetworkDrop(s) PROVE KernelTypes'
  BY <1>11 DEF NetworkDrop, KernelTypes, kernel
<1> QED
  BY <1>3, <1>4, <1>5, <1>6, <1>7, <1>8, <1>9, <1>10, <1>11, <1>12 DEF Kernel, Serve, Environment

-----------------------------------------------------------------------------
(* What the updates of a client's state do to its fields.                  *)

SameRequest(nu, cl) == nu.n = cl.n /\ nu.kind = cl.kind
SameSockets(nu, cl) ==
    nu.opened = cl.opened /\ nu.ws = cl.ws /\ nu.listening = cl.listening /\ nu.ready = cl.ready


(* As cl, but the current socket is gone.                                  *)
Freed(nu, cl) ==
    /\ nu.opened = cl.opened /\ nu.ws = 0
    /\ nu.listening = IF cl.ws = 0 THEN cl.listening ELSE cl.listening \ {cl.ws}
    /\ nu.ready = IF cl.ws = 0 THEN cl.ready ELSE cl.ready \ {cl.ws}

(* As cl, but with a new current socket, not yet up.                       *)
Dials(nu, cl) ==
    /\ nu.opened = cl.opened + 1 /\ nu.ws = cl.opened + 1
    /\ nu.listening = cl.listening \cup {cl.opened + 1} /\ nu.ready = cl.ready

PcType == {"idle", "opening", "connecting", "readying", "waiting"}

LEMMA WithPc ==
    ASSUME NEW cl \in ClientType, NEW p \in PcType
    PROVE  LET nu == [cl EXCEPT !.pc = p]
           IN  /\ nu \in ClientType /\ nu.pc = p /\ nu.retried = cl.retried
               /\ SameRequest(nu, cl) /\ SameSockets(nu, cl)
BY DEF ClientType, PcType, SameRequest, SameSockets

LEMMA Dropped ==
    ASSUME NEW cl \in ClientType
    PROVE  LET nu == DropSocket(cl)
           IN  nu \in ClientType /\ nu.pc = cl.pc /\ SameRequest(nu, cl) /\ Freed(nu, cl)
<1>1. CASE cl.ws = 0
  BY <1>1 DEF DropSocket, SameRequest, Freed
<1>2. CASE cl.ws # 0
  <2> DEFINE l == cl.listening \ {cl.ws}
             r == cl.ready \ {cl.ws}
  <2>1. DropSocket(cl) = [[[[cl EXCEPT !.listening = l] EXCEPT !.ready = r] EXCEPT !.ws = 0] EXCEPT !.ignoring = TRUE]
    BY <1>2 DEF DropSocket, ClientType
  <2>2. l \in SUBSET Nat /\ r \in SUBSET Nat
    BY DEF ClientType
  <2> HIDE DEF l, r
  <2>3. LET nu == DropSocket(cl)
        IN  /\ nu \in ClientType /\ nu.pc = cl.pc /\ nu.n = cl.n /\ nu.kind = cl.kind
            /\ nu.opened = cl.opened /\ nu.ws = 0 /\ nu.listening = l /\ nu.ready = r
    <3> DEFINE m == [[[cl EXCEPT !.listening = l] EXCEPT !.ready = r] EXCEPT !.ws = 0]
    <3>1. m = [[[cl EXCEPT !.listening = l] EXCEPT !.ready = r] EXCEPT !.ws = 0]
      OBVIOUS
    <3>2. DropSocket(cl) = [m EXCEPT !.ignoring = TRUE]
      BY <2>1
    <3> HIDE DEF m
    <3>3. /\ m \in ClientType /\ m.pc = cl.pc /\ m.n = cl.n /\ m.kind = cl.kind
          /\ m.opened = cl.opened /\ m.ws = 0 /\ m.listening = l /\ m.ready = r
      BY <2>2, <3>1 DEF ClientType
    <3> QED BY <3>2, <3>3 DEF ClientType
  <2> QED BY <1>2, <2>3 DEF SameRequest, Freed, l, r
<1> QED
  BY <1>1, <1>2

(* request, after the first rejection ...                                  *)
LEMMA Retrying ==
    ASSUME NEW cl \in ClientType
    PROVE  LET nu == [DropSocket(cl) EXCEPT !.pc = "opening", !.retried = TRUE]
           IN  /\ nu \in ClientType /\ nu.pc = "opening" /\ SameRequest(nu, cl) /\ Freed(nu, cl)
<1> DEFINE d == DropSocket(cl)
<1>1. d \in ClientType /\ SameRequest(d, cl) /\ Freed(d, cl)
  BY Dropped
<1> HIDE DEF d
<1>2. [d EXCEPT !.pc = "opening", !.retried = TRUE] = [[d EXCEPT !.pc = "opening"] EXCEPT !.retried = TRUE]
  BY <1>1 DEF ClientType
<1>3. LET nu == [[d EXCEPT !.pc = "opening"] EXCEPT !.retried = TRUE]
      IN  nu \in ClientType /\ nu.pc = "opening" /\ SameRequest(nu, d) /\ SameSockets(nu, d)
  BY <1>1 DEF ClientType, SameRequest, SameSockets
<1> QED
  BY <1>1, <1>2, <1>3 DEF d, SameRequest, SameSockets, Freed

(* ... and open, as it starts to connect.                                  *)
LEMMA Dialled ==
    ASSUME NEW cl \in ClientType
    PROVE  LET nu == Dial(cl)
           IN  /\ nu \in ClientType /\ nu.pc = "connecting" /\ SameRequest(nu, cl) /\ Dials(nu, cl)
<1> DEFINE k == cl.opened + 1
           l == cl.listening \cup {k}
<1>1. k \in Nat /\ l \in SUBSET Nat
  BY DEF ClientType
<1>2. Dial(cl) = [[[[cl EXCEPT !.pc = "connecting"] EXCEPT !.opened = k] EXCEPT !.ws = k] EXCEPT !.listening = l]
  BY DEF Dial, ClientType
<1> HIDE DEF k, l
<1>3. LET nu == Dial(cl)
      IN  /\ nu \in ClientType /\ nu.pc = "connecting" /\ nu.n = cl.n /\ nu.kind = cl.kind
          /\ nu.opened = k /\ nu.ws = k /\ nu.listening = l /\ nu.ready = cl.ready
  BY <1>1, <1>2 DEF ClientType
<1> QED
  BY <1>3 DEF k, l, SameRequest, Dials

(* The client as a new request finds it.                                   *)
Asking(cl, kind) == [cl EXCEPT !.n = @ + 1, !.kind = kind, !.retried = FALSE]

LEMMA Asks ==
    ASSUME NEW cl \in ClientType, cl.n < MaxRequests, NEW kind \in Kinds
    PROVE  LET nu == Asking(cl, kind)
           IN  /\ nu \in ClientType /\ nu.pc = cl.pc /\ nu.n = cl.n + 1 /\ nu.n > 0 /\ nu.kind = kind
               /\ SameSockets(nu, cl) /\ nu.retried = FALSE
<1> DEFINE n == cl.n + 1
<1>1. n \in 0..MaxRequests /\ n > 0
  BY TransportAssumption DEF ClientType
<1>2. Asking(cl, kind) = [[[cl EXCEPT !.n = n] EXCEPT !.kind = kind] EXCEPT !.retried = FALSE]
  BY DEF Asking, ClientType
<1> HIDE DEF n
<1>3. LET nu == Asking(cl, kind)
      IN  /\ nu \in ClientType /\ nu.pc = cl.pc /\ nu.n = n /\ nu.kind = kind
          /\ SameSockets(nu, cl) /\ nu.retried = FALSE
  <2> DEFINE m == [[cl EXCEPT !.n = n] EXCEPT !.kind = kind]
  <2>1. m = [[cl EXCEPT !.n = n] EXCEPT !.kind = kind]
    OBVIOUS
  <2>2. Asking(cl, kind) = [m EXCEPT !.retried = FALSE]
    BY <1>2
  <2> HIDE DEF m
  <2>3. /\ m \in ClientType /\ m.pc = cl.pc /\ m.n = n /\ m.kind = kind
        /\ SameSockets(m, cl)
    BY <1>1, <2>1 DEF ClientType, SameSockets
  <2> QED
    BY <2>2, <2>3 DEF ClientType, SameSockets
<1> QED
  BY <1>1, <1>3 DEF n

-----------------------------------------------------------------------------
(* The steps of a client, one shape for each action.                       *)

(* The client becomes nu and sends nothing.                                *)
Quiet(c, nu) ==
    /\ client' = [client EXCEPT ![c] = nu] /\ nu \in ClientType
    /\ UNCHANGED <<frames, queue, phase, rows, glue, heap, committed>>
    /\ open' \subseteq open /\ answers' \subseteq answers

(* The client becomes nu and sends f, which may be lost.                   *)
Sends(c, nu, f) ==
    /\ client' = [client EXCEPT ![c] = nu] /\ nu \in ClientType
    /\ UNCHANGED <<queue, phase, rows, glue, heap, committed>>
    /\ answers' \subseteq answers /\ open' \subseteq open \cup {<<c, nu.opened>>}
    /\ frames' = frames \/ frames' = frames \cup {f}

FrameOf(c, nu, t) == [t |-> t, req |-> <<c, nu.n>>, kind |-> nu.kind, sock |-> <<c, nu.ws>>]

LEMMA SetShape ==
    ASSUME NEW c, NEW nu \in ClientType, NEW hangup, NEW heard, Set(c, nu, hangup, heard),
           UNCHANGED <<frames, kernel>>
    PROVE  Quiet(c, nu) /\ answers' \subseteq answers \ heard
BY DEF Set, Quiet, kernel

(* What becomes of a client whose rpc is rejected.                         *)
Rejects(nu, cl) ==
    /\ SameRequest(nu, cl)
    /\ \/ nu.pc = "idle" /\ SameSockets(nu, cl)
       \/ nu.pc = "opening" /\ Freed(nu, cl)

LEMMA RejectedShape ==
    ASSUME NEW c, NEW cl \in ClientType, NEW heard, Rejected(c, cl, heard)
    PROVE  \E nu : Quiet(c, nu) /\ Rejects(nu, cl) /\ UNCHANGED answered /\ answers' \subseteq answers \ heard
<1>1. UNCHANGED <<frames, kernel, answered>>
  BY DEF Rejected
<1>2. CASE cl.retried
  <2> DEFINE nu == [cl EXCEPT !.pc = "idle"]
  <2>1. Set(c, nu, 0, heard)
    BY <1>2 DEF Rejected
  <2>2. nu \in ClientType /\ nu.pc = "idle" /\ SameRequest(nu, cl) /\ SameSockets(nu, cl)
    BY WithPc DEF PcType
  <2> HIDE DEF nu
  <2>3. Rejects(nu, cl)
    BY <2>2 DEF Rejects
  <2> QED BY <1>1, <2>1, <2>2, <2>3, SetShape
<1>3. CASE ~cl.retried
  <2> DEFINE nu == [DropSocket(cl) EXCEPT !.pc = "opening", !.retried = TRUE]
  <2>1. Set(c, nu, cl.ws, heard)
    BY <1>3 DEF Rejected
  <2>2. nu \in ClientType /\ nu.pc = "opening" /\ SameRequest(nu, cl) /\ Freed(nu, cl)
    BY Retrying
  <2> HIDE DEF nu
  <2>3. Rejects(nu, cl)
    BY <2>2 DEF Rejects
  <2> QED BY <1>1, <2>1, <2>2, <2>3, SetShape
<1> QED
  BY <1>2, <1>3

LEMMA SendShape ==
    ASSUME TransportInv, NEW c \in Clients, NEW nu, NEW t, client' = [client EXCEPT ![c] = nu], Send(c, t)
    PROVE  frames' = frames \/ frames' = frames \cup {FrameOf(c, nu, t)}
<1>1. client'[c] = nu
  BY DEF TransportInv, ClientTypes
<1> QED
  BY <1>1 DEF Send, FrameOf

(* Putting the eval on the wire, or finding no socket to put it on.        *)
LEMMA SendEvalShape ==
    ASSUME TransportInv, NEW c \in Clients, NEW cl \in ClientType, NEW heard, SendEval(c, cl, heard)
    PROVE  /\ answers' \subseteq answers \ heard /\ UNCHANGED answered
           /\ \/ cl.ws = 0 /\ \E nu : Quiet(c, nu) /\ Rejects(nu, cl)
              \/ /\ cl.ws # 0
                 /\ \E nu : /\ Sends(c, nu, FrameOf(c, nu, "eval")) /\ nu.pc = "waiting"
                            /\ SameRequest(nu, cl) /\ SameSockets(nu, cl)
<1>1. CASE cl.ws = 0
  BY <1>1, RejectedShape DEF SendEval
<1>2. CASE cl.ws # 0
  <2> DEFINE nu == [cl EXCEPT !.pc = "waiting"]
  <2>1. nu \in ClientType /\ nu.pc = "waiting" /\ SameRequest(nu, cl) /\ SameSockets(nu, cl)
    BY WithPc DEF PcType
  <2>2. Set(c, nu, 0, heard) /\ Send(c, "eval") /\ UNCHANGED <<kernel, answered>>
    BY <1>2 DEF SendEval
  <2> HIDE DEF nu
  <2>3. client' = [client EXCEPT ![c] = nu] /\ open' \subseteq open /\ answers' \subseteq answers \ heard
    BY <2>2 DEF Set
  <2>4. frames' = frames \/ frames' = frames \cup {FrameOf(c, nu, "eval")}
    BY <2>2, <2>3, SendShape
  <2>5. Sends(c, nu, FrameOf(c, nu, "eval"))
    BY <2>1, <2>2, <2>3, <2>4 DEF Sends, kernel
  <2> QED BY <1>2, <2>1, <2>2, <2>3, <2>5
<1> QED
  BY <1>1, <1>2

-----------------------------------------------------------------------------
(* What a client's step needs to keep the invariants.                      *)

LEMMA QuietTyped ==
    ASSUME TransportInv, NEW c \in Clients, NEW nu, Quiet(c, nu), ClientOK(nu), UNCHANGED answered
    PROVE  TransportInv'
<1>1. client' \in [Clients -> ClientType] /\ \A d \in Clients : ClientOK(client'[d])
  BY DEF TransportInv, ClientTypes, Quiet
<1> QED
  BY <1>1 DEF TransportInv, KernelTypes, ClientTypes, Quiet

LEMMA FrameTyped ==
    ASSUME NEW c \in Clients, NEW nu, ClientOK(nu), nu.pc # "idle", NEW t \in {"create", "eval"}
    PROVE  /\ FrameOf(c, nu, t) \in FrameType /\ FrameOf(c, nu, t).sock = <<c, nu.ws>>
           /\ FrameOf(c, nu, t).t = t /\ FrameOf(c, nu, t).req = <<c, nu.n>>
<1>1. nu.n \in 1..MaxRequests /\ nu.kind \in Kinds /\ nu.ws \in Nat
  BY TransportAssumption DEF ClientOK, ClientType
<1>2. <<c, nu.n>> \in Sent /\ <<c, nu.ws>> \in Sockets
  BY <1>1 DEF Sent, Sockets
<1> QED
  BY <1>1, <1>2 DEF FrameOf, FrameType

LEMMA SendsTyped ==
    ASSUME TransportInv, NEW c \in Clients, NEW nu, NEW t \in {"create", "eval"},
           Sends(c, nu, FrameOf(c, nu, t)), ClientOK(nu), nu.pc # "idle", UNCHANGED answered
    PROVE  TransportInv'
<1>1. client' \in [Clients -> ClientType] /\ \A d \in Clients : ClientOK(client'[d])
  BY DEF TransportInv, ClientTypes, Sends
<1>2. frames' \subseteq FrameType
  BY FrameTyped DEF TransportInv, KernelTypes, Sends
<1>3. open' \subseteq Sockets
  <2>1. nu.opened \in Nat
    BY DEF ClientOK, ClientType
  <2> QED BY <2>1 DEF TransportInv, KernelTypes, Sends, Sockets
<1> QED
  BY <1>1, <1>2, <1>3 DEF TransportInv, KernelTypes, ClientTypes, Sends

LEMMA UnderWayTyped ==
    ASSUME TransportInv, NEW m \in UnderWay
    PROVE  /\ m.sock \in Sockets /\ m.sock[1] \in Clients /\ m.sock[2] \in Nat
           /\ m.sock = <<m.sock[1], m.sock[2]>> /\ m.req \in Sent /\ m.t \in {"create", "eval"}
<1>1. m \in FrameType \/ m \in AnswerType
  BY DEF TransportInv, KernelTypes, UnderWay, Elements
<1>2. m.sock \in Sockets /\ m.req \in Sent /\ m.t \in {"create", "eval"}
  BY <1>1 DEF FrameType, AnswerType
<1> QED
  BY <1>2 DEF Sockets

(* A client that sends nothing.                                            *)
LEMMA MatchQuiet ==
    ASSUME TransportInv, MatchInv, NEW c \in Clients, NEW nu, Quiet(c, nu), SocketOK(nu),
           \A m \in UnderWay' : Belongs(m, c, nu), RepliesMatch'
    PROVE  MatchInv'
<1>1. /\ client'[c] = nu /\ \A d \in Clients : d # c => client'[d] = client[d]
      /\ UNCHANGED <<frames, queue>> /\ answers' \subseteq answers
  BY DEF TransportInv, ClientTypes, Quiet
<1>2. OnePerSocket'
  BY <1>1 DEF MatchInv, OnePerSocket
<1>3. UnderWay' \subseteq UnderWay
  BY <1>1 DEF UnderWay, Elements
<1>4. \A d \in Clients : SocketOK(client'[d])
  BY <1>1 DEF MatchInv
<1>5. \A m \in UnderWay' : \A d \in Clients : Belongs(m, d, client'[d])
  BY <1>1, <1>3 DEF MatchInv
<1> QED
  BY <1>2, <1>4, <1>5 DEF MatchInv

(* A client that sends f on a socket with nothing under way.               *)
LEMMA MatchSends ==
    ASSUME TransportInv, MatchInv, NEW c \in Clients, NEW nu, NEW f, Sends(c, nu, f), SocketOK(nu),
           f.sock[1] = c, Belongs(f, c, nu),
           \A m \in frames \cup Elements(queue) \cup answers' : m.sock # f.sock /\ Belongs(m, c, nu),
           RepliesMatch'
    PROVE  MatchInv'
<1>1. /\ client'[c] = nu /\ \A d \in Clients : d # c => client'[d] = client[d]
      /\ UNCHANGED queue /\ answers' \subseteq answers /\ (frames' = frames \/ frames' = frames \cup {f})
  BY DEF TransportInv, ClientTypes, Sends
<1>2. \A i \in 1..Len(queue) : queue[i] \in Elements(queue)
  BY DEF Elements
<1>3. OnePerSocket'
  <2>1. CASE frames' = frames
    BY <1>1, <2>1 DEF MatchInv, OnePerSocket
  <2>2. CASE frames' = frames \cup {f}
    <3>1. \A g \in frames : g.sock # f.sock
      OBVIOUS
    <3>2. \A i \in 1..Len(queue) : queue[i].sock # f.sock
      BY <1>2
    <3>3. \A a \in answers' : a.sock # f.sock
      OBVIOUS
    <3> QED BY <1>1, <2>2, <3>1, <3>2, <3>3 DEF MatchInv, OnePerSocket
  <2> QED BY <1>1, <2>1, <2>2
<1>4. \A m \in UnderWay' : m \in UnderWay \/ m = f
  BY <1>1 DEF UnderWay, Elements
<1>5. \A m \in UnderWay' : m = f \/ m \in frames \cup Elements(queue) \cup answers'
  BY <1>1 DEF UnderWay, Elements
<1>6. \A d \in Clients : SocketOK(client'[d])
  BY <1>1 DEF MatchInv
<1>7. ASSUME NEW m \in UnderWay', NEW d \in Clients PROVE Belongs(m, d, client'[d])
  <2>1. CASE d = c
    BY <1>1, <1>5, <2>1
  <2>2. CASE d # c /\ m = f
    BY <2>2 DEF Belongs
  <2>3. CASE d # c /\ m # f
    BY <1>1, <1>4, <2>3 DEF MatchInv
  <2> QED BY <2>1, <2>2, <2>3
<1> QED
  BY <1>3, <1>6, <1>7 DEF MatchInv

(* A client that is left with no handler on any socket.                    *)
LEMMA MatchCleared ==
    ASSUME TransportInv, MatchInv, NEW c \in Clients, NEW nu, Quiet(c, nu), UNCHANGED answered,
           nu.listening = {}, nu.ready = {}, nu.opened = client[c].opened, nu.ws \in {0, client[c].ws},
           nu.pc = "opening" => nu.ws = 0,
           nu.pc = "connecting" => client[c].pc = "connecting"
    PROVE  MatchInv'
<1>1. SocketOK(client[c]) /\ \A m \in UnderWay : Belongs(m, c, client[c])
  BY DEF MatchInv
<1>2. nu.opened \in Nat
  BY DEF Quiet, ClientType
<1>3. SocketOK(nu)
  BY <1>1, <1>2 DEF SocketOK
<1>4. \A m \in UnderWay' : m \in UnderWay
  BY DEF Quiet, UnderWay, Elements
<1>5. \A m \in UnderWay' : Belongs(m, c, nu)
  BY <1>1, <1>4 DEF Belongs
<1>6. RepliesMatch'
  BY DEF MatchInv, RepliesMatch
<1> QED
  BY <1>3, <1>5, <1>6, MatchQuiet

(* The sockets of a client that obeys SocketOK, once it lets go of them.   *)
LEMMA FreedClears ==
    ASSUME NEW cl, NEW nu, SocketOK(cl), Freed(nu, cl)
    PROVE  nu.listening = {} /\ nu.ready = {} /\ nu.ws = 0 /\ nu.opened = cl.opened
BY DEF SocketOK, Freed

(* A client that starts to connect, with no handler left on a socket.      *)
LEMMA MatchDials ==
    ASSUME TransportInv, MatchInv, NEW c \in Clients, NEW nu, Quiet(c, nu), UNCHANGED answered,
           client[c].ws = 0, nu.pc = "connecting", Dials(nu, client[c])
    PROVE  MatchInv'
<1>1. /\ SocketOK(client[c]) /\ \A m \in UnderWay : Belongs(m, c, client[c])
  BY DEF MatchInv
<1>2. client[c].opened \in Nat
  BY DEF TransportInv, ClientTypes, ClientType
<1>3. /\ nu.listening = {nu.ws} /\ nu.ready = {} /\ nu.ws = nu.opened
      /\ nu.opened = client[c].opened + 1
  BY <1>1 DEF SocketOK, Dials
<1>4. SocketOK(nu)
  BY <1>2, <1>3 DEF SocketOK
<1>5. \A m \in UnderWay' : m \in UnderWay
  BY DEF Quiet, UnderWay, Elements
<1>6. ASSUME NEW m \in UnderWay', m.sock[1] = c PROVE m.sock[2] < nu.opened
  <2>1. m.sock[2] <= client[c].opened /\ m.sock[2] \in Nat
    BY <1>1, <1>5, <1>6, UnderWayTyped DEF Belongs
  <2> QED BY <1>2, <1>3, <2>1
<1>7. \A m \in UnderWay' : Belongs(m, c, nu)
  <2> SUFFICES ASSUME NEW m \in UnderWay', m.sock[1] = c
               PROVE  m.sock[2] <= nu.opened /\ m.sock[2] < nu.opened /\ m.sock[2] \notin nu.listening
    BY DEF Belongs
  <2>1. m.sock[2] \in Nat /\ m.sock[2] < nu.opened /\ nu.opened \in Nat
    BY <1>2, <1>3, <1>5, <1>6, UnderWayTyped
  <2> QED BY <1>3, <2>1
<1>8. RepliesMatch'
  BY DEF MatchInv, RepliesMatch
<1> QED
  BY <1>4, <1>7, <1>8, MatchQuiet

-----------------------------------------------------------------------------
(* The client's actions.                                                   *)

Preserves == TransportInv' /\ (KeepAlive /\ MatchInv => MatchInv')

LEMMA ClientHas ==
    ASSUME TransportInv, NEW c \in Clients
    PROVE  client[c] \in ClientType /\ ClientOK(client[c])
BY DEF TransportInv, ClientTypes

(* The eval goes out on the socket that is listened to.                    *)
LEMMA MatchSendsEval ==
    ASSUME TransportInv, MatchInv, NEW c \in Clients, NEW nu, Sends(c, nu, FrameOf(c, nu, "eval")),
           ClientOK(nu), nu.pc = "waiting", SameSockets(nu, client[c]), client[c].ws \in client[c].listening,
           \A m \in frames \cup Elements(queue) \cup answers' : m.sock # <<c, client[c].ws>>,
           UNCHANGED answered
    PROVE  MatchInv'
<1> DEFINE f == FrameOf(c, nu, "eval")
<1>1. SocketOK(client[c]) /\ \A m \in UnderWay : Belongs(m, c, client[c])
  BY DEF MatchInv
<1>2. /\ nu.ws = client[c].ws /\ nu.opened = client[c].opened /\ nu.listening = client[c].listening
      /\ nu.ready = client[c].ready
  BY DEF SameSockets
<1>3. SocketOK(nu)
  BY <1>1, <1>2 DEF SocketOK
<1>4. f.sock = <<c, nu.ws>> /\ f.t = "eval" /\ f.req = <<c, nu.n>>
  BY FrameTyped
<1> HIDE DEF f
<1>5. Belongs(f, c, nu)
  BY <1>3, <1>4 DEF Belongs, SocketOK
<1>6. ASSUME NEW m \in frames \cup Elements(queue) \cup answers' PROVE Belongs(m, c, nu)
  <2>1. m \in UnderWay
    BY DEF UnderWay, Sends
  <2> SUFFICES ASSUME m.sock[1] = c PROVE m.sock[2] <= nu.opened /\ m.sock[2] \notin nu.listening
    BY DEF Belongs
  <2>2. m.sock[2] <= nu.opened
    BY <1>1, <1>2, <2>1 DEF Belongs
  <2>3. m.sock = <<c, m.sock[2]>>
    BY <2>1, UnderWayTyped
  <2>4. nu.listening \subseteq {client[c].ws}
    BY <1>1, <1>2 DEF SocketOK
  <2> QED BY <2>2, <2>3, <2>4
<1>7. RepliesMatch'
  BY DEF MatchInv, RepliesMatch
<1> QED
  BY <1>2, <1>3, <1>4, <1>5, <1>6, <1>7, MatchSends DEF f

(* A rejected rpc: from a client as cl, whose sockets are gone or as they  *)
(* were.                                                                   *)
LEMMA RejectsPreserves ==
    ASSUME TransportInv, NEW c \in Clients, NEW cl, ClientOK(cl), cl.n > 0, cl.kind \in Kinds,
           NEW nu, Quiet(c, nu), Rejects(nu, cl), UNCHANGED answered,
           KeepAlive /\ MatchInv => /\ cl.listening = {} /\ cl.ready = {} /\ cl.opened = client[c].opened
                                    /\ cl.ws \in {0, client[c].ws}
    PROVE  Preserves
<1>1. nu \in ClientType
  BY DEF Quiet
<1>2. ClientOK(nu)
  BY <1>1 DEF ClientOK, Rejects, SameRequest
<1>3. TransportInv'
  BY <1>2, QuietTyped
<1>4. ASSUME KeepAlive, MatchInv PROVE MatchInv'
  <2>1. /\ nu.listening = {} /\ nu.ready = {} /\ nu.opened = client[c].opened
        /\ nu.ws \in {0, client[c].ws} /\ (nu.pc = "opening" => nu.ws = 0) /\ nu.pc # "connecting"
    BY <1>4 DEF Rejects, SameSockets, Freed
  <2> QED BY <1>4, <2>1, MatchCleared
<1> QED
  BY <1>3, <1>4 DEF Preserves

LEMMA RequestStep ==
    ASSUME TransportInv, NEW c \in Clients, Request(c)
    PROVE  Preserves
<1>1. client[c] \in ClientType /\ ClientOK(client[c]) /\ client[c].pc = "idle" /\ client[c].n < MaxRequests
  BY ClientHas DEF Request
<1>2. PICK kind \in Kinds :
        LET cl == Asking(client[c], kind)
        IN  IF cl.ws \in cl.ready
            THEN SendEval(c, cl, {})
            ELSE /\ IF KeepAlive /\ cl.ws # 0
                    THEN Set(c, [DropSocket(cl) EXCEPT !.pc = "opening"], cl.ws, {})
                    ELSE Set(c, Dial(cl), 0, {})
                 /\ UNCHANGED <<frames, kernel, answered>>
  BY DEF Request, Asking
<1> DEFINE cl == Asking(client[c], kind)
<1>3. /\ cl \in ClientType /\ cl.pc = "idle" /\ cl.n > 0 /\ cl.kind = kind /\ SameSockets(cl, client[c])
  BY <1>1, Asks
<1>4. /\ cl.ws \in cl.ready => SendEval(c, cl, {})
      /\ cl.ws \notin cl.ready /\ KeepAlive /\ cl.ws # 0 =>
            /\ Set(c, [DropSocket(cl) EXCEPT !.pc = "opening"], cl.ws, {})
            /\ UNCHANGED <<frames, kernel, answered>>
      /\ cl.ws \notin cl.ready /\ ~(KeepAlive /\ cl.ws # 0) =>
            Set(c, Dial(cl), 0, {}) /\ UNCHANGED <<frames, kernel, answered>>
  BY <1>2
<1> HIDE DEF cl
<1>5. ASSUME NEW nu \in ClientType, SameRequest(nu, cl) PROVE ClientOK(nu) /\ ClientOK(cl)
  BY <1>3, <1>5 DEF ClientOK, SameRequest
<1>6. ASSUME MatchInv PROVE /\ SocketOK(client[c]) /\ \A m \in UnderWay : Belongs(m, c, client[c])
                            /\ SocketOK(cl)
  BY <1>1, <1>3, <1>6 DEF MatchInv, SocketOK, SameSockets
<1>7. CASE cl.ws \in cl.ready
  <2>1. SendEval(c, cl, {})
    BY <1>4, <1>7
  <2>2. CASE cl.ws = 0
    <3>1. PICK nu : Quiet(c, nu) /\ Rejects(nu, cl) /\ UNCHANGED answered
      BY <1>3, <2>1, <2>2, SendEvalShape
    <3>2. ClientOK(cl)
      BY <1>3 DEF ClientOK
    <3>3. ~MatchInv
      BY <1>6, <1>7, <2>2 DEF SocketOK
    <3> QED BY <1>3, <3>1, <3>2, <3>3, RejectsPreserves
  <2>3. CASE cl.ws # 0
    <3>1. PICK nu : /\ Sends(c, nu, FrameOf(c, nu, "eval")) /\ nu.pc = "waiting"
                    /\ SameRequest(nu, cl) /\ SameSockets(nu, cl) /\ UNCHANGED answered
      BY <1>3, <2>1, <2>3, SendEvalShape
    <3>2. ClientOK(nu)
      BY <1>5, <3>1 DEF Sends
    <3>3. TransportInv'
      BY <3>1, <3>2, SendsTyped
    <3>4. ASSUME MatchInv PROVE MatchInv'
      <4>1. SameSockets(nu, client[c]) /\ client[c].ws \in client[c].listening
        BY <1>3, <1>6, <1>7, <3>1, <3>4 DEF SameSockets, SocketOK
      <4>2. ASSUME NEW m \in frames \cup Elements(queue) \cup answers' PROVE m.sock # <<c, client[c].ws>>
        <5>1. m \in UnderWay
          BY <3>1 DEF UnderWay, Sends
        <5>2. Belongs(m, c, client[c])
          BY <1>6, <3>4, <5>1
        <5> QED BY <1>1, <4>1, <5>2 DEF Belongs
      <4> QED BY <3>1, <3>2, <3>4, <4>1, <4>2, MatchSendsEval
    <3> QED BY <3>3, <3>4 DEF Preserves
  <2> QED BY <2>2, <2>3
<1>8. CASE cl.ws \notin cl.ready /\ KeepAlive /\ cl.ws # 0
  <2> DEFINE d == DropSocket(cl)
             nu == [d EXCEPT !.pc = "opening"]
  <2>1. d \in ClientType /\ SameRequest(d, cl) /\ Freed(d, cl)
    BY <1>3, Dropped
  <2> HIDE DEF d
  <2>2. nu \in ClientType /\ nu.pc = "opening" /\ SameRequest(nu, d) /\ SameSockets(nu, d)
    BY <2>1, WithPc DEF PcType
  <2>3. Set(c, nu, cl.ws, {}) /\ UNCHANGED <<frames, kernel, answered>>
    BY <1>4, <1>8 DEF d
  <2> HIDE DEF nu
  <2>4. Quiet(c, nu) /\ UNCHANGED answered
    BY <2>2, <2>3, SetShape
  <2>5. TransportInv'
    BY <1>5, <2>1, <2>2, <2>4, QuietTyped DEF SameRequest
  <2>6. ASSUME MatchInv PROVE MatchInv'
    <3>1. nu.listening = {} /\ nu.ready = {} /\ nu.ws = 0 /\ nu.opened = client[c].opened
      BY <1>3, <1>6, <2>1, <2>2, <2>6, FreedClears DEF SameSockets
    <3> QED BY <2>2, <2>4, <2>6, <3>1, MatchCleared
  <2> QED BY <2>5, <2>6 DEF Preserves
<1>9. CASE cl.ws \notin cl.ready /\ ~(KeepAlive /\ cl.ws # 0)
  <2> DEFINE nu == Dial(cl)
  <2>1. nu \in ClientType /\ nu.pc = "connecting" /\ SameRequest(nu, cl) /\ Dials(nu, cl)
    BY <1>3, Dialled
  <2>2. Set(c, nu, 0, {}) /\ UNCHANGED <<frames, kernel, answered>>
    BY <1>4, <1>9
  <2> HIDE DEF nu
  <2>3. Quiet(c, nu) /\ UNCHANGED answered
    BY <2>1, <2>2, SetShape
  <2>4. TransportInv'
    BY <1>5, <2>1, <2>3, QuietTyped
  <2>5. ASSUME KeepAlive, MatchInv PROVE MatchInv'
    <3>1. client[c].ws = 0 /\ Dials(nu, client[c])
      BY <1>3, <1>9, <2>1, <2>5 DEF SameSockets, Dials
    <3> QED BY <2>1, <2>3, <2>5, <3>1, MatchDials
  <2> QED BY <2>4, <2>5 DEF Preserves
<1> QED
  BY <1>7, <1>8, <1>9

LEMMA ReopenStep ==
    ASSUME TransportInv, NEW c \in Clients, Reopen(c)
    PROVE  Preserves
<1> DEFINE nu == Dial(client[c])
<1>1. client[c] \in ClientType /\ ClientOK(client[c]) /\ client[c].pc = "opening"
  BY ClientHas DEF Reopen
<1>2. nu \in ClientType /\ nu.pc = "connecting" /\ SameRequest(nu, client[c]) /\ Dials(nu, client[c])
  BY <1>1, Dialled
<1>3. Set(c, nu, 0, {}) /\ UNCHANGED <<frames, kernel, answered>>
  BY DEF Reopen
<1> HIDE DEF nu
<1>4. Quiet(c, nu) /\ UNCHANGED answered
  BY <1>2, <1>3, SetShape
<1>5. ClientOK(nu)
  BY <1>1, <1>2 DEF ClientOK, SameRequest
<1>6. TransportInv'
  BY <1>4, <1>5, QuietTyped
<1>7. ASSUME MatchInv PROVE MatchInv'
  <2>1. client[c].ws = 0
    BY <1>1, <1>7 DEF MatchInv, SocketOK
  <2> QED BY <1>2, <1>4, <1>7, <2>1, MatchDials
<1> QED
  BY <1>6, <1>7 DEF Preserves

LEMMA ConnectStep ==
    ASSUME TransportInv, NEW c \in Clients, Connect(c)
    PROVE  Preserves
<1> DEFINE was == client[c]
           k == was.opened
           r == was.ready \cup {k}
           cl == [was EXCEPT !.ready = r]
<1>1. was \in ClientType /\ ClientOK(was) /\ was.pc = "connecting"
  BY ClientHas DEF Connect
<1>2. r \in SUBSET Nat /\ k \in Nat
  BY <1>1 DEF ClientType
<1> HIDE DEF r
<1>3. /\ cl \in ClientType /\ cl.pc = was.pc /\ SameRequest(cl, was) /\ cl.opened = k /\ cl.ws = was.ws
      /\ cl.listening = was.listening /\ cl.ready = r
  BY <1>1, <1>2 DEF ClientType, SameRequest
<1>4. /\ k \in cl.listening
      /\ cl.ws = 0 => Rejected(c, cl, {})
      /\ cl.ws # 0 => /\ client' = [client EXCEPT ![c] = [cl EXCEPT !.pc = "readying"]]
                      /\ open' = open \cup {<<c, k>>} /\ Send(c, "create")
                      /\ UNCHANGED <<answers, kernel, answered>>
  BY DEF Connect, r
<1> HIDE DEF was, cl
<1>5. ClientOK(cl) /\ cl.n > 0 /\ cl.kind \in Kinds
  BY <1>1, <1>3 DEF ClientOK, SameRequest
<1>6. ASSUME MatchInv PROVE /\ SocketOK(was) /\ was.listening = {k} /\ was.ws = k /\ k # 0 /\ r = {k}
                            /\ \A m \in UnderWay : Belongs(m, c, was)
  <2>1. SocketOK(was) /\ \A m \in UnderWay : Belongs(m, c, was)
    BY <1>6 DEF MatchInv, was
  <2>2. was.listening = {k} /\ was.ws = k /\ k # 0 /\ was.ready = {}
    BY <1>1, <1>3, <1>4, <2>1 DEF SocketOK
  <2> QED BY <2>1, <2>2 DEF r
<1>7. CASE cl.ws = 0
  <2>1. PICK nu : Quiet(c, nu) /\ Rejects(nu, cl) /\ UNCHANGED answered
    BY <1>3, <1>4, <1>7, RejectedShape
  <2>2. ~MatchInv
    BY <1>3, <1>6, <1>7
  <2> QED BY <1>5, <2>1, <2>2, RejectsPreserves
<1>8. CASE cl.ws # 0
  <2> DEFINE nu == [cl EXCEPT !.pc = "readying"]
  <2>1. nu \in ClientType /\ nu.pc = "readying" /\ SameRequest(nu, cl) /\ SameSockets(nu, cl)
    BY <1>3, WithPc DEF PcType
  <2>2. /\ client' = [client EXCEPT ![c] = nu] /\ open' = open \cup {<<c, k>>} /\ Send(c, "create")
        /\ UNCHANGED <<answers, kernel, answered>>
    BY <1>4, <1>8
  <2> HIDE DEF nu
  <2> DEFINE f == FrameOf(c, nu, "create")
  <2>3. nu.opened = k /\ nu.ws = was.ws /\ nu.listening = was.listening /\ nu.ready = r
    BY <1>3, <2>1 DEF SameSockets
  <2>4. Sends(c, nu, f)
    BY <2>1, <2>2, <2>3, SendShape DEF Sends, kernel
  <2>5. ClientOK(nu)
    BY <1>5, <2>1 DEF ClientOK, SameRequest
  <2>6. TransportInv'
    BY <2>1, <2>2, <2>4, <2>5, SendsTyped
  <2>7. f.sock = <<c, nu.ws>> /\ f.t = "create"
    BY <2>1, <2>5, FrameTyped
  <2> HIDE DEF f
  <2>8. ASSUME MatchInv PROVE MatchInv'
    <3>1. SocketOK(nu)
      BY <1>2, <1>6, <2>1, <2>3, <2>8 DEF SocketOK
    <3>2. Belongs(f, c, nu)
      BY <1>2, <1>6, <2>1, <2>3, <2>7, <2>8 DEF Belongs
    <3>3. ASSUME NEW m \in frames \cup Elements(queue) \cup answers' PROVE m.sock # f.sock /\ Belongs(m, c, nu)
      <4>1. m \in UnderWay /\ Belongs(m, c, was)
        BY <1>6, <2>2, <2>8 DEF UnderWay
      <4>2. m.sock[2] \in Nat
        BY <4>1, UnderWayTyped
      <4>3. m.sock[1] = c => m.sock[2] < k
        BY <1>1, <4>1 DEF Belongs, k
      <4>4. m.sock[1] = c => m.sock[2] <= k /\ m.sock[2] # k
        BY <1>2, <4>2, <4>3
      <4> QED BY <1>6, <2>1, <2>3, <2>7, <2>8, <4>4 DEF Belongs
    <3>4. RepliesMatch'
      BY <2>2, <2>8 DEF MatchInv, RepliesMatch
    <3>5. f.sock[1] = c
      BY <2>7
    <3> QED BY <2>4, <2>8, <3>1, <3>2, <3>3, <3>4, <3>5, MatchSends
  <2> QED BY <2>6, <2>8 DEF Preserves
<1> QED
  BY <1>7, <1>8

LEMMA ConnectFailsStep ==
    ASSUME TransportInv, NEW c \in Clients, ConnectFails(c)
    PROVE  Preserves
<1> DEFINE was == client[c]
           l == was.listening \ {was.opened}
           w == IF was.retried /\ ~was.ignoring THEN 0 ELSE was.ws
           cl == [[was EXCEPT !.listening = l] EXCEPT !.ws = w]
<1>1. was \in ClientType /\ ClientOK(was) /\ was.pc = "connecting"
  BY ClientHas DEF ConnectFails
<1>2. l \in SUBSET Nat /\ w \in Nat /\ w \in {0, was.ws}
  BY <1>1 DEF ClientType
<1>3. Rejected(c, cl, {})
  BY DEF ConnectFails
<1> HIDE DEF l, w
<1>4. /\ cl \in ClientType /\ cl.pc = was.pc /\ SameRequest(cl, was) /\ cl.opened = was.opened /\ cl.ws = w
      /\ cl.listening = l /\ cl.ready = was.ready
  BY <1>1, <1>2 DEF ClientType, SameRequest
<1> HIDE DEF was, cl
<1>5. ClientOK(cl) /\ cl.n > 0 /\ cl.kind \in Kinds
  BY <1>1, <1>4 DEF ClientOK, SameRequest
<1>6. PICK nu : Quiet(c, nu) /\ Rejects(nu, cl) /\ UNCHANGED answered
  BY <1>3, <1>4, RejectedShape
<1>7. ASSUME MatchInv PROVE cl.listening = {} /\ cl.ready = {} /\ cl.opened = client[c].opened
                            /\ cl.ws \in {0, client[c].ws}
  <2>1. SocketOK(was)
    BY <1>7 DEF MatchInv, was
  <2>2. l = {} /\ was.ready = {}
    BY <1>1, <2>1 DEF SocketOK, l
  <2> QED BY <1>2, <1>4, <2>2 DEF was
<1> QED
  BY <1>5, <1>6, <1>7, RejectsPreserves

(* What is heard on a socket is the only message under way on it.          *)
LEMMA HeardAlone ==
    ASSUME TransportInv, MatchInv, NEW c \in Clients, NEW a, Heard(c, a)
    PROVE  /\ a \in UnderWay /\ Belongs(a, c, client[c]) /\ a.sock[1] = c
           /\ a.sock[2] = client[c].ws /\ client[c].ws \in client[c].listening /\ client[c].ws # 0
           /\ \A m \in frames \cup Elements(queue) \cup (answers \ {a}) : m.sock # <<c, client[c].ws>>
<1>1. a \in answers /\ a.sock[1] = c /\ a.sock[2] \in client[c].listening
  BY DEF Heard
<1>2. a \in UnderWay /\ Belongs(a, c, client[c]) /\ SocketOK(client[c])
  BY <1>1 DEF UnderWay, MatchInv
<1>3. a.sock[2] = client[c].ws /\ client[c].ws \in client[c].listening /\ client[c].ws # 0
  BY <1>1, <1>2 DEF SocketOK
<1>4. a.sock = <<c, client[c].ws>>
  BY <1>1, <1>2, <1>3, UnderWayTyped
<1>5. \A m \in frames \cup (answers \ {a}) : m.sock # a.sock
  BY <1>1 DEF MatchInv, OnePerSocket
<1>6. \A m \in Elements(queue) : m.sock # a.sock
  BY <1>1 DEF MatchInv, OnePerSocket, Elements
<1> QED
  BY <1>1, <1>2, <1>3, <1>4, <1>5, <1>6

LEMMA OnReadyStep ==
    ASSUME TransportInv, NEW c \in Clients, NEW a, OnReady(c, a)
    PROVE  Preserves
<1> DEFINE cl == client[c]
<1>1. cl \in ClientType /\ ClientOK(cl) /\ cl.pc = "readying" /\ cl.n > 0 /\ cl.kind \in Kinds /\ Heard(c, a)
  BY ClientHas DEF OnReady, ClientOK
<1>2. SendEval(c, cl, {a})
  BY DEF OnReady
<1>3. answers' \subseteq answers \ {a} /\ UNCHANGED answered
  BY <1>1, <1>2, SendEvalShape
<1>4. CASE cl.ws = 0
  <2>1. PICK nu : Quiet(c, nu) /\ Rejects(nu, cl)
    BY <1>1, <1>2, <1>4, SendEvalShape
  <2>2. ~MatchInv
    BY <1>1, <1>4, HeardAlone
  <2> QED BY <1>1, <1>3, <2>1, <2>2, RejectsPreserves
<1>5. CASE cl.ws # 0
  <2>1. PICK nu : /\ Sends(c, nu, FrameOf(c, nu, "eval")) /\ nu.pc = "waiting"
                  /\ SameRequest(nu, cl) /\ SameSockets(nu, cl)
    BY <1>1, <1>2, <1>5, SendEvalShape
  <2>2. ClientOK(nu)
    BY <1>1, <2>1 DEF ClientOK, SameRequest, Sends
  <2>3. TransportInv'
    BY <1>3, <2>1, <2>2, SendsTyped
  <2>4. ASSUME MatchInv PROVE MatchInv'
    <3>1. cl.ws \in cl.listening
      BY <1>1, <2>4, HeardAlone
    <3>2. \A m \in frames \cup Elements(queue) \cup answers' : m.sock # <<c, cl.ws>>
      BY <1>1, <1>3, <2>4, HeardAlone
    <3> QED BY <1>3, <2>1, <2>2, <2>4, <3>1, <3>2, MatchSendsEval
  <2> QED BY <2>3, <2>4 DEF Preserves
<1> QED
  BY <1>4, <1>5

LEMMA OnReplyStep ==
    ASSUME TransportInv, NEW c \in Clients, NEW a, OnReply(c, a)
    PROVE  Preserves
<1> DEFINE cl == client[c]
           nu == [[cl EXCEPT !.pc = "idle"] EXCEPT !.armed = KeepAlive]
           x == [req |-> <<c, cl.n>>, t |-> a.t, of |-> a.req, res |-> a.res]
<1>1. cl \in ClientType /\ ClientOK(cl) /\ cl.pc = "waiting" /\ Heard(c, a)
  BY ClientHas DEF OnReply
<1>2. nu \in ClientType /\ nu.pc = "idle" /\ SameSockets(nu, cl)
  BY <1>1, TransportAssumption DEF ClientType, SameSockets
<1>3. Set(c, nu, 0, {a}) /\ answered' = answered \cup {x} /\ UNCHANGED <<frames, kernel>>
  BY DEF OnReply
<1> HIDE DEF nu
<1>4. Quiet(c, nu) /\ answers' \subseteq answers \ {a}
  BY <1>2, <1>3, SetShape
<1>5. x \in [req : Sent, t : {"create", "eval"}, of : Sent, res : Results]
  <2>1. a \in AnswerType
    BY <1>1 DEF Heard, TransportInv, KernelTypes
  <2>2. <<c, cl.n>> \in Sent
    BY <1>1, TransportAssumption DEF ClientOK, ClientType, Sent
  <2> QED BY <2>1, <2>2 DEF AnswerType
<1>6. x.of = a.req /\ x.t = a.t /\ x.req = <<c, cl.n>>
  OBVIOUS
<1> HIDE DEF x
<1>7. TransportInv'
  <2>1. ClientOK(nu)
    BY <1>2 DEF ClientOK
  <2>2. client' \in [Clients -> ClientType] /\ \A d \in Clients : ClientOK(client'[d])
    BY <1>4, <2>1 DEF TransportInv, ClientTypes, Quiet
  <2>3. answered' \subseteq [req : Sent, t : {"create", "eval"}, of : Sent, res : Results]
    BY <1>3, <1>5 DEF TransportInv, ClientTypes
  <2> QED BY <1>4, <2>2, <2>3 DEF TransportInv, KernelTypes, ClientTypes, Quiet
<1>8. ASSUME MatchInv PROVE MatchInv'
  <2>1. /\ a \in UnderWay /\ Belongs(a, c, cl) /\ a.sock[1] = c
        /\ a.sock[2] = cl.ws /\ cl.ws \in cl.listening
        /\ \A m \in frames \cup Elements(queue) \cup (answers \ {a}) : m.sock # <<c, cl.ws>>
    BY <1>1, <1>8, HeardAlone
  <2>2. a.t = "eval" /\ a.req = <<c, cl.n>>
    BY <1>1, <2>1 DEF Belongs
  <2>3. RepliesMatch'
    BY <1>3, <1>6, <1>8, <2>2 DEF MatchInv, RepliesMatch
  <2>4. SocketOK(cl) /\ \A m \in UnderWay : Belongs(m, c, cl)
    BY <1>8 DEF MatchInv
  <2>5. SocketOK(nu)
    BY <1>2, <2>4 DEF SocketOK, SameSockets
  <2>6. ASSUME NEW m \in UnderWay' PROVE Belongs(m, c, nu)
    <3>1. m \in UnderWay /\ m \in frames \cup Elements(queue) \cup (answers \ {a})
      BY <1>4 DEF UnderWay, Elements, Quiet
    <3>2. m.sock # <<c, cl.ws>> /\ Belongs(m, c, cl) /\ m.sock = <<m.sock[1], m.sock[2]>>
      BY <2>1, <2>4, <3>1, UnderWayTyped
    <3>3. m.sock[1] = c => m.sock[2] \notin cl.listening /\ m.sock[2] <= cl.opened
      BY <2>4, <3>2 DEF SocketOK, Belongs
    <3> QED BY <1>2, <3>3 DEF Belongs, SameSockets
  <2> QED BY <1>4, <1>8, <2>3, <2>5, <2>6, MatchQuiet
<1> QED
  BY <1>7, <1>8 DEF Preserves

(* A step that changes at most which sockets are OPEN, and the timers.     *)
LEMMA IdlingPreserves ==
    ASSUME TransportInv, NEW c \in Clients, NEW nu, Quiet(c, nu), UNCHANGED answered,
           nu.pc = client[c].pc, SameRequest(nu, client[c]), nu.opened = client[c].opened,
           nu.ws = client[c].ws, nu.listening = client[c].listening, nu.ready \subseteq client[c].ready
    PROVE  Preserves
<1>1. ClientOK(nu)
  BY ClientHas DEF ClientOK, SameRequest, Quiet
<1>2. TransportInv'
  BY <1>1, QuietTyped
<1>3. ASSUME MatchInv PROVE MatchInv'
  <2>1. SocketOK(client[c]) /\ \A m \in UnderWay : Belongs(m, c, client[c])
    BY <1>3 DEF MatchInv
  <2>2. SocketOK(nu)
    BY <2>1 DEF SocketOK
  <2>3. \A m \in UnderWay' : m \in UnderWay
    BY DEF Quiet, UnderWay, Elements
  <2>4. \A m \in UnderWay' : Belongs(m, c, nu)
    BY <2>1, <2>3 DEF Belongs, SameRequest
  <2>5. RepliesMatch'
    BY <1>3 DEF MatchInv, RepliesMatch
  <2> QED BY <1>3, <2>2, <2>4, <2>5, MatchQuiet
<1> QED
  BY <1>2, <1>3 DEF Preserves

LEMMA StrayStep ==
    ASSUME TransportInv, NEW c \in Clients, NEW a, OnStray(c, a)
    PROVE  Preserves
<1>1. Set(c, client[c], 0, {a}) /\ UNCHANGED <<frames, kernel, answered>> /\ client[c] \in ClientType
  BY ClientHas DEF OnStray
<1>2. Quiet(c, client[c]) /\ UNCHANGED answered
  BY <1>1, SetShape
<1> QED
  BY <1>2, IdlingPreserves DEF SameRequest

LEMMA ClosingStep ==
    ASSUME TransportInv, NEW c \in Clients, NEW k, Closing(c, k)
    PROVE  Preserves
<1> DEFINE cl == client[c]
           r == cl.ready \ {k}
           nu == [cl EXCEPT !.ready = r]
<1>1. cl \in ClientType /\ r \in SUBSET Nat /\ r \subseteq cl.ready
  BY ClientHas DEF ClientType
<1>2. Set(c, nu, 0, {}) /\ UNCHANGED <<frames, kernel, answered>>
  BY DEF Closing
<1> HIDE DEF r
<1>3. /\ nu \in ClientType /\ nu.pc = cl.pc /\ SameRequest(nu, cl) /\ nu.opened = cl.opened
      /\ nu.ws = cl.ws /\ nu.listening = cl.listening /\ nu.ready = r
  BY <1>1 DEF ClientType, SameRequest
<1> HIDE DEF nu
<1>4. Quiet(c, nu) /\ UNCHANGED answered
  BY <1>2, <1>3, SetShape
<1> QED
  BY <1>1, <1>3, <1>4, IdlingPreserves

LEMMA StopIgnoringStep ==
    ASSUME TransportInv, NEW c \in Clients, StopIgnoring(c)
    PROVE  Preserves
<1> DEFINE cl == client[c]
           nu == [cl EXCEPT !.ignoring = FALSE]
<1>1. cl \in ClientType
  BY ClientHas
<1>2. Set(c, nu, 0, {}) /\ UNCHANGED <<frames, kernel, answered>>
  BY DEF StopIgnoring
<1>3. nu \in ClientType /\ nu.pc = cl.pc /\ SameRequest(nu, cl) /\ SameSockets(nu, cl)
  BY <1>1 DEF ClientType, SameRequest, SameSockets
<1> HIDE DEF nu
<1>4. Quiet(c, nu) /\ UNCHANGED answered
  BY <1>2, <1>3, SetShape
<1> QED
  BY <1>3, <1>4, IdlingPreserves DEF SameSockets

(* A step that lets go of the current socket and turns to pc p.            *)
LEMMA FreedPreserves ==
    ASSUME TransportInv, NEW c \in Clients, NEW nu, Quiet(c, nu), UNCHANGED answered,
           SameRequest(nu, client[c]), Freed(nu, client[c]), nu.pc \in {"idle", client[c].pc}
    PROVE  Preserves
<1>1. ClientOK(nu)
  BY ClientHas DEF ClientOK, SameRequest, Quiet
<1>2. TransportInv'
  BY <1>1, QuietTyped
<1>3. ASSUME MatchInv PROVE MatchInv'
  <2>1. nu.listening = {} /\ nu.ready = {} /\ nu.ws = 0 /\ nu.opened = client[c].opened
    BY <1>3, FreedClears DEF MatchInv
  <2> QED BY <1>3, <2>1, MatchCleared
<1> QED
  BY <1>2, <1>3 DEF Preserves

LEMMA TimeoutStep ==
    ASSUME TransportInv, NEW c \in Clients, Timeout(c)
    PROVE  Preserves
<1> DEFINE d == DropSocket(client[c])
           nu == [d EXCEPT !.pc = "idle"]
<1>1. d \in ClientType /\ SameRequest(d, client[c]) /\ Freed(d, client[c])
  BY ClientHas, Dropped
<1>2. Set(c, nu, client[c].ws, {}) /\ UNCHANGED <<frames, kernel, answered>>
  BY DEF Timeout
<1> HIDE DEF d
<1>3. nu \in ClientType /\ nu.pc = "idle" /\ SameRequest(nu, d) /\ SameSockets(nu, d)
  BY <1>1, WithPc DEF PcType
<1> HIDE DEF nu
<1>4. Quiet(c, nu) /\ UNCHANGED answered
  BY <1>2, <1>3, SetShape
<1> QED
  BY <1>1, <1>3, <1>4, FreedPreserves DEF SameRequest, SameSockets, Freed

LEMMA KeepAliveExpiresStep ==
    ASSUME TransportInv, NEW c \in Clients, KeepAliveExpires(c)
    PROVE  Preserves
<1> DEFINE d == DropSocket(client[c])
           nu == [d EXCEPT !.armed = FALSE]
<1>1. d \in ClientType /\ d.pc = client[c].pc /\ SameRequest(d, client[c]) /\ Freed(d, client[c])
  BY ClientHas, Dropped
<1>2. Set(c, nu, client[c].ws, {}) /\ UNCHANGED <<frames, kernel, answered>>
  BY DEF KeepAliveExpires
<1> HIDE DEF d
<1>3. nu \in ClientType /\ nu.pc = d.pc /\ SameRequest(nu, d) /\ SameSockets(nu, d)
  BY <1>1 DEF ClientType, SameRequest, SameSockets
<1> HIDE DEF nu
<1>4. Quiet(c, nu) /\ UNCHANGED answered
  BY <1>2, <1>3, SetShape
<1> QED
  BY <1>1, <1>3, <1>4, FreedPreserves DEF SameRequest, SameSockets, Freed

LEMMA OnCloseStep ==
    ASSUME TransportInv, NEW c \in Clients, NEW k, OnClose(c, k)
    PROVE  Preserves
<1> DEFINE was == client[c]
           l == was.listening \ {k}
           r == was.ready \ {k}
           cl == [[was EXCEPT !.listening = l] EXCEPT !.ready = r]
           forgot == [cl EXCEPT !.ws = 0]
<1>1. was \in ClientType /\ ClientOK(was) /\ k \in was.listening
  BY ClientHas DEF OnClose
<1>2. l \in SUBSET Nat /\ r \in SUBSET Nat
  BY <1>1 DEF ClientType
<1>3. \/ Pending(cl) /\ Rejected(c, forgot, {})
      \/ /\ Set(c, cl, 0, {}) \/ Set(c, forgot, 0, {})
         /\ UNCHANGED <<frames, kernel, answered>>
  <2>1. cl = [was EXCEPT !.listening = l, !.ready = r]
    BY <1>1 DEF ClientType
  <2> QED BY <2>1 DEF OnClose
<1>4. ASSUME MatchInv PROVE SocketOK(was) /\ l = {} /\ r = {}
  <2>1. SocketOK(was)
    BY <1>4 DEF MatchInv
  <2> QED BY <1>1, <2>1 DEF SocketOK
<1> HIDE DEF l, r
<1>5. /\ cl \in ClientType /\ cl.pc = was.pc /\ SameRequest(cl, was) /\ cl.opened = was.opened
      /\ cl.ws = was.ws /\ cl.listening = l /\ cl.ready = r
  BY <1>1, <1>2 DEF ClientType, SameRequest
<1> HIDE DEF cl
<1>6. /\ forgot \in ClientType /\ forgot.pc = was.pc /\ SameRequest(forgot, was)
      /\ forgot.opened = was.opened /\ forgot.ws = 0 /\ forgot.listening = l /\ forgot.ready = r
  BY <1>5 DEF ClientType, SameRequest
<1> HIDE DEF forgot
<1>7. CASE Pending(cl) /\ Rejected(c, forgot, {})
  <2>1. PICK nu : Quiet(c, nu) /\ Rejects(nu, forgot) /\ UNCHANGED answered
    BY <1>6, <1>7, RejectedShape
  <2>2. ClientOK(forgot) /\ forgot.n > 0 /\ forgot.kind \in Kinds
    BY <1>1, <1>5, <1>6, <1>7 DEF ClientOK, SameRequest, Pending
  <2> QED BY <1>4, <1>6, <2>1, <2>2, RejectsPreserves
<1>8. ASSUME NEW nu \in {cl, forgot}, Set(c, nu, 0, {}), UNCHANGED <<frames, kernel, answered>>
      PROVE  Preserves
  <2>1. /\ nu \in ClientType /\ nu.pc = was.pc /\ SameRequest(nu, was) /\ nu.opened = was.opened
        /\ nu.ws \in {0, was.ws} /\ nu.listening = l /\ nu.ready = r
    BY <1>5, <1>6
  <2>2. Quiet(c, nu) /\ UNCHANGED answered
    BY <1>8, <2>1, SetShape
  <2>3. ClientOK(nu)
    BY <1>1, <2>1 DEF ClientOK, SameRequest
  <2>4. TransportInv'
    BY <2>2, <2>3, QuietTyped
  <2>5. ASSUME MatchInv PROVE MatchInv'
    <3>1. was.pc = "opening" => was.ws = 0
      BY <1>4, <2>5 DEF SocketOK
    <3> QED BY <1>4, <2>1, <2>2, <2>5, <3>1, MatchCleared
  <2> QED BY <2>4, <2>5 DEF Preserves
<1> QED
  BY <1>3, <1>7, <1>8

LEMMA TransportStep ==
    ASSUME TransportInv, NEW c \in Clients, Transport(c)
    PROVE  Preserves
BY RequestStep, ReopenStep, ConnectStep, ConnectFailsStep, OnReadyStep, OnReplyStep, StrayStep,
   ClosingStep, OnCloseStep, TimeoutStep, KeepAliveExpiresStep, StopIgnoringStep DEF Transport

-----------------------------------------------------------------------------
(* Types.                                                                  *)

LEMMA InitTyped ==
    ASSUME Init PROVE TransportInv
<1>1. NewClient \in ClientType /\ ClientOK(NewClient)
  BY TransportAssumption DEF NewClient, ClientType, ClientOK
<1>2. client = [c \in Clients |-> NewClient] /\ answered = {}
  BY DEF Init
<1> HIDE DEF NewClient
<1>3. ClientTypes
  BY <1>1, <1>2 DEF ClientTypes
<1>4. KernelTypes
  BY QueueAssumption DEF Init, KernelInit, KernelTypes
<1> QED
  BY <1>3, <1>4 DEF TransportInv

LEMMA NextTyped ==
    ASSUME TransportInv, [Next]_vars PROVE TransportInv'
<1>1. CASE (Kernel \/ Environment) /\ UNCHANGED <<client, answered>>
  <2>1. KernelTypes'
    BY <1>1, KernelTyped DEF TransportInv
  <2>2. ClientTypes'
    BY <1>1 DEF TransportInv, ClientTypes
  <2> QED BY <2>1, <2>2 DEF TransportInv
<1>2. CASE \E c \in Clients : Transport(c)
  BY <1>2, TransportStep DEF Preserves
<1>3. CASE UNCHANGED vars
  BY <1>3 DEF vars, wire, kernel, TransportInv, KernelTypes, ClientTypes
<1> QED
  BY <1>1, <1>2, <1>3 DEF Next

(* For any number of clients, requests, rows and permits, every message,   *)
(* row and client keeps its shape, the queue its bound, and a client that  *)
(* is not idle has a request to work on.                                   *)
THEOREM TransportInvariant == Spec => [](TypeOK /\ TransportInv)
<1>1. TransportInv => TypeOK
  <2> SUFFICES ASSUME TransportInv PROVE TypeOK
    OBVIOUS
  <2>1. Sent \subseteq Requests
    BY TransportAssumption DEF Sent, Requests
  <2>2. /\ FrameType \subseteq [t : {"create", "eval"}, req : Requests, kind : Kinds, sock : Sockets]
        /\ AnswerType \subseteq [t : {"create", "eval"}, req : Requests, res : Results, sock : Sockets]
        /\ RowType \subseteq [req : Requests, reply : Kinds \cup {"durable", "notDurable"}]
        /\ [req : Sent, t : {"create", "eval"}, of : Sent, res : Results]
              \subseteq [req : Requests, t : {"create", "eval"}, of : Requests, res : Results]
    BY <2>1 DEF FrameType, AnswerType, RowType
  <2>0. ASSUME NEW S, NEW T, S \subseteq T, NEW s \in Seq(S) PROVE s \in Seq(T)
    BY <2>0
  <2>3. queue \in Seq([t : {"create", "eval"}, req : Requests, kind : Kinds, sock : Sockets])
    <3>1. queue \in Seq(FrameType)
      BY DEF TransportInv, KernelTypes
    <3> QED BY <2>0, <2>2, <3>1, Zenon
  <2>4. rows \in Seq([req : Requests, reply : Kinds \cup {"durable", "notDurable"}])
    <3>1. rows \in Seq(RowType)
      BY DEF TransportInv, KernelTypes
    <3> QED BY <2>0, <2>2, <3>1, Zenon
  <2>5. glue \in {"Some", "None"} /\ heap \in Seq(Requests) /\ committed \in Seq(Requests)
    BY <2>1 DEF TransportInv, KernelTypes
  <2>6. client \in [Clients -> ClientType]
    BY DEF TransportInv, ClientTypes
  <2>7. /\ frames \subseteq FrameType /\ answers \subseteq AnswerType /\ open \subseteq Sockets
        /\ Len(queue) <= MaxDepth /\ phase \in {"queued", "run", "ran", "durable", "notDurable", "trapped"}
        /\ phase # "queued" => queue # <<>>
        /\ Len(rows) <= MaxRows
        /\ answered \subseteq [req : Sent, t : {"create", "eval"}, of : Sent, res : Results]
    BY DEF TransportInv, KernelTypes, ClientTypes
  <2> HIDE DEF FrameType, AnswerType, RowType
  <2>8. /\ frames \subseteq [t : {"create", "eval"}, req : Requests, kind : Kinds, sock : Sockets]
        /\ answers \subseteq [t : {"create", "eval"}, req : Requests, res : Results, sock : Sockets]
        /\ answered \subseteq [req : Requests, t : {"create", "eval"}, of : Requests, res : Results]
    BY <2>2, <2>7, Zenon
  <2> QED BY <2>3, <2>4, <2>5, <2>6, <2>7, <2>8 DEF TypeOK, ClientType
<1> QED
  BY <1>1, InitTyped, NextTyped, PTL DEF Spec

-----------------------------------------------------------------------------
(* The kernel's steps and the messages under way.                          *)

(* A message that stands for one that was under way before.                *)
Continues(m) == \E o \in UnderWay : m.sock = o.sock /\ m.t = o.t /\ m.req = o.req

LEMMA MatchCarried ==
    ASSUME MatchInv, OnePerSocket', \A m \in UnderWay' : Continues(m), UNCHANGED <<client, answered>>
    PROVE  MatchInv'
<1>1. ASSUME NEW m \in UnderWay', NEW c \in Clients PROVE Belongs(m, c, client[c])
  <2>1. PICK o \in UnderWay : m.sock = o.sock /\ m.t = o.t /\ m.req = o.req
    BY DEF Continues
  <2>2. Belongs(o, c, client[c])
    BY DEF MatchInv
  <2> QED BY <2>1, <2>2 DEF Belongs
<1>2. (\A c \in Clients : SocketOK(client[c])) /\ RepliesMatch
  BY DEF MatchInv
<1>3. (\A c \in Clients : SocketOK(client'[c])) /\ RepliesMatch'
  BY <1>2 DEF RepliesMatch
<1>4. \A m \in UnderWay' : \A c \in Clients : Belongs(m, c, client'[c])
  BY <1>1
<1> QED
  BY <1>3, <1>4 DEF MatchInv

LEMMA MatchShrinks ==
    ASSUME MatchInv, frames' \subseteq frames, answers' \subseteq answers, queue' \in {queue, <<>>},
           UNCHANGED <<client, answered>>
    PROVE  MatchInv'
<1>1. OnePerSocket' /\ Elements(queue') \subseteq Elements(queue)
  BY DEF MatchInv, OnePerSocket, Elements
<1>2. \A m \in UnderWay' : Continues(m)
  BY <1>1 DEF UnderWay, Continues
<1> QED
  BY <1>1, <1>2, MatchCarried

LEMMA MatchEndsTurn ==
    ASSUME TransportInv, MatchInv, NEW res, EndsTurn(res), UNCHANGED <<client, answered>>
    PROVE  MatchInv'
<1>1. /\ queue # <<>> /\ res \in Results /\ Answer(Owner, res) /\ queue' = Tail(queue)
      /\ frames' = frames /\ KernelTypes
  BY DEF EndsTurn, Finish, TransportInv
<1>2. /\ Owner \in FrameType /\ Len(queue) \in Nat \ {0} /\ 1 \in 1..Len(queue)
      /\ Len(queue') = Len(queue) - 1
      /\ \A i \in 1..Len(queue') : queue'[i] = queue[i + 1] /\ i + 1 \in 1..Len(queue)
  BY <1>1, OwnerShape
<1>3. Owner = queue[1]
  BY DEF Owner
<1>4. \/ answers' = answers
      \/ \E a \in AnswerType :
            answers' = answers \cup {a} /\ a.sock = Owner.sock /\ a.t = Owner.t /\ a.req = Owner.req
  BY <1>1, <1>2, AnswerShape
<1>5. /\ \A i \in 1..Len(queue') : queue'[i].sock # Owner.sock
      /\ \A i, j \in 1..Len(queue') : queue'[i].sock = queue'[j].sock => i = j
      /\ \A i \in 1..Len(queue') : \A f \in frames : queue'[i].sock # f.sock
      /\ \A i \in 1..Len(queue') : \A a \in answers : queue'[i].sock # a.sock
      /\ \A f \in frames : f.sock # Owner.sock
      /\ \A a \in answers : a.sock # Owner.sock
      /\ \A f, g \in frames : f.sock = g.sock => f = g
      /\ \A f \in frames : \A a \in answers : f.sock # a.sock
      /\ \A a, b \in answers : a.sock = b.sock => a = b
  <2>1. OnePerSocket
    BY DEF MatchInv
  <2>2. \A i \in 1..Len(queue') : i + 1 # 1 /\ i \in Nat
    BY <1>2
  <2>3. \A i, j \in 1..Len(queue') : i + 1 = j + 1 => i = j
    BY <1>2
  <2>4. \A i \in 1..Len(queue') : queue[i + 1].sock # queue[1].sock
    BY <1>2, <2>1, <2>2 DEF OnePerSocket
  <2>5. \A i, j \in 1..Len(queue') : queue[i + 1].sock = queue[j + 1].sock => i + 1 = j + 1
    BY <1>2, <2>1 DEF OnePerSocket
  <2> QED BY <1>2, <1>3, <2>1, <2>3, <2>4, <2>5, SMTT(30) DEF OnePerSocket
<1>6. OnePerSocket'
  <2>1. CASE answers' = answers
    BY <1>1, <1>5, <2>1 DEF OnePerSocket
  <2>2. ASSUME NEW a, answers' = answers \cup {a}, a.sock = Owner.sock PROVE OnePerSocket'
    BY <1>1, <1>5, <2>2 DEF OnePerSocket
  <2> QED BY <1>4, <2>1, <2>2
<1>7. Owner \in UnderWay
  BY <1>2, <1>3 DEF UnderWay, Elements
<1>8. ASSUME NEW i \in 1..Len(queue') PROVE queue'[i] \in UnderWay
  BY <1>2 DEF UnderWay, Elements
<1>9. ASSUME NEW m \in UnderWay' PROVE Continues(m)
  <2>1. m \in frames \/ (\E i \in 1..Len(queue') : m = queue'[i]) \/ m \in answers'
    BY <1>1 DEF UnderWay, Elements
  <2>2. m \in UnderWay \/ (m.sock = Owner.sock /\ m.t = Owner.t /\ m.req = Owner.req)
    BY <1>4, <1>8, <2>1 DEF UnderWay
  <2> QED BY <1>7, <2>2 DEF Continues
<1> QED
  BY <1>6, <1>9, MatchCarried

LEMMA MatchReceive ==
    ASSUME TransportInv, MatchInv, NEW f \in frames, Receive(f), UNCHANGED <<client, answered>>
    PROVE  MatchInv'
<1>1. /\ f \in FrameType /\ queue \in Seq(FrameType) /\ frames' = frames \ {f} /\ KernelTypes
      /\ Len(queue) \in Nat
  BY DEF TransportInv, KernelTypes, Receive
<1>2. OnePerSocket /\ f \in UnderWay /\ \A i \in 1..Len(queue) : queue[i] \in UnderWay
  BY DEF MatchInv, UnderWay, Elements
<1>3. CASE Answer(f, "queueFull") /\ UNCHANGED queue
  <2>1. \/ answers' = answers
        \/ \E a \in AnswerType :
              answers' = answers \cup {a} /\ a.sock = f.sock /\ a.t = f.t /\ a.req = f.req
    BY <1>1, <1>3, AnswerShape DEF Results
  <2>2. OnePerSocket'
    BY <1>1, <1>2, <1>3, <2>1 DEF OnePerSocket
  <2>3. ASSUME NEW m \in UnderWay' PROVE Continues(m)
    <3>1. m \in frames \/ m \in Elements(queue) \/ m \in answers'
      BY <1>1, <1>3 DEF UnderWay, Elements
    <3>2. m \in UnderWay \/ (m.sock = f.sock /\ m.t = f.t /\ m.req = f.req)
      BY <2>1, <3>1 DEF UnderWay
    <3> QED BY <1>2, <3>2 DEF Continues
  <2> QED BY <2>2, <2>3, MatchCarried
<1>4. CASE queue' = Append(queue, f) /\ UNCHANGED answers
  <2>1. /\ Len(queue') = Len(queue) + 1 /\ queue'[Len(queue) + 1] = f
        /\ \A i \in 1..Len(queue) : queue'[i] = queue[i]
    BY <1>1, <1>4
  <2>2. \A i \in 1..Len(queue') : i \in 1..Len(queue) \/ i = Len(queue) + 1
    BY <1>1, <2>1
  <2>3. OnePerSocket'
    <3>1. \A g, h \in frames' : g.sock = h.sock => g = h
      BY <1>1, <1>2 DEF OnePerSocket
    <3>2. \A g \in frames' : \A i \in 1..Len(queue') : g.sock # queue'[i].sock
      BY <1>1, <1>2, <2>1, <2>2 DEF OnePerSocket
    <3>3. \A g \in frames' : \A a \in answers' : g.sock # a.sock
      BY <1>1, <1>2, <1>4 DEF OnePerSocket
    <3>4. \A i, j \in 1..Len(queue') : queue'[i].sock = queue'[j].sock => i = j
      BY <1>2, <2>1, <2>2 DEF OnePerSocket
    <3>5. \A i \in 1..Len(queue') : \A a \in answers' : queue'[i].sock # a.sock
      BY <1>2, <1>4, <2>1, <2>2 DEF OnePerSocket
    <3>6. \A a, b \in answers' : a.sock = b.sock => a = b
      BY <1>2, <1>4 DEF OnePerSocket
    <3> QED BY <3>1, <3>2, <3>3, <3>4, <3>5, <3>6 DEF OnePerSocket
  <2>4. ASSUME NEW m \in UnderWay' PROVE Continues(m)
    <3>1. m \in frames \/ (\E i \in 1..Len(queue') : m = queue'[i]) \/ m \in answers
      BY <1>1, <1>4 DEF UnderWay, Elements
    <3>2. m \in UnderWay
      BY <1>2, <2>1, <2>2, <3>1 DEF UnderWay
    <3> QED BY <3>2 DEF Continues
  <2> QED BY <2>3, <2>4, MatchCarried
<1> QED
  BY <1>3, <1>4 DEF Receive

LEMMA MatchKernel ==
    ASSUME TransportInv, MatchInv, Kernel \/ Environment, UNCHANGED <<client, answered>>
    PROVE  MatchInv'
<1>1. CASE Serve
  <2>1. \/ \E res : EndsTurn(res)
        \/ Reserve \/ Execute \/ ExecuteEvicted \/ Checkpoint
    BY <1>1, ServeShape DEF TransportInv
  <2>2. CASE Reserve \/ Execute \/ ExecuteEvicted \/ Checkpoint
    BY <2>2, MatchShrinks DEF Reserve, Execute, ExecuteEvicted, Checkpoint, wire
  <2> QED BY <2>1, <2>2, MatchEndsTurn
<1>2. CASE \E f \in frames : Receive(f)
  BY <1>2, MatchReceive
<1>3. CASE \E f \in frames : LoseFrame(f)
  <2>1. frames' \subseteq frames /\ answers' = answers /\ queue' = queue
    BY <1>3 DEF LoseFrame, kernel
  <2> QED BY <2>1, MatchShrinks
<1>4. CASE Crash \/ Evict
  BY <1>4, MatchShrinks DEF Crash, Evict, wire
<1>5. CASE \E s \in open : NetworkDrop(s)
  <2>1. frames' = frames /\ answers' \subseteq answers /\ queue' = queue
    BY <1>5 DEF NetworkDrop, kernel
  <2> QED BY <2>1, MatchShrinks
<1> QED
  BY <1>1, <1>2, <1>3, <1>4, <1>5 DEF Kernel, Environment

(* With keep-alive, no cross-talk: whatever connections are lost, timers   *)
(* go off, frames are retried and sockets replaced, an eval of any client  *)
(* is resolved with the reply to its own frame.                            *)
THEOREM RepliesAlwaysMatch ==
    ASSUME KeepAlive = TRUE
    PROVE  Spec => []RepliesMatch
<1>1. Init => MatchInv
  <2> SUFFICES ASSUME Init PROVE MatchInv
    OBVIOUS
  <2>1. /\ frames = {} /\ answers = {} /\ queue = <<>> /\ answered = {}
        /\ client = [c \in Clients |-> NewClient]
    BY DEF Init, KernelInit
  <2>2. SocketOK(NewClient)
    BY DEF SocketOK, NewClient
  <2>3. UnderWay = {}
    BY <2>1 DEF UnderWay, Elements
  <2> HIDE DEF NewClient
  <2> QED BY <2>1, <2>2, <2>3 DEF MatchInv, OnePerSocket, RepliesMatch
<1>2. TransportInv /\ MatchInv /\ [Next]_vars => MatchInv'
  <2> SUFFICES ASSUME TransportInv, MatchInv, [Next]_vars PROVE MatchInv'
    OBVIOUS
  <2>1. CASE (Kernel \/ Environment) /\ UNCHANGED <<client, answered>>
    BY <2>1, MatchKernel
  <2>2. CASE \E c \in Clients : Transport(c)
    BY <2>2, TransportStep DEF Preserves
  <2>3. CASE UNCHANGED vars
    BY <2>3, MatchShrinks DEF vars, wire, kernel
  <2> QED BY <2>1, <2>2, <2>3 DEF Next
<1>3. MatchInv => RepliesMatch
  BY DEF MatchInv
<1> QED
  BY <1>1, <1>2, <1>3, TransportInvariant, PTL DEF Spec


-----------------------------------------------------------------------------
(* What a client's step leaves alone: the kernel and what it ran.          *)

LEMMA ClientLeavesKernel ==
    ASSUME NEW c \in Clients, Transport(c)
    PROVE  /\ UNCHANGED kernel /\ answers' \subseteq answers
           /\ \/ UNCHANGED answered
              \/ \E a \in answers : answered' = answered \cup
                    {[req |-> <<c, client[c].n>>, t |-> a.t, of |-> a.req, res |-> a.res]}
<1>1. ASSUME NEW cl, NEW k, NEW heard, Set(c, cl, k, heard) PROVE answers' \subseteq answers
  BY <1>1 DEF Set
<1>2. ASSUME NEW cl, NEW heard, Rejected(c, cl, heard)
      PROVE  answers' \subseteq answers /\ UNCHANGED <<kernel, answered>>
  BY <1>1, <1>2 DEF Rejected
<1>3. ASSUME NEW cl, NEW heard, SendEval(c, cl, heard)
      PROVE  answers' \subseteq answers /\ UNCHANGED <<kernel, answered>>
  BY <1>1, <1>2, <1>3 DEF SendEval
<1>4. CASE Request(c)
  BY <1>1, <1>3, <1>4 DEF Request
<1>5. CASE Reopen(c)
  BY <1>1, <1>5 DEF Reopen
<1>6. CASE Connect(c)
  BY <1>2, <1>6 DEF Connect
<1>7. CASE ConnectFails(c)
  BY <1>2, <1>7 DEF ConnectFails
<1>8. ASSUME NEW a \in answers, OnReady(c, a)
      PROVE  answers' \subseteq answers /\ UNCHANGED <<kernel, answered>>
  BY <1>3, <1>8 DEF OnReady
<1>9. ASSUME NEW a \in answers, OnReply(c, a)
      PROVE  /\ answers' \subseteq answers /\ UNCHANGED kernel
             /\ answered' = answered \cup
                   {[req |-> <<c, client[c].n>>, t |-> a.t, of |-> a.req, res |-> a.res]}
  BY <1>1, <1>9 DEF OnReply
<1>10. ASSUME NEW a \in answers, OnStray(c, a)
       PROVE  answers' \subseteq answers /\ UNCHANGED <<kernel, answered>>
  BY <1>1, <1>10 DEF OnStray
<1>11. ASSUME NEW k \in client[c].listening, Closing(c, k) \/ OnClose(c, k)
       PROVE  answers' \subseteq answers /\ UNCHANGED <<kernel, answered>>
  BY <1>1, <1>2, <1>11 DEF Closing, OnClose
<1>12. CASE Timeout(c) \/ KeepAliveExpires(c) \/ StopIgnoring(c)
  BY <1>1, <1>12 DEF Timeout, KeepAliveExpires, StopIgnoring
<1> QED
  BY <1>4, <1>5, <1>6, <1>7, <1>8, <1>9, <1>10, <1>11, <1>12 DEF Transport

-----------------------------------------------------------------------------
(* A cell runs once.                                                       *)

LEMMA Appended ==
    ASSUME NEW S, NEW s \in Seq(S), NEW x \in S
    PROVE  /\ Elements(Append(s, x)) = Elements(s) \cup {x}
           /\ (\A i, j \in 1..Len(s) : s[i] = s[j] => i = j) /\ x \notin Elements(s) =>
                 \A i, j \in 1..Len(Append(s, x)) : Append(s, x)[i] = Append(s, x)[j] => i = j
<1> DEFINE a == Append(s, x)
           n == Len(s)
<1>1. Len(a) = n + 1 /\ a[n + 1] = x /\ (\A i \in 1..n : a[i] = s[i]) /\ n \in Nat
  OBVIOUS
<1> HIDE DEF a
<1>2. (\A i \in 1..Len(a) : i \in 1..n \/ i = n + 1) /\ (\A i \in 1..n : i \in 1..Len(a)) /\ n + 1 \in 1..Len(a)
  BY <1>1
<1>3. Elements(a) = Elements(s) \cup {x}
  <2>1. \A e \in Elements(a) : e \in Elements(s) \cup {x}
    BY <1>1, <1>2 DEF Elements
  <2>2. \A e \in Elements(s) \cup {x} : e \in Elements(a)
    <3>1. \A i \in 1..n : \E j \in 1..Len(a) : a[j] = s[i]
      BY <1>1, <1>2
    <3>2. \E j \in 1..Len(a) : a[j] = x
      BY <1>1, <1>2
    <3> QED BY <3>1, <3>2 DEF Elements
  <2> QED BY <2>1, <2>2
<1>4. ASSUME \A i, j \in 1..n : s[i] = s[j] => i = j, x \notin Elements(s)
      PROVE  \A i, j \in 1..Len(a) : a[i] = a[j] => i = j
  <2>1. \A i \in 1..n : s[i] # x
    BY <1>4 DEF Elements
  <2> QED BY <1>1, <1>2, <1>4, <2>1
<1> QED
  BY <1>3, <1>4 DEF a

(* Nothing that OnceInv speaks of changes, or the owner's turn is over, or *)
(* the heap is restored.                                                   *)
LEMMA OnceKept ==
    ASSUME OnceInv, UNCHANGED <<rows, committed>>, heap' \in {heap, committed},
           phase' = "queued" \/ (phase' = phase /\ (phase # "queued" => queue'[1] = queue[1]))
    PROVE  OnceInv'
<1>1. Reserved' = Reserved
  BY DEF Reserved
<1>2. /\ \A i, j \in 1..Len(rows') : rows'[i].req = rows'[j].req => i = j
      /\ RunsOnce'
      /\ \A i, j \in 1..Len(committed') : committed'[i] = committed'[j] => i = j
      /\ Elements(committed') \subseteq Elements(heap') /\ Elements(heap') \subseteq Reserved'
  BY <1>1 DEF OnceInv, RunsOnce
<1>3. phase' # "queued" => Owner'.t = "eval" /\ Owner'.req \in Reserved'
  BY <1>1 DEF OnceInv, Owner
<1>4. phase' = "run" => Owner'.req \notin Elements(heap')
  BY DEF OnceInv, Owner
<1> QED
  BY <1>2, <1>3, <1>4 DEF OnceInv

LEMMA ReceiveKeepsOwner ==
    ASSUME KernelTypes, NEW f \in frames, Receive(f)
    PROVE  /\ phase # "queued" => queue'[1] = queue[1]
           /\ UNCHANGED <<phase, rows, heap, committed>>
<1>1. /\ f \in FrameType /\ queue \in Seq(FrameType) /\ UNCHANGED <<phase, rows, heap, committed>>
      /\ queue' = queue \/ queue' = Append(queue, f)
  BY DEF KernelTypes, Receive
<1>2. ASSUME phase # "queued" PROVE Append(queue, f)[1] = queue[1]
  BY <1>1, <1>2 DEF KernelTypes
<1> QED
  BY <1>1, <1>2

LEMMA NotReserved ==
    ASSUME NEW req, EvalReplies(req) = {}
    PROVE  req \notin Reserved
BY DEF EvalReplies, RowsOf, Reserved

LEMMA OnceKernel ==
    ASSUME NoRollOver, KernelTypes, OnceInv, Kernel \/ Environment
    PROVE  OnceInv'
<1>1. ASSUME NEW res, EndsTurn(res), UNCHANGED rows PROVE OnceInv'
  BY <1>1, OnceKept DEF EndsTurn, Finish
<1>2. CASE Create \/ Replay \/ EvalFails
  BY <1>1, <1>2, ServeShape DEF Serve, Create, Replay, EvalFails, Execute, ExecuteEvicted, Checkpoint, Reserve,
     Reply, EndsTurn, Finish
<1>3. CASE Reply
  <2>1. /\ EndsTurn(phase) /\ phase \in {"durable", "notDurable"} /\ queue # <<>>
        /\ WriteEvalReply(Owner.req, phase) \/ UNCHANGED rows
    BY <1>3 DEF Reply, EndsTurn, KernelTypes, Results
  <2>2. CASE WriteEvalReply(Owner.req, phase)
    <3>1. Owner.req \in Sent /\ Owner.req \in Reserved
      BY <2>1, OwnerShape DEF FrameType, OnceInv
    <3>2. \A i, j \in 1..Len(rows) : rows[i].req = rows[j].req => i = j
      BY DEF OnceInv
    <3>3. /\ \A i, j \in 1..Len(rows') : rows'[i].req = rows'[j].req => i = j
          /\ Reserved' = Reserved
      <4>1. phase \in Kinds \cup {"durable", "notDurable"}
        BY <2>1
      <4>2. /\ \A i, j \in 1..Len(rows') : rows'[i].req = rows'[j].req => i = j
            /\ Reserved' = Reserved \cup {Owner.req}
        BY <2>2, <3>1, <3>2, <4>1, UpsertKeeps
      <4> QED BY <3>1, <4>2
    <3>4. phase' = "queued" /\ committed' = committed /\ heap' \in {heap, committed}
      BY <2>1 DEF EndsTurn, Finish
    <3> QED BY <3>3, <3>4 DEF OnceInv, RunsOnce
  <2> QED BY <1>1, <2>1, <2>2
<1>4. CASE Reserve
  <2>1. /\ queue # <<>> /\ phase = "queued" /\ WriteEvalReply(Owner.req, Owner.kind) /\ phase' = "run"
        /\ Owner.t = "eval" /\ EvalReplies(Owner.req) = {}
        /\ UNCHANGED <<queue, committed>> /\ heap' \in {heap, committed}
    BY <1>4 DEF Reserve, EnsureGlue
  <2>2. Owner.req \in Sent /\ Owner.kind \in Kinds
    BY <2>1, OwnerShape DEF FrameType
  <2>3. \A i, j \in 1..Len(rows) : rows[i].req = rows[j].req => i = j
    BY DEF OnceInv
  <2>4. /\ \A i, j \in 1..Len(rows') : rows'[i].req = rows'[j].req => i = j
        /\ Reserved' = Reserved \cup {Owner.req}
    BY <2>1, <2>2, <2>3, UpsertKeeps
  <2>5. Owner.req \notin Elements(heap)
    BY <2>1, NotReserved DEF OnceInv
  <2>6. Owner' = Owner
    BY <2>1 DEF Owner
  <2> QED BY <2>1, <2>4, <2>5, <2>6 DEF OnceInv, RunsOnce
<1>5. CASE Execute
  <2>1. /\ phase = "run" /\ heap' = Append(heap, Owner.req) /\ phase' = "ran"
        /\ UNCHANGED <<queue, rows, committed>> /\ Owner' = Owner
    BY <1>5 DEF Execute, Owner
  <2>2. Owner.req \in Sent /\ heap \in Seq(Sent)
    BY <2>1, OwnerShape DEF FrameType, KernelTypes
  <2>3. Owner.t = "eval" /\ Owner.req \in Reserved /\ Owner.req \notin Elements(heap) /\ RunsOnce
    BY <2>1 DEF OnceInv
  <2>4. Elements(heap') = Elements(heap) \cup {Owner.req} /\ RunsOnce'
    BY <2>1, <2>2, <2>3, Appended DEF RunsOnce
  <2>5. Reserved' = Reserved
    BY <2>1 DEF Reserved
  <2> QED BY <2>1, <2>3, <2>4, <2>5 DEF OnceInv
<1>11. CASE ExecuteEvicted
  <2>1. /\ phase # "queued" /\ phase' \notin {"queued", "run"} /\ UNCHANGED <<queue, rows, heap, committed>>
        /\ Owner' = Owner
    BY <1>11 DEF ExecuteEvicted, Owner
  <2>2. Reserved' = Reserved
    BY <2>1 DEF Reserved
  <2> QED BY <2>1, <2>2 DEF OnceInv, RunsOnce
<1>12. CASE Evict
  BY <1>12, OnceKept DEF Evict
<1>6. CASE Checkpoint
  <2>1. /\ phase = "ran" /\ phase' \in {"durable", "notDurable"} /\ committed' \in {heap, committed}
        /\ UNCHANGED <<queue, rows, heap>> /\ Owner' = Owner
    BY <1>6 DEF Checkpoint, Owner
  <2>2. Reserved' = Reserved
    BY <2>1 DEF Reserved
  <2> QED BY <2>1, <2>2 DEF OnceInv, RunsOnce
<1>7. CASE \E f \in frames : Receive(f)
  BY <1>7, ReceiveKeepsOwner, OnceKept
<1>8. CASE \E f \in frames : LoseFrame(f)
  BY <1>8, OnceKept DEF LoseFrame, kernel
<1>9. CASE Crash
  <2>1. phase' = "queued" /\ heap' = committed /\ UNCHANGED <<rows, committed>>
    BY <1>9 DEF Crash
  <2>2. Reserved' = Reserved
    BY <2>1 DEF Reserved
  <2> QED BY <2>1, <2>2 DEF OnceInv, RunsOnce
<1>10. CASE \E s \in open : NetworkDrop(s)
  BY <1>10, OnceKept DEF NetworkDrop, kernel
<1> QED
  BY <1>2, <1>3, <1>4, <1>5, <1>6, <1>7, <1>8, <1>9, <1>10, <1>11, <1>12 DEF Kernel, Serve, Environment

LEMMA OnceNext ==
    ASSUME NoRollOver, TransportInv, OnceInv, [Next]_vars
    PROVE  OnceInv'
<1>1. CASE (Kernel \/ Environment) /\ UNCHANGED <<client, answered>>
  BY <1>1, OnceKernel DEF TransportInv
<1>2. CASE \E c \in Clients : Transport(c)
  BY <1>2, ClientLeavesKernel, OnceKept DEF kernel
<1>3. CASE UNCHANGED vars
  BY <1>3, OnceKept DEF vars, kernel
<1> QED
  BY <1>1, <1>2, <1>3 DEF Next

LEMMA OnceInit ==
    ASSUME Init PROVE OnceInv
BY DEF Init, KernelInit, OnceInv, RunsOnce, Elements, Reserved

(* Each cell runs at most once on any line of heaps: over retried, late    *)
(* and duplicated frames, failed evals, replies too large to store, and    *)
(* crashes, as long as eval_replies has a row for every request.           *)
THEOREM CellsRunOnce ==
    ASSUME NoRollOver
    PROVE  Spec => []RunsOnce
<1>1. OnceInv => RunsOnce
  BY DEF OnceInv
<1>2. TransportInv /\ OnceInv /\ [Next]_vars => OnceInv'
  BY OnceNext
<1> QED
  BY <1>1, <1>2, OnceInit, TransportInvariant, PTL DEF Spec


-----------------------------------------------------------------------------
(* An answered request is settled.                                         *)

LEMMA FinalKept ==
    ASSUME FinalInv, \A r : Settled(r) => Settled(r)', UNCHANGED answered,
           \A a \in answers' : a \in answers \/ (a.t = "eval" /\ a.res # "queueFull" => Settled(a.req)')
    PROVE  FinalInv'
<1>1. ASSUME NEW a \in answers', a.t = "eval", a.res # "queueFull" PROVE Settled(a.req)'
  BY <1>1 DEF FinalInv
<1>2. ASSUME NEW x \in answered', x.t = "eval", x.res # "queueFull" PROVE Settled(x.of)'
  BY <1>2 DEF FinalInv
<1> QED
  BY <1>1, <1>2 DEF FinalInv

LEMMA SettledKept ==
    ASSUME Reserved \subseteq Reserved',
           phase' = "queued" \/ (phase # "queued" /\ queue'[1] = queue[1])
    PROVE  \A r : Settled(r) => Settled(r)'
BY DEF Settled, Owner

(* The answer that ends a turn of an owner whose row is written.           *)
LEMMA FinalEndsTurn ==
    ASSUME KernelTypes, FinalInv, NEW res \in Results, EndsTurn(res), UNCHANGED answered,
           Reserved \subseteq Reserved', Owner.t = "eval" => Owner.req \in Reserved
    PROVE  FinalInv'
<1>1. queue # <<>> /\ Answer(Owner, res) /\ phase' = "queued"
  BY DEF EndsTurn, Finish
<1>2. Owner \in FrameType
  BY <1>1, OwnerShape
<1>3. \/ answers' = answers
      \/ \E a \in AnswerType :
            answers' = answers \cup {a} /\ a.sock = Owner.sock /\ a.t = Owner.t /\ a.req = Owner.req
  BY <1>1, <1>2, AnswerShape
<1>4. \A a \in answers' : a \in answers \/ (a.t = Owner.t /\ a.req = Owner.req)
  BY <1>3
<1>5. \A r \in Reserved : Settled(r)'
  BY <1>1 DEF Settled
<1>6. \A r : Settled(r) => Settled(r)'
  BY <1>1, SettledKept
<1>7. \A a \in answers' : a \in answers \/ (a.t = "eval" /\ a.res # "queueFull" => Settled(a.req)')
  BY <1>4, <1>5
<1> QED
  BY <1>6, <1>7, FinalKept

LEMMA FinalKernel ==
    ASSUME NoRollOver, KernelTypes, OnceInv, FinalInv, Kernel \/ Environment, UNCHANGED answered
    PROVE  FinalInv'
<1>1. CASE Create
  <2>1. EndsTurn("created") /\ Owner.t = "create" /\ UNCHANGED rows /\ "created" \in Results
    BY <1>1 DEF Create, EndsTurn, EnsureGlue, Results
  <2>2. Reserved' = Reserved
    BY <2>1 DEF Reserved
  <2> QED BY <2>1, <2>2, FinalEndsTurn
<1>2. CASE Replay
  <2>1. PICK res \in Results : EndsTurn(res) /\ RowsOf(Owner.req) # {} /\ UNCHANGED rows
    BY <1>2, ServeShape DEF Serve, Create, Replay, EvalFails, Execute, ExecuteEvicted, Checkpoint, Reserve, Reply
  <2>2. Reserved' = Reserved /\ Owner.req \in Reserved
    BY <2>1 DEF Reserved, RowsOf
  <2> QED BY <2>1, <2>2, FinalEndsTurn
<1>3. CASE EvalFails
  <2>1. EndsTurn("error") /\ UNCHANGED rows /\ "error" \in Results /\ phase = "run"
    BY <1>3 DEF EvalFails, EndsTurn, Results, KernelTypes
  <2>2. Reserved' = Reserved /\ Owner.req \in Reserved
    BY <2>1 DEF Reserved, OnceInv
  <2> QED BY <2>1, <2>2, FinalEndsTurn
<1>4. CASE Reply
  <2>1. /\ EndsTurn(phase) /\ phase \in {"durable", "notDurable"} /\ queue # <<>> /\ phase \in Results
        /\ WriteEvalReply(Owner.req, phase) \/ UNCHANGED rows
    BY <1>4 DEF Reply, EndsTurn, KernelTypes, Results
  <2>2. Owner.req \in Sent /\ Owner.req \in Reserved
    BY <2>1, OwnerShape DEF FrameType, OnceInv
  <2>3. CASE WriteEvalReply(Owner.req, phase)
    <3>1. \A i, j \in 1..Len(rows) : rows[i].req = rows[j].req => i = j
      BY DEF OnceInv
    <3>2. phase \in Kinds \cup {"durable", "notDurable"}
      BY <2>1
    <3>3. Reserved' = Reserved \cup {Owner.req}
      BY <2>2, <2>3, <3>1, <3>2, UpsertKeeps
    <3> QED BY <2>1, <2>2, <3>3, FinalEndsTurn
  <2>4. CASE UNCHANGED rows
    <3>1. Reserved' = Reserved
      BY <2>4 DEF Reserved
    <3> QED BY <2>1, <2>2, <3>1, FinalEndsTurn
  <2> QED BY <2>1, <2>3, <2>4
<1>5. CASE Reserve
  <2>1. /\ queue # <<>> /\ WriteEvalReply(Owner.req, Owner.kind) /\ phase' = "run"
        /\ EvalReplies(Owner.req) = {} /\ UNCHANGED <<answers, queue>>
    BY <1>5 DEF Reserve, wire
  <2>2. Owner.req \in Sent /\ Owner.kind \in Kinds
    BY <2>1, OwnerShape DEF FrameType
  <2>3. \A i, j \in 1..Len(rows) : rows[i].req = rows[j].req => i = j
    BY DEF OnceInv
  <2>4. Reserved' = Reserved \cup {Owner.req}
    BY <2>1, <2>2, <2>3, UpsertKeeps
  <2>5. Owner.req \notin Reserved
    BY <2>1, NotReserved
  <2>6. Owner' = Owner
    BY <2>1 DEF Owner
  <2>7. \A r : Settled(r) => Settled(r)'
    BY <2>4, <2>5, <2>6 DEF Settled
  <2> QED BY <2>1, <2>7, FinalKept
<1>6. CASE Execute \/ ExecuteEvicted \/ Checkpoint
  <2>1. UNCHANGED <<answers, queue, rows>> /\ phase # "queued"
    BY <1>6 DEF Execute, ExecuteEvicted, Checkpoint, wire
  <2>2. Reserved' = Reserved
    BY <2>1 DEF Reserved
  <2> QED BY <2>1, <2>2, SettledKept, FinalKept
<1>7. ASSUME NEW f \in frames, Receive(f) PROVE FinalInv'
  <2>1. /\ phase # "queued" => queue'[1] = queue[1]
        /\ UNCHANGED <<phase, rows>>
    BY <1>7, ReceiveKeepsOwner
  <2>2. Reserved' = Reserved
    BY <2>1 DEF Reserved
  <2>3. \A r : Settled(r) => Settled(r)'
    BY <2>1, <2>2 DEF Settled, Owner
  <2>4. \A a \in answers' : a \in answers \/ a.res = "queueFull"
    BY <1>7 DEF Receive, Answer
  <2> QED BY <2>3, <2>4, FinalKept
<1>8. CASE (\E f \in frames : LoseFrame(f)) \/ (\E s \in open : NetworkDrop(s)) \/ Evict
  <2>1. answers' \subseteq answers /\ UNCHANGED <<queue, phase, rows>>
    BY <1>8 DEF LoseFrame, NetworkDrop, Evict, kernel, wire
  <2>2. \A r : Settled(r) => Settled(r)'
    BY <2>1 DEF Settled, Owner, Reserved
  <2> QED BY <2>1, <2>2, FinalKept
<1>9. CASE Crash
  <2>1. answers' = {} /\ phase' = "queued" /\ UNCHANGED rows
    BY <1>9 DEF Crash
  <2>2. Reserved' = Reserved
    BY <2>1 DEF Reserved
  <2> QED BY <2>1, <2>2, SettledKept, FinalKept
<1> QED
  BY <1>1, <1>2, <1>3, <1>4, <1>5, <1>6, <1>7, <1>8, <1>9 DEF Kernel, Serve, Environment

LEMMA FinalClient ==
    ASSUME FinalInv, NEW c \in Clients, Transport(c)
    PROVE  FinalInv'
<1>1. /\ UNCHANGED kernel /\ answers' \subseteq answers
      /\ \/ UNCHANGED answered
         \/ \E a \in answers : answered' = answered \cup
               {[req |-> <<c, client[c].n>>, t |-> a.t, of |-> a.req, res |-> a.res]}
  BY ClientLeavesKernel
<1>2. \A r : Settled(r) => Settled(r)'
  BY <1>1 DEF Settled, Owner, Reserved, kernel
<1>3. CASE UNCHANGED answered
  BY <1>1, <1>2, <1>3, FinalKept
<1>4. ASSUME NEW a \in answers, answered' = answered \cup
               {[req |-> <<c, client[c].n>>, t |-> a.t, of |-> a.req, res |-> a.res]}
      PROVE  FinalInv'
  <2>1. ASSUME NEW b \in answers', b.t = "eval", b.res # "queueFull" PROVE Settled(b.req)'
    BY <1>1, <1>2, <2>1 DEF FinalInv
  <2>2. ASSUME NEW x \in answered', x.t = "eval", x.res # "queueFull" PROVE Settled(x.of)'
    <3>1. CASE x \in answered
      BY <1>2, <2>2, <3>1 DEF FinalInv
    <3>2. CASE x = [req |-> <<c, client[c].n>>, t |-> a.t, of |-> a.req, res |-> a.res]
      <4>1. x.t = a.t /\ x.of = a.req /\ x.res = a.res
        BY <3>2
      <4>2. Settled(a.req)
        BY <2>2, <4>1 DEF FinalInv
      <4> QED BY <1>2, <4>1, <4>2
    <3> QED BY <1>4, <3>1, <3>2
  <2> QED BY <2>1, <2>2 DEF FinalInv
<1> QED
  BY <1>1, <1>3, <1>4

LEMMA FinalNext ==
    ASSUME NoRollOver, TransportInv, OnceInv, FinalInv, [Next]_vars
    PROVE  FinalInv'
<1>1. CASE (Kernel \/ Environment) /\ UNCHANGED <<client, answered>>
  BY <1>1, FinalKernel DEF TransportInv
<1>2. CASE \E c \in Clients : Transport(c)
  BY <1>2, FinalClient
<1>3. CASE UNCHANGED vars
  <2>1. answers' = answers /\ answered' = answered /\ UNCHANGED <<queue, phase, rows>>
    BY <1>3 DEF vars, wire, kernel
  <2>2. \A r : Settled(r) => Settled(r)'
    BY <2>1 DEF Settled, Owner, Reserved
  <2> QED BY <2>1, <2>2, FinalKept
<1> QED
  BY <1>1, <1>2, <1>3 DEF Next

(* The step runs no settled request.                                       *)
RunsNoneAgain ==
    \A x \in answered : x.res # "queueFull" /\ x.of = x.req =>
        (x.req \in Elements(heap') => x.req \in Elements(heap))

LEMMA RunsNew ==
    ASSUME TransportInv, OnceInv, FinalInv, RepliesMatch, Next
    PROVE  RunsNoneAgain
<1>1. CASE heap' = heap
  BY <1>1 DEF RunsNoneAgain
<1>2. CASE Execute
  <2>1. phase = "run" /\ heap' = Append(heap, Owner.req)
    BY <1>2 DEF Execute
  <2>2. Owner.req \in Sent /\ heap \in Seq(Sent)
    BY <2>1, OwnerShape DEF FrameType, TransportInv, KernelTypes
  <2>3. Elements(heap') = Elements(heap) \cup {Owner.req}
    BY <2>1, <2>2, Appended
  <2>4. ASSUME NEW x \in answered, x.res # "queueFull", x.of = x.req PROVE x.req # Owner.req
    <3>1. x.t = "eval"
      BY DEF RepliesMatch
    <3>2. Settled(x.req)
      BY <2>4, <3>1 DEF FinalInv
    <3> QED BY <2>1, <3>2 DEF Settled
  <2> QED BY <2>3, <2>4 DEF RunsNoneAgain
<1>3. CASE heap' = committed
  BY <1>3 DEF OnceInv, RunsNoneAgain
<1>4. Execute \/ heap' \in {heap, committed}
  <2>1. CASE \E c \in Clients : Transport(c)
    BY <2>1, ClientLeavesKernel DEF kernel
  <2>2. CASE Kernel \/ Environment
    BY <2>2 DEF Kernel, Environment, Serve, Create, Replay, Reserve, EvalFails, ExecuteEvicted, Checkpoint,
       Reply, Receive, LoseFrame, NetworkDrop, Evict, Crash, EnsureGlue, kernel
  <2> QED BY <2>1, <2>2 DEF Next
<1> QED
  BY <1>1, <1>2, <1>3, <1>4

(* An answer is final: with keep-alive, and a row for every request, no    *)
(* frame of an answered request, left on an old socket or in the queue or  *)
(* sent again, runs its cell afterwards.                                   *)
THEOREM AnswersAreFinal ==
    ASSUME NoRollOver, KeepAlive = TRUE
    PROVE  Spec => AnswerIsFinal
<1>1. Init => FinalInv
  BY DEF Init, KernelInit, FinalInv
<1>2. TransportInv /\ OnceInv /\ [Next]_vars => OnceInv'
  BY OnceNext
<1>3. TransportInv /\ OnceInv /\ FinalInv /\ [Next]_vars => FinalInv'
  BY FinalNext
<1>4. TransportInv /\ OnceInv /\ FinalInv /\ RepliesMatch /\ [Next]_vars => [RunsNoneAgain]_vars
  BY RunsNew
<1>5. AnswerIsFinal <=> [][RunsNoneAgain]_vars
  BY PTL DEF AnswerIsFinal, RunsNoneAgain
<1>6. Spec => []RepliesMatch
  BY RepliesAlwaysMatch
<1> QED
  BY <1>1, <1>2, <1>3, <1>4, <1>5, <1>6, OnceInit, TransportInvariant, PTL DEF Spec


=============================================================================
