-------------------------- MODULE HostCallsProofs --------------------------
(***************************************************************************)
(* The host-call loop for any number of cells, calls, handles and          *)
(* evictions: the answers a cell is given are the ones to its own calls,   *)
(* committed cells never share a fence key, a journal replay sends nothing *)
(* out, and what a stream handle has received is its body, in order.       *)
(***************************************************************************)
EXTENDS HostCalls, FiniteSetTheorems, TLAPS

-----------------------------------------------------------------------------
(* Types, and what holds at each place of the loop.                        *)

Unit == (Nat \X Nat) \X Nat
Datum == Seq(Nat) \cup Unit

(* A recorded result; one that answers a hostcall frame carries the number *)
(* of the frame the cell was parked on.                                    *)
Answer(r) == r.kind \in {"client", "ext"} /\ r.data # <<>> => r.data = <<r.for>>
ResultType == {r \in [kind : AllKinds, data : Datum, for : Nat] : Answer(r)}
Row == [src : Sources, calls : Seq(AllKinds), res : Seq(ResultType)]
Handle == [id : Datum, of : Sources \X Nat, got : Seq(Datum)]
Stream == [of : Nat \X Nat, reader : BOOLEAN, writer : BOOLEAN, read : Nat,
           pending : Seq(Unit), done : BOOLEAN]
Effects == [effect : Sources \X Nat, live : BOOLEAN, epoch : Nat, key : (Nat \X Nat) \cup {NoKey}]
EvalType ==
    [pc : {"idle", "vm", "call", "parked", "over"}, src : Sources \cup {NoSrc},
     no : Nat, live : BOOLEAN, calls : Seq(AllKinds), ops : [Classes -> Nat],
     ext : Nat, res : Seq(ResultType), feed : Seq(ResultType), id : Nat]

TypeInv ==
    /\ eval \in EvalType
    /\ engine \in [result : Sources \cup {NoSrc}, warm : BOOLEAN, replayed : Nat]
    /\ oplog \in Seq(Row)
    /\ bridge \in [pending : SUBSET Nat, seq : Nat]
    /\ streams \in [DOMAIN streams -> Stream]
    /\ heap \in Seq(Handle) /\ saved \in Seq(Handle)
    /\ todo \subseteq Sources /\ done \subseteq Sources /\ epoch \in Nat
    /\ fired \subseteq Effects
    /\ reply \in [Sources -> Sources \cup {NoSrc}]

(* A call that is being served has no result yet, and at most the parked   *)
(* call is pending.                                                        *)
PcInv ==
    /\ eval.pc = "idle" => eval = Idle
    /\ eval.pc # "idle" => eval.src \in Sources
    /\ eval.pc \in {"idle", "vm"} => Len(eval.calls) = Len(eval.res)
    /\ eval.pc \in {"call", "parked", "over"} => Len(eval.calls) = Len(eval.res) + 1
    /\ \A id \in bridge.pending : id <= bridge.seq /\ id > 0 /\ id = eval.id /\ eval.pc = "parked"

LoopInv == TypeInv /\ PcInv

(* What was sent out under a key carries its own ordinal, and the number   *)
(* of the cell when that cell is in the journal or still runs.  What a     *)
(* cell committed in this epoch sent is found in the journal; the epochs   *)
(* that are over have kept their keys apart.                               *)
Fenced(f) == f.key # NoKey /\ f.effect[1] \in done

FenceInv ==
    /\ \A f \in fired :
          /\ f.effect[1] \notin todo /\ f.epoch <= epoch
          /\ Fenced(f) /\ f.epoch = epoch => \E i \in DOMAIN oplog : oplog[i].src = f.effect[1]
          /\ f.key # NoKey => f.key \in Nat \X Nat /\ f.key[2] = f.effect[2]
          /\ \A i \in DOMAIN oplog :
                f.key # NoKey /\ f.effect[1] = oplog[i].src => f.key[1] = i
          /\ eval.pc # "idle" /\ eval.live /\ f.key # NoKey /\ f.effect[1] = eval.src
                => f.key[1] = eval.no /\ f.epoch = epoch
    /\ \A f, g \in fired :
          Fenced(f) /\ Fenced(g) /\ f.epoch < epoch /\ f.epoch = g.epoch /\ f.key = g.key
              => f.effect = g.effect
    /\ \A i \in DOMAIN oplog : oplog[i].src \notin todo
    /\ done \cap todo = {}
    /\ eval.pc # "idle" => eval.src \notin todo
    /\ eval.pc # "idle" /\ eval.live =>
          /\ eval.no = Len(oplog) + 1 /\ eval.src \notin done
          /\ \A i \in DOMAIN oplog : oplog[i].src # eval.src

(* The budgets the first n of the calls use up.                            *)
Charged(calls, n) ==
    [c \in Classes |-> Cardinality({i \in 1..n : ClassOf(calls[i]) = c})]

(* A row has a result for each call, but for the last one of a cell that   *)
(* ran over a budget.                                                      *)
RowComplete(row) ==
    \/ Len(row.res) = Len(row.calls)
    \/ /\ Len(row.calls) = Len(row.res) + 1
       /\ ~WithinBudget(Charged(row.calls, Len(row.res)))

(* A replayed cell follows its row, and what is left to feed it is the     *)
(* rest of the row's results.                                              *)
FollowsRow ==
    /\ eval.no \in DOMAIN oplog
    /\ Len(eval.res) + Len(eval.feed) = Len(oplog[eval.no].res)
    /\ Len(eval.calls) <= Len(oplog[eval.no].calls)
    /\ \A i \in 1..Len(eval.calls) : eval.calls[i] = oplog[eval.no].calls[i]
    /\ eval.pc = "call" => eval.feed # <<>>
    /\ eval.pc # "parked"

ReplayInv ==
    /\ \A i \in DOMAIN oplog : RowComplete(oplog[i])
    /\ eval.ops = Charged(eval.calls, IF eval.pc = "over" THEN Len(eval.res) ELSE Len(eval.calls))
    /\ eval.pc = "over" => ~WithinBudget(eval.ops)
    /\ eval.pc # "idle" /\ ~eval.live => FollowsRow
    /\ \A f \in fired : f.live

LEMMA EvalFields ==
    TypeInv => /\ eval.pc \in {"idle", "vm", "call", "parked", "over"}
               /\ eval.src \in Sources \cup {NoSrc} /\ eval.no \in Nat /\ eval.live \in BOOLEAN
               /\ eval.calls \in Seq(AllKinds) /\ eval.ops \in [Classes -> Nat]
               /\ eval.ext \in Nat /\ eval.id \in Nat
               /\ eval.res \in Seq(ResultType) /\ eval.feed \in Seq(ResultType)
BY DEF TypeInv, EvalType

LEMMA IdleFields ==
    /\ Idle \in EvalType
    /\ Idle.pc = "idle" /\ Idle.src = NoSrc /\ Idle.no = 0 /\ Idle.live = TRUE
    /\ Idle.calls = <<>> /\ Idle.ops = [c \in Classes |-> 0] /\ Idle.ext = 0
    /\ Idle.res = <<>> /\ Idle.feed = <<>> /\ Idle.id = 0
BY DEF Idle, EvalType

LEMMA LoopInitInv == Init => LoopInv
<1> SUFFICES ASSUME Init PROVE LoopInv
  OBVIOUS
<1>1. streams \in [DOMAIN streams -> Stream]
  BY DEF Init, NoStreams
<1>2. TypeInv
  BY <1>1, IdleFields DEF Init, TypeInv
<1>3. PcInv
  BY IdleFields DEF Init, PcInv
<1> QED
  BY <1>2, <1>3 DEF LoopInv

(* What a call may be answered with.                                       *)
LEMMA ResultTyped ==
    ASSUME LoopInv, eval.pc \in {"call", "parked"}, NEW n \in Nat, NEW d \in Datum,
           Last(eval.calls) \in {"client", "ext"} => d \in {<<>>, <<n>>}
    PROVE  Result(d, n) \in ResultType
<1>1. Len(eval.calls) > 0 /\ eval.calls \in Seq(AllKinds)
  BY EvalFields DEF LoopInv, PcInv
<1>2. Last(eval.calls) \in AllKinds
  BY <1>1 DEF Last
<1> QED
  BY <1>2 DEF Result, ResultType, Answer

LEMMA PlainTyped ==
    ASSUME LoopInv, eval.pc \in {"call", "parked"}
    PROVE  Plain \in ResultType
<1>1. <<>> \in Datum
  BY DEF Datum
<1> QED
  BY <1>1, ResultTyped DEF Plain

LEMMA FenceTyped ==
    ASSUME LoopInv, eval.pc \in {"call", "parked"}
    PROVE  /\ FenceName \in Nat \X Nat /\ FenceName \in Datum /\ FenceName # NoKey
           /\ FenceName[2] = Ordinal
           /\ eval.live => FenceName[1] = eval.no
           /\ Effect \in Sources \X Nat /\ Effect \in Nat \X Nat
           /\ Effect[1] = eval.src /\ Effect[2] = Ordinal
<1>1. Ordinal \in Nat /\ eval.no \in Nat /\ eval.src \in Sources
  BY EvalFields DEF LoopInv, PcInv, Ordinal
<1>2. \A a, b \in Nat : <<a, b>> \in Seq(Nat) /\ <<a, b>> # <<>>
  OBVIOUS
<1> QED
  BY <1>1, <1>2, HostCallsAssumption DEF FenceName, Effect, Datum, NoKey

LEMMA SeqUpdate ==
    ASSUME NEW S, NEW q \in Seq(S), NEW i \in DOMAIN q, NEW v \in S
    PROVE  [q EXCEPT ![i] = v] \in Seq(S)
<1> DEFINE u == [q EXCEPT ![i] = v]
<1>1. DOMAIN u = 1..Len(q) /\ Len(q) \in Nat
  OBVIOUS
<1>2. \A j \in 1..Len(q) : u[j] \in S
  OBVIOUS
<1>3. u \in [1..Len(q) -> S]
  BY <1>1, <1>2
<1> QED
  BY <1>1, <1>3

LEMMA SeqUpdateOutside ==
    ASSUME NEW S, NEW q \in Seq(S), NEW i, i \notin DOMAIN q, NEW v
    PROVE  [q EXCEPT ![i] = v] = q
<1> DEFINE u == [q EXCEPT ![i] = v]
<1>1. q = [j \in DOMAIN q |-> q[j]]
  OBVIOUS
<1>2. u = [j \in DOMAIN q |-> IF j = i THEN v ELSE q[j]]
  OBVIOUS
<1> QED
  BY <1>1, <1>2

(* eval_resume, whatever the result.                                       *)
LEMMA ResumeFields ==
    ASSUME LoopInv, NEW r \in ResultType, eval.pc \in {"call", "parked"}, Resume(r)
    PROVE  /\ eval' \in EvalType /\ heap' \in Seq(Handle)
           /\ eval'.pc = "vm" /\ eval'.id = 0 /\ eval'.res = Append(eval.res, r)
           /\ eval'.src = eval.src /\ eval'.no = eval.no /\ eval'.live = eval.live
           /\ eval'.calls = eval.calls /\ eval'.ops = eval.ops
           /\ eval'.feed = IF eval.feed = <<>> THEN <<>> ELSE Tail(eval.feed)
<1> USE DEF LoopInv
<1>1. eval' = [eval EXCEPT !.pc = "vm", !.id = 0, !.res = Append(eval.res, r),
                           !.feed = IF eval.feed = <<>> THEN eval.feed ELSE Tail(eval.feed)]
  BY DEF Resume
<1>2. /\ eval'.pc = "vm" /\ eval'.id = 0 /\ eval'.res = Append(eval.res, r)
      /\ eval'.src = eval.src /\ eval'.no = eval.no /\ eval'.live = eval.live
      /\ eval'.calls = eval.calls /\ eval'.ops = eval.ops
      /\ eval'.feed = IF eval.feed = <<>> THEN <<>> ELSE Tail(eval.feed)
  BY <1>1 DEF TypeInv, EvalType
<1>3. Append(eval.res, r) \in Seq(ResultType)
  BY EvalFields
<1>4. (IF eval.feed = <<>> THEN eval.feed ELSE Tail(eval.feed)) \in Seq(ResultType)
  BY EvalFields
<1>5. eval' \in EvalType
  <2> HIDE DEF ResultType
  <2> QED BY <1>1, <1>3, <1>4 DEF TypeInv, EvalType
<1>6. heap' \in Seq(Handle)
  <2>1. heap \in Seq(Handle) /\ r.data \in Datum /\ r.for \in Nat
    BY DEF TypeInv, ResultType
  <2>2. [id |-> r.data, of |-> Effect, got |-> <<>>] \in Handle
    BY <2>1, FenceTyped DEF Handle
  <2>3. ASSUME r.for \in DOMAIN heap
        PROVE  [heap[r.for] EXCEPT !.got = Append(heap[r.for].got, r.data)] \in Handle
    <3>1. heap[r.for] \in Handle
      BY <2>1, <2>3
    <3>2. Append(heap[r.for].got, r.data) \in Seq(Datum)
      BY <2>1, <3>1 DEF Handle
    <3> QED
      BY <3>1, <3>2 DEF Handle
  <2>4. [heap EXCEPT ![r.for] = [heap[r.for] EXCEPT !.got = Append(heap[r.for].got, r.data)]]
          \in Seq(Handle)
    <3> HIDE DEF Handle
    <3> DEFINE new == [heap[r.for] EXCEPT !.got = Append(heap[r.for].got, r.data)]
    <3>1. CASE r.for \in DOMAIN heap
      <4>1. new \in Handle
        BY <2>3, <3>1
      <4> HIDE DEF new
      <4>2. [heap EXCEPT ![r.for] = new] \in Seq(Handle)
        BY <2>1, <3>1, <4>1, SeqUpdate
      <4> QED
        BY <4>2 DEF new
    <3>2. CASE r.for \notin DOMAIN heap
      <4> HIDE DEF new
      <4>1. [heap EXCEPT ![r.for] = new] = heap
        BY <2>1, <3>2, SeqUpdateOutside
      <4> QED
        BY <2>1, <4>1 DEF new
    <3> QED
      BY <3>1, <3>2
  <2>5. CASE r.kind \in {"open", "upload"}
    BY <2>1, <2>2, <2>5 DEF Resume
  <2>6. CASE r.kind \notin {"open", "upload"} /\ r.kind = "read" /\ r.data # <<>>
    BY <2>4, <2>6 DEF Resume
  <2>7. CASE r.kind \notin {"open", "upload"} /\ ~(r.kind = "read" /\ r.data # <<>>)
    BY <2>1, <2>7 DEF Resume
  <2> QED
    BY <2>5, <2>6, <2>7
<1> QED
  BY <1>2, <1>5, <1>6

(* A call that is answered leaves the rest to the action that answers it.  *)
LEMMA ServedLoop ==
    ASSUME LoopInv, NEW r \in ResultType, eval.pc \in {"call", "parked"}, Resume(r),
           UNCHANGED <<engine, oplog, saved, todo, epoch, done, reply>>,
           fired' \subseteq Effects, streams' \in [DOMAIN streams' -> Stream],
           bridge'.pending = {}, bridge' \in [pending : SUBSET Nat, seq : Nat]
    PROVE  LoopInv'
<1>1. TypeInv'
  BY ResumeFields DEF LoopInv, TypeInv
<1>2. Len(Append(eval.res, r)) = Len(eval.res) + 1
  BY EvalFields DEF LoopInv
<1>3. PcInv'
  BY <1>2, ResumeFields DEF LoopInv, PcInv
<1> QED
  BY <1>1, <1>3 DEF LoopInv

LEMMA NotParked == LoopInv /\ eval.pc # "parked" => bridge.pending = {}
BY DEF LoopInv, PcInv, TypeInv

-----------------------------------------------------------------------------
(* Every way a call is answered.                                           *)

Sent(key) == [effect |-> Effect, live |-> eval.live, epoch |-> epoch, key |-> key]

(* The result is fed to the cell, the registry stays typed, nothing is     *)
(* pending any more, and an effect was sent at most when nothing was fed.  *)
Answered(r) ==
    /\ eval.pc \in {"call", "parked"} /\ r \in ResultType /\ Resume(r)
    /\ UNCHANGED <<engine, oplog, saved, todo, epoch, done, reply>>
    /\ streams' \in [DOMAIN streams' -> Stream]
    /\ bridge' \in [pending : SUBSET Nat, seq : Nat] /\ bridge'.pending = {}
    /\ \/ fired' = fired
       \/ /\ eval.pc = "call" /\ ~Feeding
          /\ fired' = fired \cup {Sent(NoKey)} \/ (eval.live /\ fired' = fired \cup {Sent(FenceName)})
    /\ eval.pc = "call" => bridge' = bridge

LEMMA AnsweredLoop ==
    ASSUME LoopInv, NEW r, Answered(r)
    PROVE  LoopInv'
<1>1. Sent(NoKey) \in Effects /\ Sent(FenceName) \in Effects
  <2>1. epoch \in Nat
    BY DEF LoopInv, TypeInv
  <2> QED
    BY <2>1, FenceTyped, EvalFields DEF Sent, Effects, Answered, LoopInv
<1>2. fired' \subseteq Effects
  BY <1>1 DEF Answered, LoopInv, TypeInv
<1> QED
  BY <1>2, ServedLoop DEF Answered

(* What the actions that touch nothing but the cell have in common.        *)
LEMMA PlainAnswered ==
    ASSUME LoopInv, eval.pc = "call", NEW r \in ResultType, Resume(r),
           UNCHANGED <<engine, oplog, bridge, saved, todo, epoch, done, fired, reply>>,
           streams' \in [DOMAIN streams' -> Stream]
    PROVE  Answered(r)
BY NotParked DEF Answered, LoopInv, TypeInv

LEMMA KeepsStreams ==
    ASSUME LoopInv, UNCHANGED streams
    PROVE  streams' \in [DOMAIN streams' -> Stream]
BY DEF LoopInv, TypeInv

LEMMA DropTyped ==
    ASSUME LoopInv, NEW id, streams' = Drop(id)
    PROVE  streams' \in [DOMAIN streams' -> Stream]
<1>1. DOMAIN streams' = DOMAIN streams \ {id}
  BY DEF Drop
<1>2. \A k \in DOMAIN streams' : streams'[k] \in Stream
  BY <1>1 DEF Drop, LoopInv, TypeInv
<1> QED
  BY <1>1, <1>2 DEF Drop

LEMMA FeedAnswered ==
    ASSUME LoopInv, FeedRecorded
    PROVE  \E r : Answered(r)
<1>1. Head(eval.feed) \in ResultType
  BY EvalFields DEF LoopInv, FeedRecorded, Feeding
<1>2. Answered(Head(eval.feed))
  BY <1>1, PlainAnswered, KeepsStreams DEF FeedRecorded
<1> QED
  BY <1>2

LEMMA FetchAnswered ==
    ASSUME LoopInv, DoFetch \/ DoSandbox
    PROVE  \E r : Answered(r)
<1>1. eval.pc = "call" /\ ~Feeding
  BY DEF DoFetch, DoSandbox, Serving
<1>2. Plain \in ResultType /\ bridge.pending = {}
  BY <1>1, PlainTyped, NotParked
<1>3. UNCHANGED streams /\ UNCHANGED <<engine, oplog, bridge, saved, todo, epoch, done, reply>> /\ Resume(Plain)
  BY DEF DoFetch, DoSandbox
<1>4. fired' = fired \cup {Sent(NoKey)} \/ (eval.live /\ fired' = fired \cup {Sent(FenceName)})
  BY DEF DoFetch, DoSandbox, Sent
<1>5. Answered(Plain)
  BY <1>1, <1>2, <1>3, <1>4, KeepsStreams DEF Answered, LoopInv, TypeInv
<1> QED
  BY <1>5

LEMMA ServiceAnswered ==
    ASSUME LoopInv, ServiceFs \/ ServiceChannel \/ ClientUnavailable
    PROVE  \E r : Answered(r)
<1>1. eval.pc = "call"
  BY DEF ServiceFs, ServiceChannel, ClientUnavailable, Serving
<1>2. /\ UNCHANGED streams /\ UNCHANGED <<engine, oplog, bridge, saved, todo, epoch, done, fired, reply>>
      /\ Resume(Plain)
  BY DEF ServiceFs, ServiceChannel, ClientUnavailable
<1>3. Answered(Plain)
  BY <1>1, <1>2, PlainTyped, PlainAnswered, KeepsStreams
<1> QED
  BY <1>3

LEMMA OpenAnswered ==
    ASSUME LoopInv, NEW kind, DoFetchStream(kind)
    PROVE  \E r : Answered(r)
<1> DEFINE st == [of |-> Effect, reader |-> kind = "open", writer |-> kind = "upload",
                  read |-> 0, pending |-> <<>>, done |-> FALSE]
<1>1. eval.pc = "call" /\ Last(eval.calls) \in {"open", "upload"}
  BY DEF DoFetchStream, Serving
<1>2. Result(FenceName, 0) \in ResultType
  BY <1>1, FenceTyped, ResultTyped
<1>3. st \in Stream
  BY <1>1, FenceTyped DEF Stream
<1>4. streams' = Put(FenceName, st)
  BY DEF DoFetchStream
<1>5. streams' \in [DOMAIN streams' -> Stream]
  <2> HIDE DEF st
  <2>1. DOMAIN streams' = DOMAIN streams \cup {FenceName}
    BY <1>4 DEF Put
  <2>2. \A k \in DOMAIN streams' : streams'[k] \in Stream
    BY <2>1, <1>3, <1>4 DEF Put, LoopInv, TypeInv
  <2> QED
    BY <1>4, <2>1, <2>2 DEF Put
<1>6. Answered(Result(FenceName, 0))
  BY <1>1, <1>2, <1>5, PlainAnswered DEF DoFetchStream
<1> QED
  BY <1>6

LEMMA StreamUpdated ==
    ASSUME LoopInv, NEW id \in DOMAIN streams, NEW st \in Stream,
           streams' = [streams EXCEPT ![id] = st]
    PROVE  streams' \in [DOMAIN streams' -> Stream]
BY DEF LoopInv, TypeInv

LEMMA UnitsTyped ==
    ASSUME NEW of \in Nat \X Nat, NEW from \in Nat, NEW n \in Nat
    PROVE  Units(of, from, n) \in Seq(Unit)
<1>1. \A i \in 1..n : <<of, from + i>> \in Unit
  BY DEF Unit
<1> QED
  BY <1>1 DEF Units

LEMMA ReadAnswered ==
    ASSUME LoopInv, NEW h, NEW n \in 0..Body, DoStreamRead(h, n)
    PROVE  \E r : Answered(r)
<1> DEFINE id == heap[h].id
           known == id \in DOMAIN streams /\ streams[id].reader
           st == streams[id]
           fresh == st.pending = <<>>
           chunk == IF st.pending # <<>> THEN st.pending ELSE Units(st.of, st.read, n)
<1>1. /\ eval.pc = "call" /\ Last(eval.calls) = "read" /\ h \in DOMAIN heap /\ h \in Nat
      /\ UNCHANGED <<engine, oplog, bridge, saved, todo, epoch, done, fired, reply>>
  BY DEF DoStreamRead, Serving, LoopInv, TypeInv
<1>2. Plain \in ResultType
  BY <1>1, PlainTyped
<1>3. CASE ~known
  <2>1. Resume(Plain) /\ UNCHANGED streams
    BY <1>3 DEF DoStreamRead
  <2>2. Answered(Plain)
    BY <1>1, <1>2, <2>1, PlainAnswered, KeepsStreams
  <2> QED
    BY <2>2
<1>4. CASE known /\ chunk = <<>>
  <2>1. Resume(Plain) /\ streams' = Drop(id)
    BY <1>4 DEF DoStreamRead
  <2>2. streams' \in [DOMAIN streams' -> Stream]
    <3> HIDE DEF id
    <3> QED BY <2>1, DropTyped
  <2>3. Answered(Plain)
    BY <1>1, <1>2, <2>1, <2>2, PlainAnswered
  <2> QED
    BY <2>3
<1>5. CASE known /\ chunk # <<>>
  <2> DEFINE left == Tail(chunk)
             upto == IF fresh THEN st.read + n ELSE st.read
             next == [[st EXCEPT !.pending = left] EXCEPT !.read = upto]
  <2>1. st \in Stream /\ n \in Nat
    BY <1>5, HostCallsAssumption DEF LoopInv, TypeInv
  <2>2. st.of \in Nat \X Nat /\ st.read \in Nat /\ st.pending \in Seq(Unit)
    BY <2>1 DEF Stream
  <2>3. chunk \in Seq(Unit)
    <3> HIDE DEF st
    <3> QED BY <2>1, <2>2, UnitsTyped
  <2>4. Head(chunk) \in Unit /\ left \in Seq(Unit) /\ upto \in Nat
    <3>1. upto \in Nat
      BY <2>1, <2>2
    <3> HIDE DEF chunk, upto
    <3> QED BY <3>1, <1>5, <2>3
  <2>5. Result(Head(chunk), h) \in ResultType
    <3> HIDE DEF chunk
    <3> QED BY <1>1, <2>4, ResultTyped DEF Datum
  <2>6. Resume(Result(Head(chunk), h))
    BY <1>5 DEF DoStreamRead
  <2>7. streams' = [streams EXCEPT ![id].pending = left, ![id].read = IF fresh THEN @ + n ELSE @]
    BY <1>5 DEF DoStreamRead
  <2>8. next \in Stream
    <3> HIDE DEF st, left, upto
    <3> QED BY <2>1, <2>4 DEF Stream
  <2>9. streams' = [streams EXCEPT ![id] = next]
    <3>1. id \in DOMAIN streams
      BY <1>5
    <3> HIDE DEF id, left
    <3> QED BY <2>1, <2>7, <3>1 DEF Stream
  <2>10. streams' \in [DOMAIN streams' -> Stream]
    <3>1. id \in DOMAIN streams
      BY <1>5
    <3> HIDE DEF id, next
    <3> QED BY <3>1, <2>8, <2>9, StreamUpdated
  <2>11. Answered(Result(Head(chunk), h))
    <3> HIDE DEF chunk
    <3> QED BY <1>1, <2>5, <2>6, <2>10, PlainAnswered
  <2> QED
    BY <2>11
<1> QED
  BY <1>3, <1>4, <1>5

LEMMA ReadFailsAnswered ==
    ASSUME LoopInv, NEW h, StreamReadFails(h) \/ DoStreamCancel(h)
    PROVE  \E r : Answered(r)
<1>1. /\ eval.pc = "call" /\ Resume(Plain) /\ streams' = Drop(heap[h].id)
      /\ UNCHANGED <<engine, oplog, bridge, saved, todo, epoch, done, fired, reply>>
  BY DEF StreamReadFails, DoStreamCancel, Serving
<1>2. Answered(Plain)
  BY <1>1, PlainTyped, DropTyped, PlainAnswered
<1> QED
  BY <1>2

LEMMA WriteAnswered ==
    ASSUME LoopInv, NEW h, NEW last \in BOOLEAN, NEW body \in BOOLEAN, DoStreamWrite(h, last, body)
    PROVE  \E r : Answered(r)
<1> DEFINE id == heap[h].id
           st == streams[id]
           next == [[[st EXCEPT !.writer = FALSE] EXCEPT !.reader = body] EXCEPT !.done = ~body]
<1>1. /\ eval.pc = "call" /\ Resume(Plain)
      /\ UNCHANGED <<engine, oplog, bridge, saved, todo, epoch, done, fired, reply>>
  BY DEF DoStreamWrite, Serving
<1>2. streams' \in [DOMAIN streams' -> Stream]
  <2>1. CASE id \in DOMAIN streams /\ streams[id].writer /\ last
    <3>1. st \in Stream
      BY <2>1 DEF LoopInv, TypeInv
    <3>2. next \in Stream
      <4> HIDE DEF st
      <4> QED BY <3>1 DEF Stream
    <3>3. streams' = [streams EXCEPT ![id].writer = FALSE, ![id].reader = body, ![id].done = ~body]
      BY <2>1 DEF DoStreamWrite
    <3>4. streams' = [streams EXCEPT ![id] = next]
      <4> HIDE DEF id
      <4> QED BY <2>1, <3>1, <3>3 DEF Stream
    <3> HIDE DEF id, next
    <3> QED
      BY <2>1, <3>2, <3>4, StreamUpdated
  <2>2. CASE ~(id \in DOMAIN streams /\ streams[id].writer /\ last)
    BY <2>2, KeepsStreams DEF DoStreamWrite
  <2> QED
    BY <2>1, <2>2
<1>3. Answered(Plain)
  BY <1>1, <1>2, PlainTyped, PlainAnswered
<1> QED
  BY <1>3

(* The parked call, by its own answer or by its timer.                     *)
LEMMA SettledAnswered ==
    ASSUME LoopInv, NEW id \in Nat, id \in bridge.pending, HostCallTimeout(id) \/ ResolveHostCall(id)
    PROVE  \E r : Answered(r)
<1>1. eval.pc = "parked" /\ id = eval.id
  BY DEF LoopInv, PcInv
<1>2. Resume(Result(<<id>>, id)) /\ UNCHANGED <<engine, oplog, streams, saved, todo, epoch, done, fired, reply>>
  BY <1>1 DEF HostCallTimeout, ResolveHostCall, Settle
<1>3. bridge' \in [pending : SUBSET Nat, seq : Nat] /\ bridge'.pending = {}
  <2>1. bridge' = [bridge EXCEPT !.pending = bridge.pending \ {id}]
    BY DEF HostCallTimeout, ResolveHostCall
  <2>2. bridge.pending \ {id} = {}
    BY <1>1 DEF LoopInv, PcInv
  <2> QED
    BY <2>1, <2>2 DEF LoopInv, TypeInv
<1>4. <<id>> \in Datum
  BY DEF Datum
<1>5. Result(<<id>>, id) \in ResultType
  BY <1>1, <1>4, ResultTyped
<1>6. Answered(Result(<<id>>, id))
  BY <1>1, <1>2, <1>3, <1>5, KeepsStreams DEF Answered
<1> QED
  BY <1>6

-----------------------------------------------------------------------------
(* The other steps of a cell.                                              *)

LEMMA BeginFields ==
    ASSUME LoopInv, NEW s \in Sources, EvalBegin(s)
    PROVE  /\ eval' \in EvalType
           /\ eval'.pc = "vm" /\ eval'.src = s /\ eval'.no = Len(oplog) + 1 /\ eval'.live = TRUE
           /\ eval'.calls = <<>> /\ eval'.res = <<>> /\ eval'.ops = [c \in Classes |-> 0]
<1>1. Len(oplog) + 1 \in Nat
  BY DEF LoopInv, TypeInv
<1>2. eval' = [[[Idle EXCEPT !.pc = "vm"] EXCEPT !.src = s] EXCEPT !.no = Len(oplog) + 1]
  BY DEF EvalBegin, Idle
<1> QED
  BY <1>1, <1>2, IdleFields DEF EvalType

LEMMA CallFields ==
    ASSUME LoopInv, NEW kind \in AllKinds, VmCalls(kind)
    PROVE  /\ eval' \in EvalType
           /\ eval'.pc = IF WithinBudget(eval.ops) THEN "call" ELSE "over"
           /\ eval'.calls = Append(eval.calls, kind)
           /\ eval'.ops = IF WithinBudget(eval.ops)
                          THEN [eval.ops EXCEPT ![ClassOf(kind)] = eval.ops[ClassOf(kind)] + 1]
                          ELSE eval.ops
           /\ eval'.src = eval.src /\ eval'.no = eval.no /\ eval'.live = eval.live
           /\ eval'.res = eval.res /\ eval'.feed = eval.feed /\ eval'.id = eval.id
<1>1. ClassOf(kind) \in Classes
  BY DEF ClassOf, Classes
<1>2. Append(eval.calls, kind) \in Seq(AllKinds)
  BY EvalFields DEF LoopInv
<1> DEFINE ops == [eval.ops EXCEPT ![ClassOf(kind)] = eval.ops[ClassOf(kind)] + 1]
<1>3. ops \in [Classes -> Nat]
  BY <1>1, EvalFields DEF LoopInv
<1>4. CASE WithinBudget(eval.ops)
  <2>1. eval' = [[[eval EXCEPT !.pc = "call"] EXCEPT !.calls = Append(eval.calls, kind)] EXCEPT !.ops = ops]
    BY <1>4 DEF VmCalls, LoopInv, TypeInv, EvalType
  <2> HIDE DEF ops
  <2>2. /\ eval'.pc = "call" /\ eval'.calls = Append(eval.calls, kind) /\ eval'.ops = ops
        /\ eval'.src = eval.src /\ eval'.no = eval.no /\ eval'.live = eval.live
        /\ eval'.res = eval.res /\ eval'.feed = eval.feed /\ eval'.id = eval.id
    BY <2>1 DEF LoopInv, TypeInv, EvalType
  <2>3. eval' \in EvalType
    <3> HIDE DEF AllKinds
    <3> QED BY <1>2, <1>3, <2>1 DEF LoopInv, TypeInv, EvalType
  <2> QED
    BY <1>4, <2>2, <2>3 DEF ops
<1>5. CASE ~WithinBudget(eval.ops)
  <2>1. eval' = [[eval EXCEPT !.pc = "over"] EXCEPT !.calls = Append(eval.calls, kind)]
    BY <1>5 DEF VmCalls, LoopInv, TypeInv, EvalType
  <2>2. /\ eval'.pc = "over" /\ eval'.calls = Append(eval.calls, kind) /\ eval'.ops = eval.ops
        /\ eval'.src = eval.src /\ eval'.no = eval.no /\ eval'.live = eval.live
        /\ eval'.res = eval.res /\ eval'.feed = eval.feed /\ eval'.id = eval.id
    BY <2>1 DEF LoopInv, TypeInv, EvalType
  <2>3. eval' \in EvalType
    <3> HIDE DEF AllKinds
    <3> QED BY <1>2, <2>1 DEF LoopInv, TypeInv, EvalType
  <2> QED
    BY <1>5, <2>2, <2>3
<1> QED
  BY <1>4, <1>5

LEMMA ParkFields ==
    ASSUME LoopInv, NEW kind, ClientHostCall(kind)
    PROVE  /\ eval' \in EvalType
           /\ eval'.pc = "parked" /\ eval'.id = bridge.seq + 1 /\ eval.live
           /\ eval'.src = eval.src /\ eval'.no = eval.no /\ eval'.live = eval.live
           /\ eval'.calls = eval.calls /\ eval'.ops = eval.ops
           /\ eval'.res = eval.res /\ eval'.feed = eval.feed
           /\ bridge' \in [pending : SUBSET Nat, seq : Nat]
           /\ bridge'.seq = bridge.seq + 1 /\ bridge'.pending = {bridge.seq + 1}
<1> DEFINE id == bridge.seq + 1
           ext == IF kind = "ext" THEN eval.ext + 1 ELSE eval.ext
<1>1. id \in Nat /\ ext \in Nat
  BY EvalFields DEF LoopInv, TypeInv
<1>2. eval' = [[[eval EXCEPT !.pc = "parked"] EXCEPT !.id = id] EXCEPT !.ext = ext]
  BY DEF ClientHostCall, LoopInv, TypeInv, EvalType
<1>3. bridge' = [[bridge EXCEPT !.seq = id] EXCEPT !.pending = bridge.pending \cup {id}]
  BY DEF ClientHostCall, LoopInv, TypeInv
<1>4. bridge.pending = {}
  BY NotParked DEF ClientHostCall, Serving
<1> HIDE DEF ext
<1>5. /\ eval' \in EvalType
      /\ eval'.pc = "parked" /\ eval'.id = id
      /\ eval'.src = eval.src /\ eval'.no = eval.no /\ eval'.live = eval.live
      /\ eval'.calls = eval.calls /\ eval'.ops = eval.ops
      /\ eval'.res = eval.res /\ eval'.feed = eval.feed
  <2> HIDE DEF id
  <2> QED BY <1>1, <1>2 DEF LoopInv, TypeInv, EvalType
<1>6. /\ bridge' \in [pending : SUBSET Nat, seq : Nat]
      /\ bridge'.seq = id /\ bridge'.pending = {id}
  <2> HIDE DEF id
  <2> QED BY <1>1, <1>3, <1>4 DEF LoopInv, TypeInv
<1> QED
  BY <1>5, <1>6 DEF ClientHostCall

LEMMA ReplayFields ==
    ASSUME LoopInv, ReplayCell
    PROVE  /\ eval' \in EvalType
           /\ eval'.no = engine.replayed + 1 /\ eval'.no \in DOMAIN oplog
           /\ eval'.pc = "vm" /\ eval'.src = oplog[eval'.no].src /\ ~eval'.live
           /\ eval'.calls = <<>> /\ eval'.res = <<>> /\ eval'.ops = [c \in Classes |-> 0]
           /\ eval'.feed = oplog[eval'.no].res /\ eval'.src \in Sources
<1> DEFINE k == engine.replayed + 1
<1>1. k \in DOMAIN oplog /\ k \in Nat
  BY DEF ReplayCell, LoopInv, TypeInv
<1>2. oplog[k] \in Row
  BY <1>1 DEF LoopInv, TypeInv
<1>3. oplog[k].src \in Sources /\ oplog[k].res \in Seq(ResultType)
  BY <1>2 DEF Row
<1>4. eval' = [[[[[Idle EXCEPT !.pc = "vm"] EXCEPT !.src = oplog[k].src] EXCEPT !.no = k]
                 EXCEPT !.live = FALSE] EXCEPT !.feed = oplog[k].res]
  BY DEF ReplayCell, Idle
<1> HIDE DEF k
<1>5. /\ eval' \in EvalType
      /\ eval'.no = k
      /\ eval'.pc = "vm" /\ eval'.src = oplog[k].src /\ ~eval'.live
      /\ eval'.calls = <<>> /\ eval'.res = <<>> /\ eval'.ops = [c \in Classes |-> 0]
      /\ eval'.feed = oplog[k].res
  <2> HIDE DEF ResultType
  <2> QED BY <1>1, <1>3, <1>4, IdleFields DEF EvalType
<1> QED
  BY <1>1, <1>3, <1>5 DEF k

LEMMA SweepTyped ==
    ASSUME LoopInv, streams' = SweepStreams
    PROVE  streams' \in [DOMAIN streams' -> Stream]
<1>1. DOMAIN streams' = {k \in DOMAIN streams : ~streams[k].done}
  BY DEF SweepStreams
<1>2. \A k \in DOMAIN streams' : streams'[k] \in Stream
  BY <1>1 DEF SweepStreams, LoopInv, TypeInv
<1> QED
  BY <1>1, <1>2 DEF SweepStreams

(* The cell is over: nothing is left of it in memory but the heap.         *)
LEMMA EndsLoop ==
    ASSUME LoopInv, eval' = Idle, UNCHANGED todo, fired' = fired,
           done' \subseteq Sources, epoch' \in Nat,
           engine' \in [result : Sources \cup {NoSrc}, warm : BOOLEAN, replayed : Nat],
           oplog' \in Seq(Row), heap' \in Seq(Handle), saved' \in Seq(Handle),
           streams' \in [DOMAIN streams' -> Stream],
           bridge' \in [pending : SUBSET Nat, seq : Nat], bridge'.pending = {},
           reply' \in [Sources -> Sources \cup {NoSrc}]
    PROVE  LoopInv'
<1>1. TypeInv'
  BY IdleFields DEF LoopInv, TypeInv
<1>2. PcInv'
  BY IdleFields DEF PcInv
<1> QED
  BY <1>1, <1>2 DEF LoopInv

(* The disjuncts of Next, the answers under one heading.                   *)
LEMMA StepCases ==
    ASSUME LoopInv, Next
    PROVE  \/ \E s \in Sources : EvalBegin(s)
           \/ \E k \in AllKinds : VmCalls(k) \/ ClientHostCall(k)
           \/ \E r : Answered(r)
           \/ \E id \in Nat : id \notin bridge.pending /\ ResolveHostCall(id)
           \/ \E commits, fits \in BOOLEAN : CellEnds(commits, fits)
           \/ Evict \/ Reset \/ RestoreImage \/ ReplayCell \/ ReplayedCellEnds \/ Finished
<1>1. ASSUME NEW k \in Kinds, DoFetchStream(k)
      PROVE  \E r : Answered(r)
  BY <1>1, OpenAnswered
<1>2. ASSUME NEW h \in 1..Len(heap), NEW n \in 0..Body, DoStreamRead(h, n)
      PROVE  \E r : Answered(r)
  BY <1>2, ReadAnswered
<1>3. ASSUME NEW h \in 1..Len(heap), NEW last \in BOOLEAN, NEW body \in BOOLEAN,
             DoStreamWrite(h, last, body)
      PROVE  \E r : Answered(r)
  BY <1>3, WriteAnswered
<1>4. ASSUME NEW h \in 1..Len(heap), StreamReadFails(h) \/ DoStreamCancel(h)
      PROVE  \E r : Answered(r)
  BY <1>4, ReadFailsAnswered
<1>5. ASSUME NEW id \in 1..bridge.seq, ResolveHostCall(id) \/ HostCallTimeout(id)
      PROVE  \/ \E r : Answered(r)
             \/ \E i \in Nat : i \notin bridge.pending /\ ResolveHostCall(i)
  <2>1. id \in Nat
    BY DEF LoopInv, TypeInv
  <2>2. CASE id \in bridge.pending
    BY <1>5, <2>1, <2>2, SettledAnswered
  <2>3. CASE id \notin bridge.pending
    BY <1>5, <2>1, <2>3 DEF HostCallTimeout
  <2> QED
    BY <2>2, <2>3
<1>6. FeedRecorded \/ DoFetch \/ ServiceFs \/ ServiceChannel \/ ClientUnavailable \/ DoSandbox
        => \E r : Answered(r)
  BY FeedAnswered, FetchAnswered, ServiceAnswered
<1>7. Kinds \subseteq AllKinds
  BY HostCallsAssumption
<1> QED
  BY <1>1, <1>2, <1>3, <1>4, <1>5, <1>6, <1>7 DEF Next

LEMMA EndLoop ==
    ASSUME LoopInv, NEW commits \in BOOLEAN, NEW fits \in BOOLEAN, CellEnds(commits, fits)
    PROVE  LoopInv'
<1>1. eval.src \in Sources /\ bridge.pending = {}
  BY NotParked DEF CellEnds, LoopInv, PcInv
<1>2. ResultNow \in Sources \cup {NoSrc}
  BY <1>1 DEF ResultNow, LoopInv, TypeInv
<1>3. engine' \in [result : Sources \cup {NoSrc}, warm : BOOLEAN, replayed : Nat]
  <2>1. engine' = [engine EXCEPT !.result = ResultNow]
    BY DEF CellEnds
  <2> QED BY <1>2, <2>1 DEF LoopInv, TypeInv
<1>4. reply' \in [Sources -> Sources \cup {NoSrc}]
  <2>1. reply' = [reply EXCEPT ![eval.src] = ResultNow]
    BY DEF CellEnds
  <2> QED BY <1>1, <1>2, <2>1 DEF LoopInv, TypeInv
<1>5. oplog' \in Seq(Row) /\ saved' \in Seq(Handle)
  <2> DEFINE row == [src |-> eval.src, calls |-> eval.calls, res |-> IF fits THEN eval.res ELSE <<>>]
  <2>1. row \in Row
    <3>1. (IF fits THEN eval.res ELSE <<>>) \in Seq(ResultType)
      BY EvalFields DEF LoopInv
    <3> QED BY <1>1, <3>1, EvalFields DEF LoopInv, Row
  <2>2. (oplog' = Append(oplog, row) /\ saved' = heap) \/ (oplog' = oplog /\ saved' = saved)
    BY DEF CellEnds
  <2> HIDE DEF row
  <2>3. oplog \in Seq(Row) /\ heap \in Seq(Handle) /\ saved \in Seq(Handle)
    BY DEF LoopInv, TypeInv
  <2>4. ASSUME NEW S, NEW q \in Seq(S), NEW x \in S PROVE Append(q, x) \in Seq(S)
    OBVIOUS
  <2> QED
    BY <2>1, <2>2, <2>3, <2>4, Zenon
<1>6. streams' \in [DOMAIN streams' -> Stream]
  BY SweepTyped DEF CellEnds
<1>7. eval' = Idle /\ UNCHANGED <<bridge, heap, todo, epoch, fired>>
  BY DEF CellEnds
<1>8. done' \subseteq Sources
  BY <1>1 DEF CellEnds, LoopInv, TypeInv
<1> QED
  BY <1>1, <1>3, <1>4, <1>5, <1>6, <1>7, <1>8, EndsLoop DEF LoopInv, TypeInv

LEMMA LoopStep == LoopInv /\ [Next]_vars => LoopInv'
<1> SUFFICES ASSUME LoopInv, [Next]_vars PROVE LoopInv'
  OBVIOUS
<1>1. ASSUME NEW s \in Sources, EvalBegin(s) PROVE LoopInv'
  <2>1. /\ UNCHANGED <<engine, oplog, bridge, streams, heap, saved, epoch, done, fired, reply>>
        /\ todo' \subseteq Sources /\ bridge.pending = {}
    BY <1>1, NotParked DEF EvalBegin, LoopInv, TypeInv
  <2>2. TypeInv'
    BY <1>1, <2>1, BeginFields DEF LoopInv, TypeInv
  <2>3. PcInv'
    BY <1>1, <2>1, BeginFields DEF LoopInv, PcInv
  <2> QED BY <2>2, <2>3 DEF LoopInv
<1>2. ASSUME NEW k \in AllKinds, VmCalls(k) PROVE LoopInv'
  <2>1. /\ UNCHANGED <<engine, oplog, bridge, streams, heap, saved, todo, epoch, done, fired, reply>>
        /\ bridge.pending = {} /\ eval.pc = "vm"
    BY <1>2, NotParked DEF VmCalls
  <2>2. TypeInv'
    BY <1>2, <2>1, CallFields DEF LoopInv, TypeInv
  <2>3. Len(Append(eval.calls, k)) = Len(eval.calls) + 1
    BY EvalFields DEF LoopInv
  <2>4. PcInv'
    BY <1>2, <2>1, <2>3, CallFields DEF LoopInv, PcInv
  <2> QED BY <2>2, <2>4 DEF LoopInv
<1>3. ASSUME NEW k \in AllKinds, ClientHostCall(k) PROVE LoopInv'
  <2>1. /\ UNCHANGED <<engine, oplog, streams, heap, saved, todo, epoch, done, fired, reply>>
        /\ eval.pc = "call"
    BY <1>3 DEF ClientHostCall, Serving
  <2>2. TypeInv'
    BY <1>3, <2>1, ParkFields DEF LoopInv, TypeInv
  <2>3. bridge.seq + 1 > 0
    BY DEF LoopInv, TypeInv
  <2>4. eval.pc = "call" /\ eval.src \in Sources /\ Len(eval.calls) = Len(eval.res) + 1
    BY <2>1 DEF LoopInv, PcInv
  <2>5. bridge.seq \in Nat
    BY DEF LoopInv, TypeInv
  <2>6. PcInv'
    BY <1>3, <2>3, <2>4, <2>5, ParkFields DEF PcInv
  <2> QED BY <2>2, <2>6 DEF LoopInv
<1>4. ASSUME NEW r, Answered(r) PROVE LoopInv'
  BY <1>4, AnsweredLoop
<1>5. ASSUME NEW id \in Nat, id \notin bridge.pending, ResolveHostCall(id) PROVE LoopInv'
  <2>1. bridge' = [bridge EXCEPT !.pending = bridge.pending \ {id}]
    BY <1>5 DEF ResolveHostCall
  <2>2. bridge.pending \ {id} = bridge.pending
    BY <1>5
  <2>3. bridge' = bridge
    BY <2>1, <2>2 DEF LoopInv, TypeInv
  <2>4. UNCHANGED <<eval, engine, oplog, streams, heap, saved, todo, epoch, done, fired, reply>>
    BY <1>5 DEF ResolveHostCall
  <2> QED
    BY <2>3, <2>4 DEF LoopInv, TypeInv, PcInv
<1>6. ASSUME NEW commits \in BOOLEAN, NEW fits \in BOOLEAN, CellEnds(commits, fits) PROVE LoopInv'
  BY <1>6, EndLoop
<1>7. CASE Evict
  <2>1. engine' \in [result : Sources \cup {NoSrc}, warm : BOOLEAN, replayed : Nat]
    BY <1>7 DEF Evict
  <2>2. bridge' \in [pending : SUBSET Nat, seq : Nat] /\ bridge'.pending = {}
    BY <1>7 DEF Evict, LoopInv, TypeInv
  <2>3. streams' \in [DOMAIN streams' -> Stream] /\ heap' \in Seq(Handle)
    BY <1>7 DEF Evict, NoStreams
  <2>4. eval' = Idle /\ UNCHANGED <<oplog, saved, todo, epoch, done, fired, reply>>
    BY <1>7 DEF Evict
  <2> QED
    BY <2>1, <2>2, <2>3, <2>4, EndsLoop DEF LoopInv, TypeInv
<1>8. CASE RestoreImage
  <2>1. engine' = [[engine EXCEPT !.warm = TRUE] EXCEPT !.result = NoSrc]
    BY <1>8 DEF RestoreImage, LoopInv, TypeInv
  <2>2. engine' \in [result : Sources \cup {NoSrc}, warm : BOOLEAN, replayed : Nat]
    BY <2>1 DEF LoopInv, TypeInv
  <2>3. UNCHANGED <<eval, oplog, bridge, streams, saved, todo, epoch, done, fired, reply>> /\ heap' = saved
    BY <1>8 DEF RestoreImage
  <2> QED
    BY <2>2, <2>3 DEF LoopInv, TypeInv, PcInv
<1>9. CASE ReplayCell
  <2>1. /\ UNCHANGED <<engine, oplog, bridge, streams, heap, saved, todo, epoch, done, fired, reply>>
        /\ bridge.pending = {}
    BY <1>9, NotParked DEF ReplayCell
  <2>2. TypeInv'
    BY <1>9, <2>1, ReplayFields DEF LoopInv, TypeInv
  <2>3. PcInv'
    BY <1>9, <2>1, ReplayFields DEF LoopInv, PcInv
  <2> QED BY <2>2, <2>3 DEF LoopInv
<1>10. CASE ReplayedCellEnds
  <2>1. eval.src \in Sources /\ bridge.pending = {}
    BY <1>10, NotParked DEF ReplayedCellEnds, LoopInv, PcInv
  <2>2. ResultNow \in Sources \cup {NoSrc} /\ engine.replayed + 1 \in Nat
    BY <2>1 DEF ResultNow, LoopInv, TypeInv
  <2>3. engine' \in [result : Sources \cup {NoSrc}, warm : BOOLEAN, replayed : Nat]
    BY <1>10, <2>2 DEF ReplayedCellEnds
  <2>4. streams' \in [DOMAIN streams' -> Stream]
    BY <1>10, SweepTyped DEF ReplayedCellEnds
  <2>5. eval' = Idle /\ UNCHANGED <<oplog, bridge, heap, saved, todo, epoch, done, fired, reply>>
    BY <1>10 DEF ReplayedCellEnds
  <2> QED
    BY <2>1, <2>3, <2>4, <2>5, EndsLoop DEF LoopInv, TypeInv
<1>11. CASE Reset
  <2>1. eval' = Idle /\ bridge.pending = {}
    BY <1>11, NotParked DEF Reset, LoopInv, PcInv
  <2>2. engine' \in [result : Sources \cup {NoSrc}, warm : BOOLEAN, replayed : Nat]
    BY <1>11 DEF Reset
  <2>3. oplog' \in Seq(Row) /\ heap' \in Seq(Handle) /\ saved' \in Seq(Handle)
    BY <1>11 DEF Reset
  <2>4. streams' \in [DOMAIN streams' -> Stream]
    BY <1>11 DEF Reset, NoStreams
  <2>5. UNCHANGED <<bridge, todo, done, fired, reply>> /\ epoch' = epoch + 1
    BY <1>11 DEF Reset
  <2> QED
    BY <2>1, <2>2, <2>3, <2>4, <2>5, EndsLoop DEF LoopInv, TypeInv
<1>12. CASE Finished \/ UNCHANGED vars
  BY <1>12 DEF Finished, vars, LoopInv, TypeInv, PcInv
<1> QED
  BY <1>1, <1>2, <1>3, <1>4, <1>5, <1>6, <1>7, <1>8, <1>9, <1>10, <1>11, <1>12, StepCases

(* The loop is well typed and well phased in every state: a call that is   *)
(* served has no result yet, and at most the call the cell is parked on is *)
(* pending at the bridge (evalCode, _clientHostCall).                      *)
THEOREM LoopInvariant == Spec => []LoopInv
<1> QED
  BY LoopInitInv, LoopStep, PTL DEF Spec

(* Every answer a cell was given is the one to the frame it was parked on, *)
(* however late, often or out of order the client answers, whatever the    *)
(* timers do and whichever of the faults occur (resolveHostCall,           *)
(* _clientHostCall): for every number of cells, calls and frames.          *)
THEOREM AnswerAlwaysMatches == Spec => []AnswerMatchesCall
<1>1. LoopInv => AnswerMatchesCall
  <2> SUFFICES ASSUME LoopInv PROVE AnswerMatchesCall
    OBVIOUS
  <2>1. \A r \in ResultType : Answer(r)
    BY DEF ResultType
  <2>2. Range(eval.res) \subseteq ResultType
    BY EvalFields DEF LoopInv, Range
  <2>3. \A i \in DOMAIN oplog : Range(oplog[i].res) \subseteq ResultType
    <3> SUFFICES ASSUME NEW i \in DOMAIN oplog PROVE Range(oplog[i].res) \subseteq ResultType
      OBVIOUS
    <3>1. oplog[i] \in Row
      BY DEF LoopInv, TypeInv
    <3>2. oplog[i].res \in Seq(ResultType)
      BY <3>1 DEF Row
    <3> QED
      BY <3>2 DEF Range
  <2> QED
    BY <2>1, <2>2, <2>3 DEF AnswerMatchesCall, Answer
<1> QED
  BY <1>1, LoopInvariant, PTL

-----------------------------------------------------------------------------
(* The fence.                                                              *)

(* A step that sends nothing, commits nothing and starts no live cell.     *)
LEMMA FenceKept ==
    ASSUME FenceInv, UNCHANGED <<fired, oplog, todo, epoch, done>>,
           eval'.pc # "idle" => \/ \E i \in DOMAIN oplog : eval'.src = oplog[i].src /\ ~eval'.live
                                \/ /\ eval.pc # "idle" /\ eval'.live = eval.live
                                   /\ eval'.src = eval.src /\ eval'.no = eval.no
    PROVE  FenceInv'
BY DEF FenceInv, Fenced

(* A call of a running cell is answered: what it sent carries the fence of *)
(* the cell, or nothing.                                                   *)
LEMMA FenceAnswered ==
    ASSUME LoopInv, FenceInv, NEW r, Answered(r)
    PROVE  FenceInv'
<1>1. /\ eval.pc # "idle" /\ eval'.src = eval.src /\ eval'.no = eval.no /\ eval'.live = eval.live
      /\ UNCHANGED <<oplog, todo, epoch, done>>
  BY ResumeFields DEF Answered
<1>2. CASE fired' = fired
  BY <1>1, <1>2, FenceKept
<1>3. CASE eval.live /\ fired' = fired \cup {Sent(FenceName)}
  <2> DEFINE f == Sent(FenceName)
  <2>1. /\ f.effect[1] = eval.src /\ f.key = FenceName /\ f.key \in Nat \X Nat
        /\ f.key[2] = f.effect[2] /\ f.key[1] = eval.no /\ f.epoch = epoch
    BY <1>3, FenceTyped DEF Sent, Answered
  <2>2. /\ fired' = fired \cup {f} /\ epoch \in Nat /\ eval.src \notin todo
        /\ eval.src \notin done /\ \A i \in DOMAIN oplog : oplog[i].src # eval.src
    BY <1>1, <1>3 DEF FenceInv, LoopInv, TypeInv
  <2> HIDE DEF f
  <2> QED
    BY <1>1, <1>3, <2>1, <2>2 DEF FenceInv, Fenced
<1>4. CASE fired' = fired \cup {Sent(NoKey)}
  <2> DEFINE f == Sent(NoKey)
  <2>1. f.effect[1] = eval.src /\ f.key = NoKey /\ f.epoch = epoch
    BY FenceTyped DEF Sent, Answered
  <2>2. eval.src \notin todo /\ fired' = fired \cup {f} /\ epoch \in Nat
    BY <1>1, <1>4 DEF FenceInv, LoopInv, TypeInv
  <2> HIDE DEF f
  <2> QED
    BY <1>1, <2>1, <2>2 DEF FenceInv, Fenced
<1> QED
  BY <1>2, <1>3, <1>4 DEF Answered

(* Two effects of committed cells, sent out in the epoch that is on.       *)
LEMMA FencedApart ==
    ASSUME LoopInv, FenceInv, NEW f \in fired, NEW g \in fired, Fenced(f), Fenced(g),
           f.epoch = epoch, g.epoch = epoch, f.key = g.key
    PROVE  f.effect = g.effect
<1>1. f.effect \in Sources \X Nat /\ g.effect \in Sources \X Nat
  BY DEF LoopInv, TypeInv, Effects
<1>2. PICK i \in DOMAIN oplog : oplog[i].src = f.effect[1]
  BY DEF FenceInv
<1>3. PICK j \in DOMAIN oplog : oplog[j].src = g.effect[1]
  BY DEF FenceInv
<1>4. f.key[1] = i /\ g.key[1] = j /\ f.key[2] = f.effect[2] /\ g.key[2] = g.effect[2]
  BY <1>2, <1>3 DEF FenceInv, Fenced
<1>5. f.effect[1] = g.effect[1] /\ f.effect[2] = g.effect[2]
  BY <1>2, <1>3, <1>4
<1> QED
  BY <1>1, <1>5

(* The numbers start again: the epoch that is over keeps its keys apart.   *)
LEMMA FenceReset ==
    ASSUME LoopInv, FenceInv, Reset
    PROVE  FenceInv'
<1>1. /\ eval.pc = "idle" /\ epoch' = epoch + 1 /\ oplog' = <<>> /\ epoch \in Nat
      /\ UNCHANGED <<eval, todo, done, fired>>
  BY DEF Reset, LoopInv, TypeInv
<1>2. \A f \in fired : f.epoch \in Nat /\ f.epoch <= epoch
  BY DEF FenceInv, LoopInv, TypeInv, Effects
<1>3. \A f, g \in fired :
          Fenced(f) /\ Fenced(g) /\ f.epoch < epoch' /\ f.epoch = g.epoch /\ f.key = g.key
              => f.effect = g.effect
  <2> SUFFICES ASSUME NEW f \in fired, NEW g \in fired, Fenced(f), Fenced(g),
                      f.epoch < epoch', f.epoch = g.epoch, f.key = g.key
               PROVE  f.effect = g.effect
    OBVIOUS
  <2>1. CASE f.epoch < epoch
    BY <2>1 DEF FenceInv
  <2>2. CASE f.epoch = epoch
    BY <2>2, FencedApart
  <2> QED
    BY <1>1, <1>2, <2>1, <2>2
<1>4. \A f \in fired : f.epoch <= epoch' /\ f.epoch # epoch'
  BY <1>1, <1>2
<1>5. DOMAIN oplog' = {}
  BY <1>1
<1> QED
  BY <1>1, <1>3, <1>4, <1>5 DEF FenceInv, Fenced

LEMMA FenceStep == LoopInv /\ FenceInv /\ [Next]_vars => FenceInv'
<1> SUFFICES ASSUME LoopInv, FenceInv, [Next]_vars PROVE FenceInv'
  OBVIOUS
<1>1. ASSUME NEW s \in Sources, EvalBegin(s) PROVE FenceInv'
  <2>1. /\ s \in todo /\ todo' = todo \ {s} /\ UNCHANGED <<oplog, epoch, done, fired>>
        /\ eval'.pc = "vm" /\ eval'.src = s /\ eval'.no = Len(oplog) + 1 /\ eval'.live
    BY <1>1, BeginFields DEF EvalBegin
  <2>2. UNCHANGED <<epoch, done>>
    BY <1>1 DEF EvalBegin
  <2> QED
    BY <2>1, <2>2 DEF FenceInv, Fenced
<1>2. ASSUME NEW k \in AllKinds, VmCalls(k) PROVE FenceInv'
  <2>1. UNCHANGED <<oplog, todo, epoch, done, fired>> /\ eval.pc = "vm"
    BY <1>2 DEF VmCalls
  <2> QED
    BY <1>2, <2>1, CallFields, FenceKept
<1>3. ASSUME NEW k \in AllKinds, ClientHostCall(k) PROVE FenceInv'
  <2>1. UNCHANGED <<oplog, todo, epoch, done, fired>> /\ eval.pc = "call"
    BY <1>3 DEF ClientHostCall, Serving
  <2> QED
    BY <1>3, <2>1, ParkFields, FenceKept
<1>4. ASSUME NEW r, Answered(r) PROVE FenceInv'
  BY <1>4, FenceAnswered
<1>5. ASSUME NEW id \in Nat, id \notin bridge.pending, ResolveHostCall(id) PROVE FenceInv'
  <2>1. UNCHANGED <<eval, oplog, todo, epoch, done, fired>>
    BY <1>5 DEF ResolveHostCall
  <2> QED
    BY <2>1, FenceKept
<1>6. ASSUME NEW commits \in BOOLEAN, NEW fits \in BOOLEAN, CellEnds(commits, fits) PROVE FenceInv'
  <2>1. eval.pc # "idle" /\ eval.live /\ eval'.pc = "idle" /\ UNCHANGED <<todo, epoch, fired>>
    BY <1>6, IdleFields DEF CellEnds
  <2>2. CASE ~commits
    BY <1>6, <2>1, <2>2, FenceKept DEF CellEnds
  <2>3. CASE commits
    <3> DEFINE row == [src |-> eval.src, calls |-> eval.calls, res |-> IF fits THEN eval.res ELSE <<>>]
    <3>1. oplog' = Append(oplog, row) /\ row.src = eval.src
      BY <1>6, <2>3 DEF CellEnds
    <3> HIDE DEF row
    <3>2. DOMAIN oplog' = DOMAIN oplog \cup {Len(oplog) + 1}
      BY <3>1 DEF LoopInv, TypeInv
    <3>3. /\ \A i \in DOMAIN oplog : oplog'[i] = oplog[i]
          /\ oplog'[Len(oplog) + 1] = row
      BY <3>1 DEF LoopInv, TypeInv
    <3>4. eval.no = Len(oplog) + 1 /\ eval.src \notin todo
      BY <2>1 DEF FenceInv
    <3>5. done' = done \cup {eval.src} /\ \A f \in fired : f.epoch \in Nat /\ epoch \in Nat
      BY <1>6, <2>3 DEF CellEnds, LoopInv, TypeInv, Effects
    <3>6. \A i \in DOMAIN oplog' : oplog'[i].src \notin todo
      BY <3>1, <3>2, <3>3, <3>4 DEF FenceInv
    <3>7. ASSUME NEW f \in fired
          PROVE  /\ Fenced(f)' /\ f.epoch = epoch => \E i \in DOMAIN oplog' : oplog'[i].src = f.effect[1]
                 /\ \A i \in DOMAIN oplog' :
                       f.key # NoKey /\ f.effect[1] = oplog'[i].src => f.key[1] = i
                 /\ Fenced(f)' /\ f.epoch < epoch => Fenced(f)
      BY <2>1, <3>1, <3>2, <3>3, <3>4, <3>5 DEF FenceInv, Fenced
    <3>8. \A f, g \in fired :
            Fenced(f)' /\ Fenced(g)' /\ f.epoch < epoch /\ f.epoch = g.epoch /\ f.key = g.key
              => f.effect = g.effect
      BY <3>7 DEF FenceInv
    <3> QED
      BY <2>1, <3>4, <3>5, <3>6, <3>7, <3>8 DEF FenceInv
  <2> QED
    BY <2>2, <2>3
<1>7. CASE Evict
  <2>1. eval'.pc = "idle" /\ UNCHANGED <<oplog, todo, epoch, done, fired>>
    BY <1>7, IdleFields DEF Evict
  <2> QED BY <2>1, FenceKept
<1>8. CASE RestoreImage
  <2>1. UNCHANGED <<eval, oplog, todo, epoch, done, fired>>
    BY <1>8 DEF RestoreImage
  <2> QED BY <2>1, FenceKept
<1>9. CASE ReplayCell
  <2>1. UNCHANGED <<oplog, todo, epoch, done, fired>>
    BY <1>9 DEF ReplayCell
  <2> QED BY <1>9, <2>1, ReplayFields, FenceKept
<1>10. CASE ReplayedCellEnds
  <2>1. eval'.pc = "idle" /\ UNCHANGED <<oplog, todo, epoch, done, fired>>
    BY <1>10, IdleFields DEF ReplayedCellEnds
  <2> QED BY <2>1, FenceKept
<1>11. CASE Reset
  BY <1>11, FenceReset
<1>12. CASE Finished \/ UNCHANGED vars
  <2>1. UNCHANGED <<eval, oplog, todo, epoch, done, fired>>
    BY <1>12 DEF Finished, vars
  <2> QED BY <2>1, FenceKept
<1> QED
  BY <1>1, <1>2, <1>3, <1>4, <1>5, <1>6, <1>7, <1>8, <1>9, <1>10, <1>11, <1>12, StepCases

(* Two effects of committed cells, sent out between two resets of the      *)
(* session, carry the same Idempotency-Key only when they are the same     *)
(* effect, whatever was lost, refused, clamped, evicted or replayed in     *)
(* between, although a lost cell's number is given to the next one         *)
(* (_fetchPrep, evalCode, reset_critical): for every number of cells,      *)
(* calls and resets.  Across a reset the keys do repeat: the epochs of the *)
(* two effects are a hypothesis of CommittedKeysDiffer, not a consequence. *)
THEOREM CommittedKeysAlwaysDiffer == Spec => []CommittedKeysDiffer
<1>1. Init => FenceInv
  BY IdleFields DEF Init, FenceInv
<1>2. LoopInv /\ FenceInv => CommittedKeysDiffer
  <2> SUFFICES ASSUME LoopInv, FenceInv,
                      NEW f \in fired, NEW g \in fired, Fenced(f), Fenced(g),
                      f.epoch = g.epoch, f.key = g.key
               PROVE  f.effect = g.effect
    BY DEF CommittedKeysDiffer, Committed, Fenced
  <2>1. f.epoch \in Nat /\ epoch \in Nat /\ f.epoch <= epoch
    BY DEF FenceInv, LoopInv, TypeInv, Effects
  <2>2. CASE f.epoch < epoch
    BY <2>2 DEF FenceInv
  <2>3. CASE f.epoch = epoch
    BY <2>3, FencedApart
  <2> QED
    BY <2>1, <2>2, <2>3
<1> QED
  BY <1>1, <1>2, FenceStep, LoopInvariant, PTL DEF Spec

-----------------------------------------------------------------------------
(* Replay.                                                                 *)

LEMMA ChargedEmpty == \A calls : Charged(calls, 0) = [c \in Classes |-> 0]
<1> TAKE calls
<1>1. \A c \in Classes : {i \in 1..0 : ClassOf(calls[i]) = c} = {}
  OBVIOUS
<1> QED
  BY <1>1, FS_EmptySet DEF Charged

LEMMA ChargedPrefix ==
    ASSUME NEW n \in Nat, NEW a, NEW b, \A i \in 1..n : a[i] = b[i]
    PROVE  Charged(a, n) = Charged(b, n)
<1>1. \A c \in Classes : {i \in 1..n : ClassOf(a[i]) = c} = {i \in 1..n : ClassOf(b[i]) = c}
  OBVIOUS
<1> QED
  BY <1>1 DEF Charged

LEMMA ChargedAppend ==
    ASSUME NEW calls \in Seq(AllKinds), NEW kind \in AllKinds
    PROVE  LET n == Len(calls)
               k == ClassOf(kind)
           IN  Charged(Append(calls, kind), n + 1)
                 = [Charged(calls, n) EXCEPT ![k] = Charged(calls, n)[k] + 1]
<1> DEFINE n == Len(calls)
           more == Append(calls, kind)
           Old(c) == {i \in 1..n : ClassOf(calls[i]) = c}
           New(c) == {i \in 1..(n + 1) : ClassOf(more[i]) = c}
<1>1. n \in Nat /\ more[n + 1] = kind /\ \A i \in 1..n : more[i] = calls[i]
  OBVIOUS
<1>2. 1..(n + 1) = 1..n \cup {n + 1} /\ n + 1 \notin 1..n
  BY <1>1
<1> HIDE DEF n, more
<1>3. \A c : New(c) = IF ClassOf(kind) = c THEN Old(c) \cup {n + 1} ELSE Old(c)
  BY <1>1, <1>2
<1>4. \A c : IsFiniteSet(Old(c)) /\ n + 1 \notin Old(c)
  <2> SUFFICES ASSUME NEW c PROVE IsFiniteSet(Old(c)) /\ n + 1 \notin Old(c)
    OBVIOUS
  <2>1. IsFiniteSet(1..n)
    BY <1>1, FS_Interval
  <2>2. Old(c) \subseteq 1..n
    OBVIOUS
  <2>3. IsFiniteSet(Old(c))
    BY <2>1, <2>2, FS_Subset
  <2> QED
    BY <1>2, <2>2, <2>3
<1>5. \A c : Cardinality(Old(c) \cup {n + 1}) = Cardinality(Old(c)) + 1
  <2> SUFFICES ASSUME NEW c PROVE Cardinality(Old(c) \cup {n + 1}) = Cardinality(Old(c)) + 1
    OBVIOUS
  <2>1. IsFiniteSet(Old(c)) /\ n + 1 \notin Old(c)
    BY <1>4
  <2> HIDE DEF Old
  <2> QED BY <2>1, FS_AddElement
<1> HIDE DEF Old, New
<1>6. \A c : Cardinality(New(c)) = IF ClassOf(kind) = c THEN Cardinality(Old(c)) + 1 ELSE Cardinality(Old(c))
  BY <1>3, <1>5
<1>7. /\ Charged(more, n + 1) = [c \in Classes |-> Cardinality(New(c))]
      /\ Charged(calls, n) = [c \in Classes |-> Cardinality(Old(c))]
  BY DEF Charged, New, Old
<1>8. ClassOf(kind) \in Classes
  BY DEF ClassOf, Classes
<1>9. Charged(more, n + 1)
        = [Charged(calls, n) EXCEPT ![ClassOf(kind)] = Charged(calls, n)[ClassOf(kind)] + 1]
  BY <1>6, <1>7, <1>8
<1> QED
  BY <1>9 DEF n, more

(* A replayed cell that has used up its results has met the budget that    *)
(* ended the recorded one, or makes no more calls.                         *)
LEMMA FedWithinBudget ==
    ASSUME LoopInv, ReplayInv, eval.pc = "vm", ~eval.live, WithinBudget(eval.ops),
           Len(eval.calls) < Len(oplog[eval.no].calls)
    PROVE  eval.feed # <<>>
<1> DEFINE row == oplog[eval.no]
<1>1. FollowsRow /\ eval.no \in DOMAIN oplog
  BY DEF ReplayInv, FollowsRow
<1>2. row \in Row
  BY <1>1 DEF LoopInv, TypeInv
<1>3. Len(row.res) \in Nat /\ Len(row.calls) \in Nat
  BY <1>2 DEF Row
<1>4. Len(eval.calls) = Len(eval.res) /\ Len(eval.calls) \in Nat
  BY EvalFields DEF LoopInv, PcInv
<1> SUFFICES ASSUME eval.feed = <<>> PROVE FALSE
  OBVIOUS
<1>5. Len(row.res) = Len(eval.calls)
  BY <1>1, <1>3, <1>4 DEF FollowsRow
<1>6. ~WithinBudget(Charged(row.calls, Len(row.res)))
  BY <1>1, <1>3, <1>5 DEF ReplayInv, RowComplete
<1>7. Charged(row.calls, Len(eval.calls)) = Charged(eval.calls, Len(eval.calls))
  BY <1>1, <1>4, ChargedPrefix DEF FollowsRow
<1>8. eval.ops = Charged(eval.calls, Len(eval.calls))
  BY DEF ReplayInv
<1> QED
  BY <1>5, <1>6, <1>7, <1>8

LEMMA ReplayCalls ==
    ASSUME LoopInv, ReplayInv, NEW kind \in AllKinds, VmCalls(kind)
    PROVE  ReplayInv'
<1> DEFINE n == Len(eval.calls)
<1>1. /\ eval.pc = "vm" /\ UNCHANGED <<oplog, fired>>
      /\ n = Len(eval.res) /\ n \in Nat /\ eval.calls \in Seq(AllKinds)
  BY EvalFields DEF VmCalls, LoopInv, PcInv
<1>2. Len(eval'.calls) = n + 1 /\ eval'.calls[n + 1] = kind /\ \A i \in 1..n : eval'.calls[i] = eval.calls[i]
  <2>1. \A q \in Seq(AllKinds) : /\ Len(Append(q, kind)) = Len(q) + 1
                                 /\ Append(q, kind)[Len(q) + 1] = kind
                                 /\ \A i \in 1..Len(q) : Append(q, kind)[i] = q[i]
    OBVIOUS
  <2>2. eval'.calls = Append(eval.calls, kind)
    BY CallFields
  <2> QED
    BY <1>1, <2>1, <2>2
<1>3. eval.ops = Charged(eval.calls, n)
  BY <1>1 DEF ReplayInv
<1>4. CASE WithinBudget(eval.ops)
  <2>1. /\ eval'.pc = "call"
        /\ eval'.ops = [eval.ops EXCEPT ![ClassOf(kind)] = eval.ops[ClassOf(kind)] + 1]
    BY <1>4, CallFields
  <2>2. eval'.ops = Charged(eval'.calls, n + 1)
    <3>1. eval'.calls = Append(eval.calls, kind)
      BY CallFields
    <3>2. Charged(Append(eval.calls, kind), n + 1)
            = [Charged(eval.calls, n) EXCEPT ![ClassOf(kind)] = Charged(eval.calls, n)[ClassOf(kind)] + 1]
      BY <1>1, ChargedAppend
    <3> QED BY <1>3, <2>1, <3>1, <3>2
  <2>3. ~eval.live => FollowsRow'
    <3> SUFFICES ASSUME ~eval.live PROVE FollowsRow'
      OBVIOUS
    <3>1. FollowsRow
      BY <1>1 DEF ReplayInv
    <3>2. n < Len(oplog[eval.no].calls) /\ kind = oplog[eval.no].calls[n + 1]
      BY DEF VmCalls
    <3>3. eval.feed # <<>>
      BY <1>1, <1>4, <3>2, FedWithinBudget
    <3>4. n + 1 <= Len(oplog[eval.no].calls)
      <4>1. oplog[eval.no] \in Row
        BY <3>1 DEF FollowsRow, LoopInv, TypeInv
      <4>2. Len(oplog[eval.no].calls) \in Nat
        BY <4>1 DEF Row
      <4> QED BY <1>1, <3>2, <4>2
    <3>5. \A i \in 1..(n + 1) : eval'.calls[i] = oplog[eval.no].calls[i]
      <4>1. \A i \in 1..(n + 1) : i \in 1..n \/ i = n + 1
        BY <1>1
      <4>2. \A i \in 1..n : eval.calls[i] = oplog[eval.no].calls[i]
        BY <3>1 DEF FollowsRow
      <4> QED BY <1>2, <3>2, <4>1, <4>2
    <3> QED
      BY <1>1, <1>2, <2>1, <3>1, <3>3, <3>4, <3>5, CallFields, ZenonT(60) DEF FollowsRow
  <2>4. eval'.live = eval.live
    BY CallFields
  <2> QED
    BY <1>1, <1>2, <2>1, <2>2, <2>3, <2>4 DEF ReplayInv
<1>5. CASE ~WithinBudget(eval.ops)
  <2>1. eval'.pc = "over" /\ eval'.ops = eval.ops /\ eval'.res = eval.res /\ eval'.live = eval.live
    BY <1>5, CallFields
  <2>2. Charged(eval'.calls, n) = Charged(eval.calls, n)
    BY <1>1, <1>2, ChargedPrefix
  <2>3. ~eval.live => FollowsRow'
    <3> SUFFICES ASSUME ~eval.live PROVE FollowsRow'
      OBVIOUS
    <3>1. FollowsRow
      BY <1>1 DEF ReplayInv
    <3>2. n < Len(oplog[eval.no].calls) /\ kind = oplog[eval.no].calls[n + 1]
      BY DEF VmCalls
    <3>4. n + 1 <= Len(oplog[eval.no].calls)
      <4>1. oplog[eval.no] \in Row
        BY <3>1 DEF FollowsRow, LoopInv, TypeInv
      <4>2. Len(oplog[eval.no].calls) \in Nat
        BY <4>1 DEF Row
      <4> QED BY <1>1, <3>2, <4>2
    <3>5. \A i \in 1..(n + 1) : eval'.calls[i] = oplog[eval.no].calls[i]
      <4>1. \A i \in 1..(n + 1) : i \in 1..n \/ i = n + 1
        BY <1>1
      <4>2. \A i \in 1..n : eval.calls[i] = oplog[eval.no].calls[i]
        BY <3>1 DEF FollowsRow
      <4> QED BY <1>2, <3>2, <4>1, <4>2
    <3> QED
      BY <1>1, <1>2, <2>1, <3>1, <3>4, <3>5, CallFields DEF FollowsRow
  <2> QED
    BY <1>1, <1>3, <1>5, <2>1, <2>2, <2>3 DEF ReplayInv
<1> QED
  BY <1>4, <1>5

LEMMA ReplayAnswered ==
    ASSUME LoopInv, ReplayInv, NEW r, Answered(r)
    PROVE  ReplayInv'
<1>1. /\ eval.pc \in {"call", "parked"} /\ eval'.pc = "vm" /\ UNCHANGED oplog
      /\ eval'.calls = eval.calls /\ eval'.ops = eval.ops /\ eval'.no = eval.no
      /\ eval'.live = eval.live /\ eval'.res = Append(eval.res, r)
      /\ eval'.feed = IF eval.feed = <<>> THEN <<>> ELSE Tail(eval.feed)
  BY ResumeFields DEF Answered
<1>2. ASSUME ~eval.live
      PROVE  FollowsRow /\ eval.pc = "call" /\ eval.feed # <<>>
  BY <1>1, <1>2 DEF ReplayInv, FollowsRow
<1>3. \A f \in fired' : f.live
  <2>1. CASE fired' = fired
    BY <2>1 DEF ReplayInv
  <2>2. CASE fired' # fired
    <3>1. eval.live
      BY <1>2, <2>2 DEF Answered, Feeding
    <3>2. Sent(NoKey).live /\ Sent(FenceName).live
      BY <3>1 DEF Sent
    <3> QED
      BY <3>2 DEF ReplayInv, Answered
  <2> QED
    BY <2>1, <2>2
<1>4. ~eval.live => FollowsRow'
  <2> SUFFICES ASSUME ~eval.live PROVE FollowsRow'
    OBVIOUS
  <2>1. Len(eval'.res) + Len(eval'.feed) = Len(eval.res) + Len(eval.feed)
    <3>1. r \in ResultType /\ eval.res \in Seq(ResultType) /\ eval.feed \in Seq(ResultType)
      BY EvalFields DEF Answered, LoopInv
    <3>2. Len(Append(eval.res, r)) = Len(eval.res) + 1 /\ Len(eval.res) \in Nat
      BY <3>1
    <3>3. Len(Tail(eval.feed)) = Len(eval.feed) - 1 /\ Len(eval.feed) \in Nat
      BY <1>2, <3>1
    <3>4. eval'.feed = Tail(eval.feed) /\ eval'.res = Append(eval.res, r)
      BY <1>1, <1>2
    <3>5. Len(eval'.res) = Len(eval.res) + 1 /\ Len(eval'.feed) = Len(eval.feed) - 1
      BY <3>2, <3>3, <3>4, Zenon
    <3>6. \A x, y \in Nat : (x + 1) + (y - 1) = x + y
      OBVIOUS
    <3> QED
      BY <3>2, <3>3, <3>5, <3>6, Zenon
  <2> QED
    BY <1>1, <1>2, <2>1 DEF FollowsRow
<1> QED
  BY <1>1, <1>3, <1>4 DEF ReplayInv

(* No cell runs after the step, and what was committed is complete.        *)
LEMMA ReplayEnds ==
    ASSUME ReplayInv, eval' = Idle, UNCHANGED fired,
           \A i \in DOMAIN oplog' : RowComplete(oplog'[i])
    PROVE  ReplayInv'
<1>1. eval'.ops = Charged(eval'.calls, 0) /\ Len(eval'.calls) = 0 /\ eval'.pc = "idle"
  BY IdleFields, ChargedEmpty
<1> QED
  BY <1>1 DEF ReplayInv

LEMMA CommitComplete ==
    ASSUME LoopInv, ReplayInv, "clamp" \notin Faults,
           NEW commits \in BOOLEAN, NEW fits \in BOOLEAN, CellEnds(commits, fits)
    PROVE  \A i \in DOMAIN oplog' : RowComplete(oplog'[i])
<1>1. \A i \in DOMAIN oplog : RowComplete(oplog[i])
  BY DEF ReplayInv
<1>2. CASE ~commits
  BY <1>1, <1>2 DEF CellEnds
<1>3. CASE commits
  <2> DEFINE row == [src |-> eval.src, calls |-> eval.calls, res |-> eval.res]
  <2>1. oplog' = Append(oplog, row)
    BY <1>3 DEF CellEnds
  <2>2. RowComplete(row)
    <3>1. CASE eval.pc = "vm"
      BY <3>1 DEF RowComplete, LoopInv, PcInv
    <3>2. CASE eval.pc = "over"
      <4>1. Len(eval.calls) = Len(eval.res) + 1 /\ ~WithinBudget(Charged(eval.calls, Len(eval.res)))
        BY <3>2 DEF ReplayInv, LoopInv, PcInv
      <4> QED
        BY <4>1 DEF RowComplete
    <3> QED
      BY <3>1, <3>2 DEF CellEnds
  <2> HIDE DEF row
  <2>3. DOMAIN oplog' = DOMAIN oplog \cup {Len(oplog) + 1}
    BY <2>1 DEF LoopInv, TypeInv
  <2>4. /\ \A i \in DOMAIN oplog : oplog'[i] = oplog[i]
        /\ oplog'[Len(oplog) + 1] = row
    BY <2>1 DEF LoopInv, TypeInv
  <2> QED
    BY <1>1, <2>2, <2>3, <2>4
<1> QED
  BY <1>2, <1>3

LEMMA ReplayStep ==
    ASSUME "clamp" \notin Faults
    PROVE  LoopInv /\ ReplayInv /\ [Next]_vars => ReplayInv'
<1> SUFFICES ASSUME LoopInv, ReplayInv, [Next]_vars PROVE ReplayInv'
  OBVIOUS
<1>1. ASSUME NEW s \in Sources, EvalBegin(s) PROVE ReplayInv'
  <2>1. UNCHANGED <<oplog, fired>>
    BY <1>1 DEF EvalBegin
  <2>2. eval'.pc = "vm" /\ eval'.live /\ eval'.calls = <<>> /\ eval'.ops = [c \in Classes |-> 0]
    BY <1>1, BeginFields
  <2>3. eval'.ops = Charged(eval'.calls, 0) /\ Len(eval'.calls) = 0
    BY <2>2, ChargedEmpty
  <2> QED
    BY <2>1, <2>2, <2>3 DEF ReplayInv
<1>2. ASSUME NEW k \in AllKinds, VmCalls(k) PROVE ReplayInv'
  BY <1>2, ReplayCalls
<1>3. ASSUME NEW k \in AllKinds, ClientHostCall(k) PROVE ReplayInv'
  <2>1. UNCHANGED <<oplog, fired>> /\ eval.pc = "call"
    BY <1>3 DEF ClientHostCall, Serving
  <2>2. /\ eval'.pc = "parked" /\ eval'.live /\ eval'.calls = eval.calls /\ eval'.ops = eval.ops
    BY <1>3, ParkFields
  <2> QED
    BY <2>1, <2>2 DEF ReplayInv
<1>4. ASSUME NEW r, Answered(r) PROVE ReplayInv'
  BY <1>4, ReplayAnswered
<1>5. ASSUME NEW id \in Nat, id \notin bridge.pending, ResolveHostCall(id) PROVE ReplayInv'
  <2>1. UNCHANGED <<eval, oplog, fired>>
    BY <1>5 DEF ResolveHostCall
  <2> QED
    BY <2>1 DEF ReplayInv, FollowsRow
<1>6. ASSUME NEW commits \in BOOLEAN, NEW fits \in BOOLEAN, CellEnds(commits, fits) PROVE ReplayInv'
  <2>1. eval' = Idle /\ UNCHANGED fired
    BY <1>6 DEF CellEnds
  <2> QED
    BY <1>6, <2>1, CommitComplete, ReplayEnds
<1>7. CASE Evict \/ ReplayedCellEnds
  <2>1. eval' = Idle /\ UNCHANGED <<oplog, fired>>
    BY <1>7 DEF Evict, ReplayedCellEnds
  <2> QED
    BY <2>1, ReplayEnds DEF ReplayInv
<1>8. CASE RestoreImage
  <2>1. UNCHANGED <<eval, oplog, fired>>
    BY <1>8 DEF RestoreImage
  <2> QED
    BY <2>1 DEF ReplayInv, FollowsRow
<1>9. CASE ReplayCell
  <2>1. UNCHANGED <<oplog, fired>>
    BY <1>9 DEF ReplayCell
  <2>2. oplog[eval'.no] \in Row /\ eval'.no \in DOMAIN oplog
    BY <1>9, ReplayFields DEF LoopInv, TypeInv
  <2>3. Len(oplog[eval'.no].res) \in Nat /\ Len(oplog[eval'.no].calls) \in Nat
    BY <2>2 DEF Row
  <2>4. /\ eval'.pc = "vm" /\ Len(eval'.calls) = 0 /\ Len(eval'.res) = 0
        /\ eval'.feed = oplog[eval'.no].res /\ eval'.ops = Charged(eval'.calls, 0)
    BY <1>9, ReplayFields, ChargedEmpty
  <2>5. FollowsRow'
    BY <2>1, <2>2, <2>3, <2>4 DEF FollowsRow
  <2> QED
    BY <2>1, <2>4, <2>5 DEF ReplayInv
<1>10. CASE Reset
  <2>1. eval' = Idle /\ UNCHANGED fired /\ oplog' = <<>>
    BY <1>10 DEF Reset, LoopInv, PcInv
  <2> QED
    BY <2>1, ReplayEnds
<1>11. CASE Finished \/ UNCHANGED vars
  <2>1. UNCHANGED <<eval, oplog, fired>>
    BY <1>11 DEF Finished, vars
  <2> QED
    BY <2>1 DEF ReplayInv, FollowsRow
<1> QED
  BY <1>1, <1>2, <1>3, <1>4, <1>5, <1>6, <1>7, <1>8, <1>9, <1>10, <1>11, StepCases

(* Where the journal keeps every cell's results ("clamp" is the fault that *)
(* replaces them by []), a replay sends nothing out: a replayed cell is    *)
(* fed until it has made its last call, also one that ended over a budget, *)
(* since it is charged again what it was charged before (replayJournal,    *)
(* evalCode).                                                              *)
THEOREM ReplayAlwaysSilent ==
    ASSUME "clamp" \notin Faults
    PROVE  Spec => []ReplayIsSilent
<1>1. Init => ReplayInv
  <2> SUFFICES ASSUME Init PROVE ReplayInv
    OBVIOUS
  <2>1. /\ eval.ops = Charged(eval.calls, 0) /\ Len(eval.calls) = 0 /\ eval.pc = "idle"
        /\ oplog = <<>> /\ fired = {}
    BY IdleFields, ChargedEmpty DEF Init
  <2> QED
    BY <2>1 DEF ReplayInv
<1>2. ReplayInv => ReplayIsSilent
  BY DEF ReplayInv, ReplayIsSilent
<1> QED
  BY <1>1, <1>2, ReplayStep, LoopInvariant, PTL DEF Spec

-----------------------------------------------------------------------------
(* Streams.  The journal as a function from the place of a result (the     *)
(* number of its cell, the ordinal of its call) to the cell's source and   *)
(* the result.                                                             *)

IsOpen(r) == r.kind \in {"open", "upload"}
IsRead(r) == r.kind = "read" /\ r.data # <<>>
Before(p, q) == p[1] < q[1] \/ (p[1] = q[1] /\ p[2] < q[2])

CommittedLog ==
    [p \in {p \in Nat \X Nat : p[1] \in DOMAIN oplog /\ p[2] < Len(oplog[p[1]].res)} |->
        <<oplog[p[1]].src, oplog[p[1]].res[p[2] + 1]>>]

(* What the heap has gone through: all committed cells, or those replayed  *)
(* so far, and the cell that runs.                                         *)
Rows == IF engine.warm THEN Len(oplog) ELSE engine.replayed
Now == Rows + 1
HeapLog ==
    [p \in {p \in Nat \X Nat : \/ p[1] \in 1..Rows /\ p[2] < Len(oplog[p[1]].res)
                               \/ p[1] = Now /\ p[2] < Len(eval.res)} |->
        IF p[1] = Now THEN <<eval.src, eval.res[p[2] + 1]>>
        ELSE <<oplog[p[1]].src, oplog[p[1]].res[p[2] + 1]>>]
NextPlace == <<Now, Len(eval.res)>>

(* H is the heap that the results of a log have built: a handle for every  *)
(* stream opened, in the order of the opens and named after its place, and *)
(* in each the units that the log's reads of it returned, one after the    *)
(* other.                                                                  *)
HandlesOpened(H, L) ==
    /\ \A h \in DOMAIN H :
          /\ H[h].id \in DOMAIN L /\ IsOpen(L[H[h].id][2])
          /\ H[h].of = <<L[H[h].id][1], H[h].id[2]>>
    /\ \A p \in DOMAIN L : IsOpen(L[p][2]) =>
          L[p][2].data = p /\ \E h \in DOMAIN H : H[h].id = p
    /\ \A g, h \in DOMAIN H : g < h => Before(H[g].id, H[h].id)

(* The unit a read returned, and that another read of the handle was before. *)
ReadsOf(L, h, p) == p \in DOMAIN L /\ IsRead(L[p][2]) /\ L[p][2].for = h
UnitNo(L, p) == L[p][2].data[2]

ReadsCounted(H, L) ==
    /\ \A p \in DOMAIN L : IsRead(L[p][2]) =>
          /\ L[p][2].for \in DOMAIN H
          /\ Before(H[L[p][2].for].id, p)
          /\ UnitNo(L, p) \in 1..Len(H[L[p][2].for].got)
          /\ L[p][2].data = <<H[L[p][2].for].of, UnitNo(L, p)>>
          /\ UnitNo(L, p) > 1 =>
                \E q \in DOMAIN L : /\ ReadsOf(L, L[p][2].for, q) /\ Before(q, p)
                                    /\ UnitNo(L, q) = UnitNo(L, p) - 1
          /\ \A q \in DOMAIN L : ReadsOf(L, L[p][2].for, q) /\ Before(q, p)
                => UnitNo(L, q) < UnitNo(L, p)
    /\ \A h \in DOMAIN H : Len(H[h].got) > 0 =>
          \E p \in DOMAIN L : ReadsOf(L, h, p) /\ UnitNo(L, p) = Len(H[h].got)

InOrder(H) == \A h \in DOMAIN H : H[h].got = Units(H[h].of, 0, Len(H[h].got))

BuiltBy(H, L) == HandlesOpened(H, L) /\ ReadsCounted(H, L) /\ InOrder(H)

(* Which cell runs, and how far a replay has come.                         *)
PlaceInv ==
    /\ engine.warm => engine.replayed = 0
    /\ engine.replayed <= Len(oplog)
    /\ eval.pc # "idle" => eval.no = Now /\ eval.live = engine.warm
    /\ eval.live => eval.feed = <<>>
    /\ eval.pc = "parked" => eval.live /\ Last(eval.calls) \in {"client", "ext"}
    /\ eval.pc # "idle" /\ ~eval.live =>
          /\ eval.src = oplog[eval.no].src
          /\ \A j \in 1..Len(eval.res) : eval.res[j] = oplog[eval.no].res[j]
          /\ \A j \in 1..Len(eval.feed) :
                eval.feed[j] = oplog[eval.no].res[Len(eval.res) + j]

(* Every call that has a result was within the budgets when it was made.   *)
BudgetInv ==
    /\ \A i \in DOMAIN oplog : \A j \in 1..Len(oplog[i].res) :
          WithinBudget(Charged(oplog[i].calls, j - 1))
    /\ \A j \in 1..(IF eval.pc = "over" THEN Len(eval.res) ELSE Len(eval.calls)) :
          WithinBudget(Charged(eval.calls, j - 1))

(* The registry: what a stream has read is what its handle has received    *)
(* and the leftover that is pending.  It is empty until the kernel is up.  *)
RegistryInv ==
    /\ ~engine.warm => DOMAIN streams = {}
    /\ \A h \in DOMAIN heap : heap[h].id \in DOMAIN streams =>
          LET st == streams[heap[h].id] IN
          /\ st.of = heap[h].of
          /\ st.read = Len(heap[h].got) + Len(st.pending)
          /\ st.pending = Units(st.of, Len(heap[h].got), Len(st.pending))

(* The heap and the saved heap are what their logs have built, and a       *)
(* replay makes the saved handles anew.                                    *)
Built == BuiltBy(saved, CommittedLog) /\ BuiltBy(heap, HeapLog)
SameIds(H, S) == \A h \in DOMAIN H : h \in DOMAIN S /\ H[h].id = S[h].id
Mirrors == ~engine.warm => SameIds(heap, saved)

Kept == PlaceInv /\ BudgetInv
StreamInv == Kept /\ RegistryInv /\ Built /\ Mirrors

Places == Nat \X Nat
Entry == Sources \X ResultType
LogType(L) == DOMAIN L \subseteq Places /\ \A p \in DOMAIN L : L[p] \in Entry

(* M is L with one entry more, after all the others.                       *)
Extends(M, L, at, e) ==
    /\ at \in Places /\ e \in Entry
    /\ DOMAIN M = DOMAIN L \cup {at} /\ M[at] = e
    /\ \A p \in DOMAIN L : M[p] = L[p] /\ Before(p, at)

LEMMA BeforeOrder ==
    /\ \A p \in Places : ~Before(p, p)
    /\ \A p, q, r \in Places : Before(p, q) /\ Before(q, r) => Before(p, r)
    /\ \A p, q \in Places : p = q \/ Before(p, q) \/ Before(q, p)
    /\ \A p, q \in Places : Before(p, q) => ~Before(q, p)
BY DEF Before, Places

LEMMA ExtendsTyped ==
    ASSUME NEW L, NEW M, NEW at, NEW e, LogType(L), Extends(M, L, at, e)
    PROVE  LogType(M) /\ at \notin DOMAIN L
<1>1. at \notin DOMAIN L
  BY BeforeOrder DEF Extends, LogType
<1> QED
  BY <1>1 DEF Extends, LogType

LEMMA UnitsEmpty == \A of : Units(of, 0, 0) = <<>>
BY DEF Units

LEMMA UnitsGrow ==
    ASSUME NEW of, NEW n \in Nat, NEW got, got = Units(of, 0, n)
    PROVE  /\ Append(got, <<of, n + 1>>) = Units(of, 0, n + 1)
           /\ Len(got) = n /\ Len(Append(got, <<of, n + 1>>)) = n + 1
<1>1. got = [i \in 1..n |-> <<of, 0 + i>>]
  BY DEF Units
<1> DEFINE S == {<<of, 0 + i>> : i \in 1..n}
<1>2. got \in Seq(S) /\ Len(got) = n
  <2>1. \A i \in 1..n : <<of, 0 + i>> \in S
    OBVIOUS
  <2> HIDE DEF S
  <2>2. got \in [1..n -> S]
    BY <1>1, <2>1
  <2> QED
    BY <2>2
<1>3. Append(got, <<of, n + 1>>) = [i \in 1..(n + 1) |-> IF i = n + 1 THEN <<of, n + 1>> ELSE got[i]]
  BY <1>2
<1>4. Append(got, <<of, n + 1>>) = [i \in 1..(n + 1) |-> <<of, 0 + i>>]
  <2>1. \A i \in 1..(n + 1) : (IF i = n + 1 THEN <<of, n + 1>> ELSE got[i]) = <<of, 0 + i>>
    BY <1>1
  <2> QED
    BY <1>3, <2>1
<1> QED
  BY <1>2, <1>4 DEF Units

(* A result that is neither an open nor a read changes no handle.          *)
LEMMA BuiltOther ==
    ASSUME NEW H \in Seq(Handle), NEW L, NEW M, NEW at, NEW e,
           LogType(L), Extends(M, L, at, e), BuiltBy(H, L), ~IsOpen(e[2]), ~IsRead(e[2])
    PROVE  BuiltBy(H, M)
<1>1. at \notin DOMAIN L
  BY ExtendsTyped
<1>2. HandlesOpened(H, M)
  BY <1>1 DEF BuiltBy, HandlesOpened, Extends
<1>3. \A h, p : ReadsOf(M, h, p) <=> ReadsOf(L, h, p)
  BY <1>1 DEF ReadsOf, Extends
<1>4. \A p \in DOMAIN L : M[p] = L[p] /\ UnitNo(M, p) = UnitNo(L, p)
  BY DEF Extends, UnitNo
<1>5. \A p \in DOMAIN M : IsRead(M[p][2]) => p \in DOMAIN L
  BY DEF Extends
<1>6. \A h, p : ReadsOf(M, h, p) => p \in DOMAIN L
  BY <1>3 DEF ReadsOf
<1>7. ReadsCounted(H, M)
  <2>1. DOMAIN L \subseteq DOMAIN M
    BY DEF Extends
  <2>2. ASSUME NEW p \in DOMAIN M, IsRead(M[p][2])
        PROVE  /\ M[p][2].for \in DOMAIN H
               /\ Before(H[M[p][2].for].id, p)
               /\ UnitNo(M, p) \in 1..Len(H[M[p][2].for].got)
               /\ M[p][2].data = <<H[M[p][2].for].of, UnitNo(M, p)>>
               /\ UnitNo(M, p) > 1 =>
                    \E q \in DOMAIN M : /\ ReadsOf(M, M[p][2].for, q) /\ Before(q, p)
                                        /\ UnitNo(M, q) = UnitNo(M, p) - 1
               /\ \A q \in DOMAIN M : ReadsOf(M, M[p][2].for, q) /\ Before(q, p)
                    => UnitNo(M, q) < UnitNo(M, p)
    <3>1. p \in DOMAIN L /\ M[p] = L[p] /\ UnitNo(M, p) = UnitNo(L, p)
      BY <1>4, <1>5, <2>2
    <3> QED
      BY <1>3, <1>4, <1>6, <2>1, <2>2, <3>1 DEF BuiltBy, ReadsCounted
  <2>3. ASSUME NEW h \in DOMAIN H, Len(H[h].got) > 0
        PROVE  \E p \in DOMAIN M : ReadsOf(M, h, p) /\ UnitNo(M, p) = Len(H[h].got)
    BY <1>3, <1>4, <2>1, <2>3 DEF BuiltBy, ReadsCounted
  <2> QED
    BY <2>2, <2>3 DEF ReadsCounted
<1> QED
  BY <1>2, <1>7 DEF BuiltBy

(* An open adds a handle named after its place.                            *)
LEMMA BuiltOpen ==
    ASSUME NEW H \in Seq(Handle), NEW L, NEW M, NEW at, NEW e, NEW k \in Handle,
           LogType(L), Extends(M, L, at, e), BuiltBy(H, L), IsOpen(e[2]), e[2].data = at,
           k.id = at, k.of = <<e[1], at[2]>>, k.got = <<>>
    PROVE  BuiltBy(Append(H, k), M)
<1> DEFINE G == Append(H, k)
           n == Len(H) + 1
<1>1. at \notin DOMAIN L /\ M[at] = e /\ at \in DOMAIN M /\ DOMAIN L \subseteq DOMAIN M
  BY ExtendsTyped DEF Extends
<1>2. /\ DOMAIN G = DOMAIN H \cup {n} /\ n \notin DOMAIN H /\ G[n] = k
      /\ \A h \in DOMAIN H : G[h] = H[h] /\ h < n
  OBVIOUS
<1> HIDE DEF G
<1>3. HandlesOpened(G, M)
  <2>1. \A h \in DOMAIN G :
          /\ G[h].id \in DOMAIN M /\ IsOpen(M[G[h].id][2])
          /\ G[h].of = <<M[G[h].id][1], G[h].id[2]>>
    <3>1. CASE TRUE
      <4>1. G[n].id \in DOMAIN M /\ IsOpen(M[G[n].id][2]) /\ G[n].of = <<M[G[n].id][1], G[n].id[2]>>
        BY <1>1, <1>2
      <4>2. ASSUME NEW h \in DOMAIN H
            PROVE  G[h].id \in DOMAIN M /\ IsOpen(M[G[h].id][2]) /\ G[h].of = <<M[G[h].id][1], G[h].id[2]>>
        <5>1. H[h].id \in DOMAIN L /\ IsOpen(L[H[h].id][2]) /\ H[h].of = <<L[H[h].id][1], H[h].id[2]>>
          BY DEF BuiltBy, HandlesOpened
        <5>2. M[H[h].id] = L[H[h].id]
          BY <5>1 DEF Extends
        <5> QED
          BY <1>1, <1>2, <5>1, <5>2
      <4> QED
        BY <1>2, <4>1, <4>2
    <3> QED
      BY <3>1
  <2>2. \A p \in DOMAIN M : IsOpen(M[p][2]) => M[p][2].data = p /\ \E h \in DOMAIN G : G[h].id = p
    <3>1. ASSUME NEW p \in DOMAIN L, IsOpen(M[p][2])
          PROVE  M[p][2].data = p /\ \E h \in DOMAIN G : G[h].id = p
      <4>1. M[p] = L[p]
        BY DEF Extends
      <4>2. L[p][2].data = p /\ \E h \in DOMAIN H : H[h].id = p
        BY <3>1, <4>1 DEF BuiltBy, HandlesOpened
      <4> QED
        BY <1>2, <4>1, <4>2
    <3>2. M[at][2].data = at /\ \E h \in DOMAIN G : G[h].id = at
      BY <1>1, <1>2
    <3> QED
      BY <3>1, <3>2 DEF Extends
  <2>3. \A g, h \in DOMAIN G : g < h => Before(G[g].id, G[h].id)
    <3>1. \A g, h \in DOMAIN H : g < h => Before(H[g].id, H[h].id)
      BY DEF BuiltBy, HandlesOpened
    <3>2. \A g \in DOMAIN H : Before(H[g].id, at)
      BY DEF BuiltBy, HandlesOpened, Extends
    <3>3. \A g \in DOMAIN H : ~(n < g)
      OBVIOUS
    <3> QED
      BY <1>2, <3>1, <3>2, <3>3
  <2> QED
    BY <2>1, <2>2, <2>3 DEF HandlesOpened
<1>4. /\ \A h, p : ReadsOf(M, h, p) <=> ReadsOf(L, h, p)
      /\ \A h, p : ReadsOf(M, h, p) => p \in DOMAIN L
      /\ \A p \in DOMAIN L : M[p] = L[p] /\ UnitNo(M, p) = UnitNo(L, p)
      /\ \A p \in DOMAIN M : IsRead(M[p][2]) => p \in DOMAIN L
  <2>1. ~IsRead(e[2])
    BY DEF IsRead, IsOpen
  <2> QED
    BY <1>1, <2>1 DEF ReadsOf, Extends, UnitNo
<1>5. ReadsCounted(G, M)
  <2>1. ASSUME NEW p \in DOMAIN M, IsRead(M[p][2])
        PROVE  /\ M[p][2].for \in DOMAIN G
               /\ Before(G[M[p][2].for].id, p)
               /\ UnitNo(M, p) \in 1..Len(G[M[p][2].for].got)
               /\ M[p][2].data = <<G[M[p][2].for].of, UnitNo(M, p)>>
               /\ UnitNo(M, p) > 1 =>
                    \E q \in DOMAIN M : /\ ReadsOf(M, M[p][2].for, q) /\ Before(q, p)
                                        /\ UnitNo(M, q) = UnitNo(M, p) - 1
               /\ \A q \in DOMAIN M : ReadsOf(M, M[p][2].for, q) /\ Before(q, p)
                    => UnitNo(M, q) < UnitNo(M, p)
    <3>1. p \in DOMAIN L /\ M[p] = L[p] /\ UnitNo(M, p) = UnitNo(L, p)
      BY <1>4, <2>1
    <3>2. L[p][2].for \in DOMAIN H
      BY <2>1, <3>1 DEF BuiltBy, ReadsCounted
    <3>3. G[M[p][2].for] = H[M[p][2].for] /\ M[p][2].for \in DOMAIN G
      BY <1>2, <3>1, <3>2
    <3> QED
      BY <1>1, <1>4, <2>1, <3>1, <3>3 DEF BuiltBy, ReadsCounted
  <2>2. ASSUME NEW h \in DOMAIN G, Len(G[h].got) > 0
        PROVE  \E p \in DOMAIN M : ReadsOf(M, h, p) /\ UnitNo(M, p) = Len(G[h].got)
    <3>1. h \in DOMAIN H /\ G[h] = H[h]
      BY <1>2, <2>2
    <3> QED
      BY <1>1, <1>4, <2>2, <3>1 DEF BuiltBy, ReadsCounted
  <2> QED
    BY <2>1, <2>2 DEF ReadsCounted
<1>6. InOrder(G)
  <2>1. k.got = Units(k.of, 0, Len(k.got))
    BY UnitsEmpty
  <2> QED
    BY <1>2, <2>1 DEF BuiltBy, InOrder
<1> QED
  BY <1>3, <1>5, <1>6 DEF BuiltBy, G

(* A read of the unit after those the handle has received.                 *)
LEMMA BuiltRead ==
    ASSUME NEW H \in Seq(Handle), NEW L, NEW M, NEW at, NEW e, NEW f \in DOMAIN H,
           LogType(L), Extends(M, L, at, e), BuiltBy(H, L), IsRead(e[2]), e[2].for = f,
           e[2].data = <<H[f].of, Len(H[f].got) + 1>>
    PROVE  BuiltBy([H EXCEPT ![f].got = Append(@, e[2].data)], M)
<1> DEFINE G == [H EXCEPT ![f].got = Append(@, e[2].data)]
           n == Len(H[f].got) + 1
<1>1. at \notin DOMAIN L /\ M[at] = e /\ at \in DOMAIN M /\ DOMAIN L \subseteq DOMAIN M /\ LogType(M)
  BY ExtendsTyped DEF Extends
<1>2. /\ DOMAIN G = DOMAIN H
      /\ \A h \in DOMAIN H : G[h].id = H[h].id /\ G[h].of = H[h].of
      /\ \A h \in DOMAIN H : h # f => G[h].got = H[h].got
      /\ G[f].got = Append(H[f].got, e[2].data)
  <2>1. \A h \in DOMAIN H : H[h] \in Handle
    OBVIOUS
  <2> QED
    BY <2>1 DEF Handle
<1>3. n \in Nat /\ n > 0 /\ Len(H[f].got) \in Nat
  BY DEF Handle
<1> HIDE DEF G
<1>4. G[f].got = Units(H[f].of, 0, n) /\ Len(G[f].got) = n
  <2> DEFINE m == Len(H[f].got)
  <2>1. H[f].got = Units(H[f].of, 0, m)
    BY DEF BuiltBy, InOrder
  <2> HIDE DEF m
  <2>2. m \in Nat /\ n = m + 1 /\ e[2].data = <<H[f].of, m + 1>>
    BY <1>3 DEF m
  <2>3. /\ Append(H[f].got, <<H[f].of, m + 1>>) = Units(H[f].of, 0, m + 1)
        /\ Len(Append(H[f].got, <<H[f].of, m + 1>>)) = m + 1
    <3> DEFINE got == H[f].got
               of == H[f].of
    <3>1. m \in Nat /\ got = Units(of, 0, m)
      BY <2>1, <2>2
    <3> HIDE DEF got, of
    <3>2. /\ Append(got, <<of, m + 1>>) = Units(of, 0, m + 1)
          /\ Len(Append(got, <<of, m + 1>>)) = m + 1
      BY <3>1, UnitsGrow
    <3> QED
      BY <3>2 DEF got, of
  <2> QED
    BY <1>2, <2>2, <2>3
<1>5. HandlesOpened(G, M)
  <2>1. ~IsOpen(e[2])
    BY DEF IsRead, IsOpen
  <2>2. HandlesOpened(H, L) /\ \A p \in DOMAIN M : p # at => p \in DOMAIN L /\ M[p] = L[p]
    BY DEF BuiltBy, Extends
  <2>3. \A h \in DOMAIN G :
          /\ G[h].id \in DOMAIN M /\ IsOpen(M[G[h].id][2])
          /\ G[h].of = <<M[G[h].id][1], G[h].id[2]>>
    <3>1. \A h \in DOMAIN H : M[H[h].id] = L[H[h].id]
      BY <2>2 DEF HandlesOpened, Extends
    <3> QED
      BY <1>1, <1>2, <2>2, <3>1 DEF HandlesOpened
  <2>4. \A p \in DOMAIN M : IsOpen(M[p][2]) => p # at
    BY <1>1, <2>1
  <2>5. \A p \in DOMAIN M : IsOpen(M[p][2]) => M[p][2].data = p /\ \E h \in DOMAIN G : G[h].id = p
    BY <1>2, <2>2, <2>4 DEF HandlesOpened
  <2>6. \A g, h \in DOMAIN G : g < h => Before(G[g].id, G[h].id)
    BY <1>2, <2>2 DEF HandlesOpened
  <2> QED
    BY <2>3, <2>5, <2>6 DEF HandlesOpened
<1>6. /\ \A h, p : p # at => (ReadsOf(M, h, p) <=> ReadsOf(L, h, p))
      /\ \A h : ReadsOf(M, h, at) <=> h = f
      /\ UnitNo(M, at) = n
      /\ \A p \in DOMAIN L : M[p] = L[p] /\ UnitNo(M, p) = UnitNo(L, p) /\ p # at
      /\ \A p \in DOMAIN L : Before(p, at) /\ ~Before(at, p)
  <2>1. \A p \in DOMAIN L : p \in Places /\ at \in Places
    BY DEF LogType, Extends
  <2> QED
    BY <1>1, <2>1, BeforeOrder DEF ReadsOf, Extends, UnitNo
<1>7. \A h, p : ReadsOf(L, h, p) => p \in DOMAIN L /\ h \in DOMAIN H /\ UnitNo(L, p) \in 1..Len(H[h].got)
  BY DEF ReadsOf, BuiltBy, ReadsCounted
<1>8. \A h \in DOMAIN H : Len(H[h].got) \in Nat /\ Len(G[h].got) \in Nat /\ Len(H[h].got) <= Len(G[h].got)
  <2>1. \A h \in DOMAIN H : H[h] \in Handle
    OBVIOUS
  <2>2. \A h \in DOMAIN H : Len(H[h].got) \in Nat
    BY <2>1 DEF Handle
  <2> QED
    BY <1>2, <1>3, <1>4, <2>2
<1>9. ReadsCounted(G, M)
  <2>1. ASSUME NEW p \in DOMAIN L, IsRead(M[p][2])
        PROVE  /\ M[p][2].for \in DOMAIN G
               /\ Before(G[M[p][2].for].id, p)
               /\ UnitNo(M, p) \in 1..Len(G[M[p][2].for].got)
               /\ M[p][2].data = <<G[M[p][2].for].of, UnitNo(M, p)>>
               /\ UnitNo(M, p) > 1 =>
                    \E q \in DOMAIN M : /\ ReadsOf(M, M[p][2].for, q) /\ Before(q, p)
                                        /\ UnitNo(M, q) = UnitNo(M, p) - 1
               /\ \A q \in DOMAIN M : ReadsOf(M, M[p][2].for, q) /\ Before(q, p)
                    => UnitNo(M, q) < UnitNo(M, p)
    <3>1. M[p] = L[p] /\ UnitNo(M, p) = UnitNo(L, p) /\ IsRead(L[p][2])
      BY <1>6, <2>1
    <3> DEFINE g == L[p][2].for
    <3>2. /\ g \in DOMAIN H /\ Before(H[g].id, p) /\ UnitNo(L, p) \in 1..Len(H[g].got)
          /\ L[p][2].data = <<H[g].of, UnitNo(L, p)>>
          /\ UnitNo(L, p) > 1 =>
                \E q \in DOMAIN L : /\ ReadsOf(L, g, q) /\ Before(q, p)
                                    /\ UnitNo(L, q) = UnitNo(L, p) - 1
          /\ \A q \in DOMAIN L : ReadsOf(L, g, q) /\ Before(q, p) => UnitNo(L, q) < UnitNo(L, p)
      BY <3>1 DEF BuiltBy, ReadsCounted
    <3> HIDE DEF g
    <3>3. M[p][2].for = g
      BY <3>1 DEF g
    <3>4. UnitNo(M, p) \in 1..Len(G[g].got)
      BY <1>8, <3>1, <3>2
    <3>5. UnitNo(M, p) > 1 =>
                \E q \in DOMAIN M : /\ ReadsOf(M, g, q) /\ Before(q, p)
                                    /\ UnitNo(M, q) = UnitNo(M, p) - 1
      BY <1>1, <1>6, <3>1, <3>2
    <3>6. \A q \in DOMAIN M : ReadsOf(M, g, q) /\ Before(q, p) => UnitNo(M, q) < UnitNo(M, p)
      <4>1. \A q \in DOMAIN M : Before(q, p) => q \in DOMAIN L
        BY <1>6 DEF Extends
      <4> QED
        BY <1>6, <3>1, <3>2, <4>1
    <3> QED
      BY <1>2, <3>1, <3>2, <3>3, <3>4, <3>5, <3>6
  <2>2. /\ M[at][2].for \in DOMAIN G
        /\ Before(G[M[at][2].for].id, at)
        /\ UnitNo(M, at) \in 1..Len(G[M[at][2].for].got)
        /\ M[at][2].data = <<G[M[at][2].for].of, UnitNo(M, at)>>
        /\ UnitNo(M, at) > 1 =>
             \E q \in DOMAIN M : /\ ReadsOf(M, M[at][2].for, q) /\ Before(q, at)
                                 /\ UnitNo(M, q) = UnitNo(M, at) - 1
        /\ \A q \in DOMAIN M : ReadsOf(M, M[at][2].for, q) /\ Before(q, at)
             => UnitNo(M, q) < UnitNo(M, at)
    <3>1. M[at][2].for = f /\ M[at][2].data = <<G[f].of, n>> /\ UnitNo(M, at) = n
      BY <1>1, <1>2, <1>6
    <3>2. Before(G[f].id, at)
      BY <1>2, <1>6 DEF BuiltBy, HandlesOpened
    <3>3. n > 1 => \E q \in DOMAIN M : ReadsOf(M, f, q) /\ Before(q, at) /\ UnitNo(M, q) = n - 1
      <4>1. n > 1 => \E q \in DOMAIN L : ReadsOf(L, f, q) /\ UnitNo(L, q) = n - 1
        BY <1>3 DEF BuiltBy, ReadsCounted
      <4> QED
        BY <1>1, <1>6, <4>1
    <3>4. \A q \in DOMAIN M : ReadsOf(M, f, q) /\ Before(q, at) => UnitNo(M, q) < n
      <4>1. \A q \in DOMAIN M : Before(q, at) => q \in DOMAIN L
        <5>1. ~Before(at, at)
          BY BeforeOrder DEF Extends
        <5> QED
          BY <5>1 DEF Extends
      <4>2. \A q \in DOMAIN L : ReadsOf(M, f, q) => UnitNo(M, q) = UnitNo(L, q) /\ UnitNo(L, q) \in 1..Len(H[f].got)
        BY <1>6, <1>7
      <4> QED
        BY <1>3, <4>1, <4>2
    <3> QED
      BY <1>2, <1>3, <1>4, <3>1, <3>2, <3>3, <3>4
  <2>3. ASSUME NEW h \in DOMAIN G, Len(G[h].got) > 0
        PROVE  \E p \in DOMAIN M : ReadsOf(M, h, p) /\ UnitNo(M, p) = Len(G[h].got)
    <3>1. CASE h = f
      BY <1>1, <1>4, <1>6, <3>1
    <3>2. CASE h # f
      <4>1. G[h].got = H[h].got /\ h \in DOMAIN H
        BY <1>2, <3>2
      <4>2. PICK p \in DOMAIN L : ReadsOf(L, h, p) /\ UnitNo(L, p) = Len(H[h].got)
        BY <2>3, <4>1 DEF BuiltBy, ReadsCounted
      <4> QED
        BY <1>1, <1>6, <4>1, <4>2
    <3> QED
      BY <3>1, <3>2
  <2>4. \A p \in DOMAIN M : p = at \/ p \in DOMAIN L
    BY DEF Extends
  <2> QED
    BY <2>1, <2>2, <2>3, <2>4 DEF ReadsCounted
<1>10. InOrder(G)
  BY <1>2, <1>4 DEF BuiltBy, InOrder
<1> QED
  BY <1>5, <1>9, <1>10 DEF BuiltBy, G

(* N is the part of C before the place at.                                 *)
UpTo(N, C, at) ==
    /\ \A p \in DOMAIN N : p \in DOMAIN C /\ N[p] = C[p] /\ Before(p, at)
    /\ \A p \in DOMAIN C : Before(p, at) => p \in DOMAIN N

(* The replay of a log C that has come to the place at: the result fed     *)
(* next opens the handle, or reads the unit, that it did the first time.   *)
LEMMA ReplayedResult ==
    ASSUME NEW H \in Seq(Handle), NEW S \in Seq(Handle), NEW N, NEW C, NEW at \in DOMAIN C,
           LogType(C), BuiltBy(S, C), BuiltBy(H, N), UpTo(N, C, at), SameIds(H, S)
    PROVE  /\ IsOpen(C[at][2]) =>
                /\ C[at][2].data = at
                /\ Len(H) + 1 \in DOMAIN S /\ S[Len(H) + 1].id = at
           /\ IsRead(C[at][2]) =>
                /\ C[at][2].for \in DOMAIN H
                /\ C[at][2].data = <<H[C[at][2].for].of, Len(H[C[at][2].for].got) + 1>>
<1>0. /\ \A p \in DOMAIN N : p \in DOMAIN C /\ N[p] = C[p] /\ Before(p, at)
      /\ \A p \in DOMAIN C : Before(p, at) => p \in DOMAIN N
      /\ \A h \in DOMAIN H : h \in DOMAIN S /\ H[h].id = S[h].id
  BY DEF UpTo, SameIds
<1> USE <1>0
<1>1. \A p \in DOMAIN C : p \in Places
  BY DEF LogType
<1>2. /\ \A h \in DOMAIN S : /\ S[h].id \in DOMAIN C /\ IsOpen(C[S[h].id][2])
                             /\ S[h].of = <<C[S[h].id][1], S[h].id[2]>>
      /\ \A p \in DOMAIN C : IsOpen(C[p][2]) =>
            C[p][2].data = p /\ \E h \in DOMAIN S : S[h].id = p
      /\ \A g, h \in DOMAIN S : g < h => Before(S[g].id, S[h].id)
  BY DEF BuiltBy, HandlesOpened
<1>3. /\ \A h \in DOMAIN H : /\ H[h].id \in DOMAIN N
                             /\ H[h].of = <<N[H[h].id][1], H[h].id[2]>>
      /\ \A p \in DOMAIN N : IsOpen(N[p][2]) => \E h \in DOMAIN H : H[h].id = p
  BY DEF BuiltBy, HandlesOpened
<1>4. \A g, h \in DOMAIN S : S[g].id = S[h].id => g = h
  <2> SUFFICES ASSUME NEW g \in DOMAIN S, NEW h \in DOMAIN S, S[g].id = S[h].id, g # h PROVE FALSE
    OBVIOUS
  <2>1. g < h \/ h < g
    OBVIOUS
  <2>2. Before(S[g].id, S[g].id)
    BY <1>2, <2>1
  <2>3. S[g].id \in Places
    BY <1>1, <1>2
  <2> QED
    BY <2>2, <2>3, BeforeOrder
(* A handle that was opened before this place is there again.              *)
<1>5. ASSUME NEW m \in DOMAIN S, Before(S[m].id, at) PROVE m \in DOMAIN H
  <2>1. S[m].id \in DOMAIN N /\ IsOpen(N[S[m].id][2])
    BY <1>2, <1>5
  <2>2. PICK h \in DOMAIN H : H[h].id = S[m].id
    BY <1>3, <2>1
  <2>3. h = m
    BY <1>4, <2>2
  <2> QED
    BY <2>3
<1>6. ASSUME IsOpen(C[at][2])
      PROVE  C[at][2].data = at /\ Len(H) + 1 \in DOMAIN S /\ S[Len(H) + 1].id = at
  <2>1. C[at][2].data = at
    BY <1>2, <1>6
  <2>2. PICK m \in DOMAIN S : S[m].id = at
    BY <1>2, <1>6
  <2>3. m \notin DOMAIN H
    <3>1. SUFFICES ASSUME m \in DOMAIN H PROVE FALSE
      OBVIOUS
    <3>2. Before(at, at)
      BY <1>3, <2>2, <3>1
    <3> QED
      BY <1>1, <3>2, BeforeOrder
  <2>4. m >= Len(H) + 1 /\ Len(H) + 1 \in DOMAIN S /\ Len(H) + 1 \notin DOMAIN H
    BY <2>3
  <2>5. m = Len(H) + 1
    <3>1. SUFFICES ASSUME Len(H) + 1 < m PROVE FALSE
      BY <2>4
    <3>2. Before(S[Len(H) + 1].id, at)
      BY <1>2, <2>2, <2>4, <3>1
    <3> QED
      BY <1>5, <2>4, <3>2
  <2> QED
    BY <2>1, <2>2, <2>4, <2>5
<1>7. ASSUME IsRead(C[at][2])
      PROVE  LET f == C[at][2].for IN
             f \in DOMAIN H /\ C[at][2].data = <<H[f].of, Len(H[f].got) + 1>>
  <2> DEFINE f == C[at][2].for
             n == UnitNo(C, at)
             m == Len(H[f].got)
  <2>1. /\ f \in DOMAIN S /\ Before(S[f].id, at) /\ n \in 1..Len(S[f].got)
        /\ C[at][2].data = <<S[f].of, n>>
        /\ n > 1 => \E q \in DOMAIN C : ReadsOf(C, f, q) /\ Before(q, at) /\ UnitNo(C, q) = n - 1
        /\ \A q \in DOMAIN C : ReadsOf(C, f, q) /\ Before(q, at) => UnitNo(C, q) < n
    BY <1>7 DEF BuiltBy, ReadsCounted
  <2>2. f \in DOMAIN H
    BY <1>5, <2>1
  <2>3. H[f].of = S[f].of
    <3>1. \A h \in DOMAIN H : H[h].of = S[h].of
      <4> SUFFICES ASSUME NEW h \in DOMAIN H PROVE H[h].of = S[h].of
        OBVIOUS
      <4>1. H[h].id = S[h].id /\ N[H[h].id] = C[H[h].id] /\ h \in DOMAIN S
        BY <1>3
      <4>2. H[h].of = <<C[S[h].id][1], S[h].id[2]>>
        BY <1>3, <4>1
      <4> QED
        BY <1>2, <4>1, <4>2
    <3> QED
      BY <2>2, <3>1
  <2>4. m \in Nat
    <3>1. \A h \in DOMAIN H : H[h] \in Handle
      OBVIOUS
    <3>2. \A h \in DOMAIN H : Len(H[h].got) \in Nat
      BY <3>1 DEF Handle
    <3> QED
      BY <2>2, <3>2
  <2>5. \A q \in DOMAIN C : ReadsOf(C, f, q) /\ Before(q, at) => UnitNo(C, q) \in 1..m
    <3> SUFFICES ASSUME NEW q \in DOMAIN C, ReadsOf(C, f, q), Before(q, at) PROVE UnitNo(C, q) \in 1..m
      OBVIOUS
    <3>1. q \in DOMAIN N /\ N[q] = C[q]
      OBVIOUS
    <3>2. IsRead(N[q][2]) /\ N[q][2].for = f /\ UnitNo(N, q) = UnitNo(C, q)
      BY <3>1 DEF ReadsOf, UnitNo
    <3> QED
      BY <3>1, <3>2 DEF BuiltBy, ReadsCounted
  <2>6. m > 0 => m < n
    <3> SUFFICES ASSUME m > 0 PROVE m < n
      OBVIOUS
    <3>1. PICK p \in DOMAIN N : ReadsOf(N, f, p) /\ UnitNo(N, p) = m
      BY <2>2 DEF BuiltBy, ReadsCounted
    <3>2. p \in DOMAIN C /\ Before(p, at) /\ ReadsOf(C, f, p) /\ UnitNo(C, p) = m
      BY <3>1 DEF ReadsOf, UnitNo
    <3> QED
      BY <2>1, <3>2
  <2>7. n \in Nat /\ n >= 1
    BY <2>1
  <2>8. n = m + 1
    <3>1. n > 1 => n - 1 \in 1..m
      BY <2>1, <2>5
    <3> HIDE DEF n, m
    <3> QED
      BY <2>4, <2>6, <2>7, <3>1
  <2> QED
    BY <2>1, <2>2, <2>3, <2>8
<1> QED
  BY <1>6, <1>7

-----------------------------------------------------------------------------
(* The logs of a state.                                                    *)

LEMMA LogsTyped ==
    ASSUME LoopInv, PlaceInv
    PROVE  /\ LogType(CommittedLog) /\ LogType(HeapLog)
           /\ Rows \in Nat /\ Rows <= Len(oplog) /\ NextPlace \in Places
           /\ \A p \in DOMAIN HeapLog : Before(p, NextPlace)
<1>1. /\ oplog \in Seq(Row) /\ Len(oplog) \in Nat /\ engine.replayed \in Nat
      /\ eval.res \in Seq(ResultType) /\ Len(eval.res) \in Nat
  BY EvalFields DEF LoopInv, TypeInv
<1>2. Rows \in Nat /\ Rows <= Len(oplog)
  BY <1>1 DEF Rows, PlaceInv
<1>3. \A i \in DOMAIN oplog : /\ oplog[i].src \in Sources /\ oplog[i].res \in Seq(ResultType)
                              /\ Len(oplog[i].res) \in Nat
  <2>1. \A i \in DOMAIN oplog : oplog[i] \in Row
    BY <1>1
  <2> QED
    BY <2>1 DEF Row
<1>4. ASSUME NEW q \in Seq(ResultType), NEW j \in Nat, j < Len(q) PROVE q[j + 1] \in ResultType
  <2> HIDE DEF ResultType
  <2> QED BY <1>4
<1>5. LogType(CommittedLog)
  <2>1. ASSUME NEW p \in DOMAIN CommittedLog PROVE p \in Places /\ CommittedLog[p] \in Entry
    <3>1. p \in Nat \X Nat /\ p[1] \in DOMAIN oplog /\ p[2] < Len(oplog[p[1]].res)
      BY DEF CommittedLog
    <3>2. CommittedLog[p] = <<oplog[p[1]].src, oplog[p[1]].res[p[2] + 1]>>
      BY <3>1 DEF CommittedLog
    <3>3. oplog[p[1]].res[p[2] + 1] \in ResultType /\ oplog[p[1]].src \in Sources
      BY <1>3, <1>4, <3>1
    <3> QED
      BY <3>1, <3>2, <3>3 DEF Places, Entry
  <2> QED
    BY <2>1 DEF LogType
<1>6. eval.res # <<>> => eval.src \in Sources
  BY <1>1, IdleFields DEF LoopInv, PcInv
<1>7. ASSUME NEW p \in DOMAIN HeapLog
      PROVE  p \in Places /\ HeapLog[p] \in Entry /\ Before(p, NextPlace)
  <2>1. /\ p \in Nat \X Nat
        /\ \/ p[1] \in 1..Rows /\ p[2] < Len(oplog[p[1]].res)
           \/ p[1] = Now /\ p[2] < Len(eval.res)
    BY <1>7 DEF HeapLog
  <2>2. HeapLog[p] = IF p[1] = Now THEN <<eval.src, eval.res[p[2] + 1]>>
                     ELSE <<oplog[p[1]].src, oplog[p[1]].res[p[2] + 1]>>
    BY <2>1 DEF HeapLog
  <2>3. CASE p[1] = Now /\ p[2] < Len(eval.res)
    <3>1. eval.res[p[2] + 1] \in ResultType /\ eval.src \in Sources
      BY <1>1, <1>4, <1>6, <2>1, <2>3
    <3>2. Before(p, NextPlace)
      BY <2>3 DEF Before, NextPlace
    <3> QED
      BY <2>1, <2>2, <2>3, <3>1, <3>2 DEF Places, Entry
  <2>4. CASE p[1] \in 1..Rows /\ p[2] < Len(oplog[p[1]].res)
    <3>1. p[1] \in DOMAIN oplog /\ p[1] # Now /\ p[1] < Now
      BY <1>1, <1>2, <2>4 DEF Now
    <3>2. oplog[p[1]].res[p[2] + 1] \in ResultType /\ oplog[p[1]].src \in Sources
      BY <1>3, <1>4, <2>1, <2>4, <3>1
    <3>3. Before(p, NextPlace)
      BY <3>1 DEF Before, NextPlace
    <3> QED
      BY <2>1, <2>2, <3>1, <3>2, <3>3 DEF Places, Entry
  <2> QED
    BY <2>1, <2>3, <2>4
<1>8. NextPlace \in Places
  BY <1>1, <1>2 DEF NextPlace, Places, Now
<1> QED
  BY <1>2, <1>5, <1>7, <1>8 DEF LogType

(* A result that is recorded is the next entry.                            *)
LEMMA ResumeExtends ==
    ASSUME LoopInv, PlaceInv, NEW r, Answered(r)
    PROVE  Extends(HeapLog', HeapLog, NextPlace, <<eval.src, r>>)
<1>1. /\ UNCHANGED <<engine, oplog>> /\ eval.pc \in {"call", "parked"} /\ r \in ResultType
      /\ eval'.src = eval.src /\ eval'.res = Append(eval.res, r)
  BY ResumeFields DEF Answered
<1>2. Rows' = Rows /\ Now' = Now /\ Rows \in Nat /\ Now = Rows + 1
  BY <1>1, LogsTyped DEF Rows, Now
<1>3. eval.res \in Seq(ResultType) /\ Len(eval.res) \in Nat
  BY EvalFields DEF LoopInv
<1> DEFINE n == Len(eval.res)
<1>4. /\ Len(eval'.res) = n + 1 /\ eval'.res[n + 1] = r
      /\ \A j \in Nat : j < n => eval'.res[j + 1] = eval.res[j + 1]
  <2> HIDE DEF ResultType
  <2> QED BY <1>1, <1>3
<1>5. ASSUME NEW p \in Nat \X Nat
      PROVE  p \in DOMAIN HeapLog' <=> p \in DOMAIN HeapLog \/ p = NextPlace
  <2>1. p \in DOMAIN HeapLog' <=> \/ p[1] \in 1..Rows /\ p[2] < Len(oplog[p[1]].res)
                                  \/ p[1] = Now /\ p[2] < n + 1
    BY <1>1, <1>2, <1>4 DEF HeapLog
  <2>2. p \in DOMAIN HeapLog <=> \/ p[1] \in 1..Rows /\ p[2] < Len(oplog[p[1]].res)
                                 \/ p[1] = Now /\ p[2] < n
    BY DEF HeapLog
  <2>3. p = NextPlace <=> p[1] = Now /\ p[2] = n
    BY DEF NextPlace
  <2>4. p[2] < n + 1 <=> p[2] < n \/ p[2] = n
    BY <1>3
  <2> QED
    BY <2>1, <2>2, <2>3, <2>4
<1>6. NextPlace \in DOMAIN HeapLog' /\ DOMAIN HeapLog' = DOMAIN HeapLog \cup {NextPlace}
  <2>1. DOMAIN HeapLog \subseteq Nat \X Nat /\ DOMAIN HeapLog' \subseteq Nat \X Nat
    BY DEF HeapLog
  <2>2. NextPlace \in Nat \X Nat
    BY LogsTyped DEF Places
  <2> QED
    BY <1>5, <2>1, <2>2
<1>7. HeapLog'[NextPlace] = <<eval.src, r>>
  <2>1. NextPlace[1] = Now /\ NextPlace[2] = n
    BY DEF NextPlace
  <2> QED
    BY <1>1, <1>2, <1>4, <1>6, <2>1 DEF HeapLog
<1>8. \A p \in DOMAIN HeapLog : HeapLog'[p] = HeapLog[p]
  <2> SUFFICES ASSUME NEW p \in DOMAIN HeapLog PROVE HeapLog'[p] = HeapLog[p]
    OBVIOUS
  <2>1. p \in DOMAIN HeapLog' /\ p \in Nat \X Nat
    BY <1>6 DEF HeapLog
  <2>2. HeapLog'[p] = IF p[1] = Now THEN <<eval.src, eval'.res[p[2] + 1]>>
                      ELSE <<oplog[p[1]].src, oplog[p[1]].res[p[2] + 1]>>
    BY <1>1, <1>2, <2>1 DEF HeapLog
  <2>3. HeapLog[p] = IF p[1] = Now THEN <<eval.src, eval.res[p[2] + 1]>>
                     ELSE <<oplog[p[1]].src, oplog[p[1]].res[p[2] + 1]>>
    BY DEF HeapLog
  <2>4. p[1] = Now => p[2] < n
    BY <1>2 DEF HeapLog
  <2> QED
    BY <1>4, <2>1, <2>2, <2>3, <2>4
<1>9. <<eval.src, r>> \in Entry
  BY <1>1 DEF Entry, LoopInv, PcInv
<1> QED
  BY <1>6, <1>7, <1>8, <1>9, LogsTyped DEF Extends

(* A result that opens the stream of its place, or reads the next unit of  *)
(* its handle, or neither.                                                 *)
Fitting(r) ==
    /\ IsOpen(r) => r.data = NextPlace
    /\ IsRead(r) => /\ r.for \in DOMAIN heap
                    /\ r.data = <<heap[r.for].of, Len(heap[r.for].got) + 1>>

LEMMA FittingBuilt ==
    ASSUME LoopInv, PlaceInv, BuiltBy(heap, HeapLog), NEW r, Answered(r), Fitting(r)
    PROVE  BuiltBy(heap', HeapLog')
<1>1. /\ heap \in Seq(Handle) /\ LogType(HeapLog)
      /\ Extends(HeapLog', HeapLog, NextPlace, <<eval.src, r>>)
  BY LogsTyped, ResumeExtends DEF LoopInv, TypeInv
<1>2. Resume(r) /\ r \in ResultType /\ eval.pc \in {"call", "parked"}
  BY DEF Answered
<1> DEFINE e == <<eval.src, r>>
<1>3. e[1] = eval.src /\ e[2] = r
  OBVIOUS
<1>4. CASE IsOpen(r)
  <2> DEFINE k == [id |-> r.data, of |-> Effect, got |-> <<>>]
  <2>1. heap' = Append(heap, k)
    BY <1>2, <1>4 DEF Resume, IsOpen
  <2>2. k \in Handle
    <3>1. r.data \in Datum
      BY <1>2 DEF ResultType
    <3> QED
      BY <1>2, <3>1, FenceTyped DEF Handle
  <2>3. k.id = NextPlace /\ k.of = <<e[1], NextPlace[2]>> /\ k.got = <<>> /\ e[2].data = NextPlace
    BY <1>3, <1>4 DEF Fitting, Effect, Ordinal, NextPlace
  <2> HIDE DEF k, e
  <2>4. BuiltBy(Append(heap, k), HeapLog')
    BY <1>1, <1>3, <1>4, <2>2, <2>3, BuiltOpen DEF e
  <2> QED
    BY <2>1, <2>4
<1>5. CASE IsRead(r)
  <2>1. heap' = [heap EXCEPT ![r.for].got = Append(@, r.data)]
    BY <1>2, <1>5 DEF Resume, IsRead
  <2>2. r.for \in DOMAIN heap /\ r.data = <<heap[r.for].of, Len(heap[r.for].got) + 1>>
    BY <1>5 DEF Fitting
  <2>3. BuiltBy([heap EXCEPT ![r.for].got = Append(@, e[2].data)], HeapLog')
    <3> DEFINE f == r.for
    <3>1. /\ f \in DOMAIN heap /\ IsRead(e[2]) /\ e[2].for = f
          /\ e[2].data = <<heap[f].of, Len(heap[f].got) + 1>>
          /\ Extends(HeapLog', HeapLog, NextPlace, e)
      BY <1>1, <1>3, <1>5, <2>2
    <3> HIDE DEF e, f
    <3>2. BuiltBy([heap EXCEPT ![f].got = Append(@, e[2].data)], HeapLog')
      BY <1>1, <3>1, BuiltRead
    <3> QED
      BY <3>2 DEF f
  <2> QED
    BY <1>3, <2>1, <2>3
<1>6. CASE ~IsOpen(r) /\ ~IsRead(r)
  <2>1. heap' = heap
    BY <1>2, <1>6 DEF Resume, IsOpen, IsRead
  <2> HIDE DEF e
  <2>2. BuiltBy(heap, HeapLog')
    BY <1>1, <1>3, <1>6, BuiltOther DEF e
  <2> QED
    BY <2>1, <2>2
<1> QED
  BY <1>4, <1>5, <1>6

-----------------------------------------------------------------------------
(* What each answer does to the registry.                                  *)

Same(k) ==
    /\ streams'[k].of = streams[k].of /\ streams'[k].read = streams[k].read
    /\ streams'[k].pending = streams[k].pending

Fed(r) == Feeding /\ r = Head(eval.feed) /\ streams' = streams

Quiet(r) ==
    /\ ~Feeding /\ ~IsOpen(r) /\ ~IsRead(r)
    /\ \A k \in DOMAIN streams' : k \in DOMAIN streams /\ Same(k)

Opens(r) ==
    /\ ~Feeding /\ IsOpen(r) /\ r.data = FenceName
    /\ \A k \in DOMAIN streams' :
          IF k = FenceName
          THEN streams'[k].of = Effect /\ streams'[k].read = 0 /\ streams'[k].pending = <<>>
          ELSE k \in DOMAIN streams /\ Same(k)

(* A unit is taken from a chunk, the leftover of an earlier one or one     *)
(* that comes next in the body, and the rest of it stays.                  *)
Reads(r) ==
    /\ ~Feeding /\ IsRead(r) /\ r.for \in DOMAIN heap
    /\ LET id == heap[r.for].id  st == streams[id] IN
       /\ id \in DOMAIN streams /\ DOMAIN streams' = DOMAIN streams
       /\ \A k \in DOMAIN streams : k # id => Same(k)
       /\ streams'[id].of = st.of
       /\ \E n \in Nat, chunk \in Seq(Unit) :
             /\ chunk # <<>> /\ r.data = Head(chunk) /\ streams'[id].pending = Tail(chunk)
             /\ \/ chunk = st.pending /\ streams'[id].read = st.read
                \/ /\ st.pending = <<>> /\ chunk = Units(st.of, st.read, n)
                   /\ streams'[id].read = st.read + n

Shaped(r) == Fed(r) \/ Quiet(r) \/ Opens(r) \/ Reads(r)

LEMMA AnswerUnique ==
    ASSUME LoopInv, NEW r, Answered(r), NEW q, Resume(q)
    PROVE  q = r
<1>1. eval'.res = Append(eval.res, r)
  BY ResumeFields DEF Answered
<1>2. eval'.res = Append(eval.res, q)
  BY DEF Resume, LoopInv, TypeInv, EvalType
<1>3. eval.res \in Seq(ResultType)
  BY EvalFields DEF LoopInv
<1>4. Append(eval.res, r)[Len(eval.res) + 1] = r /\ Append(eval.res, q)[Len(eval.res) + 1] = q
  <2> HIDE DEF ResultType
  <2> QED BY <1>3
<1> QED
  BY <1>1, <1>2, <1>4

LEMMA QuietPlain ==
    ASSUME eval.pc \in {"call", "parked"}, ~Feeding, Last(eval.calls) \notin {"open", "upload"},
           \A k \in DOMAIN streams' : k \in DOMAIN streams /\ Same(k)
    PROVE  Quiet(Plain)
BY DEF Quiet, Plain, Result, IsOpen, IsRead

LEMMA FeedShaped ==
    ASSUME LoopInv, FeedRecorded
    PROVE  \E r : Answered(r) /\ Shaped(r)
<1>1. PICK r : Answered(r)
  BY FeedAnswered
<1>2. r = Head(eval.feed)
  BY <1>1, AnswerUnique DEF FeedRecorded
<1> QED
  BY <1>1, <1>2 DEF FeedRecorded, Shaped, Fed

LEMMA PlainShaped ==
    ASSUME LoopInv, DoFetch \/ DoSandbox \/ ServiceFs \/ ServiceChannel \/ ClientUnavailable
    PROVE  \E r : Answered(r) /\ Shaped(r)
<1>1. PICK r : Answered(r)
  BY FetchAnswered, ServiceAnswered
<1>2. /\ eval.pc = "call" /\ ~Feeding /\ Last(eval.calls) \notin {"open", "upload"}
      /\ UNCHANGED streams /\ Resume(Plain)
  BY DEF DoFetch, DoSandbox, ServiceFs, ServiceChannel, ClientUnavailable, Serving
<1>3. Quiet(Plain)
  BY <1>2, QuietPlain DEF Same
<1> QED
  BY <1>1, <1>2, <1>3, AnswerUnique DEF Shaped

LEMMA OpenShaped ==
    ASSUME LoopInv, NEW kind, DoFetchStream(kind)
    PROVE  \E r : Answered(r) /\ Shaped(r)
<1>1. PICK r : Answered(r)
  BY OpenAnswered
<1>2. r = Result(FenceName, 0) /\ ~Feeding /\ Last(eval.calls) \in {"open", "upload"}
  BY <1>1, AnswerUnique DEF DoFetchStream, Serving
<1> DEFINE st == [of |-> Effect, reader |-> kind = "open", writer |-> kind = "upload",
                  read |-> 0, pending |-> <<>>, done |-> FALSE]
<1>3. streams' = [k \in DOMAIN streams \cup {FenceName} |-> IF k = FenceName THEN st ELSE streams[k]]
  BY DEF DoFetchStream, Put
<1>4. IsOpen(r) /\ r.data = FenceName
  BY <1>2 DEF Result, IsOpen
<1>5. \A k \in DOMAIN streams' :
          IF k = FenceName
          THEN streams'[k].of = Effect /\ streams'[k].read = 0 /\ streams'[k].pending = <<>>
          ELSE k \in DOMAIN streams /\ Same(k)
  BY <1>3 DEF Same
<1> QED
  BY <1>1, <1>2, <1>4, <1>5 DEF Shaped, Opens

LEMMA ReadShaped ==
    ASSUME LoopInv, NEW h, NEW n \in 0..Body, DoStreamRead(h, n)
    PROVE  \E r : Answered(r) /\ Shaped(r)
<1> DEFINE id == heap[h].id
           known == id \in DOMAIN streams /\ streams[id].reader
           st == streams[id]
           fresh == st.pending = <<>>
           chunk == IF st.pending # <<>> THEN st.pending ELSE Units(st.of, st.read, n)
<1>1. PICK r : Answered(r)
  BY ReadAnswered
<1>2. /\ eval.pc = "call" /\ ~Feeding /\ Last(eval.calls) = "read" /\ h \in DOMAIN heap
  BY DEF DoStreamRead, Serving
<1>3. n \in Nat
  BY HostCallsAssumption
<1>4. CASE ~known
  <2>1. Resume(Plain) /\ UNCHANGED streams
    BY <1>4 DEF DoStreamRead
  <2>2. Quiet(Plain)
    BY <1>2, <2>1, QuietPlain DEF Same
  <2> QED
    BY <1>1, <2>1, <2>2, AnswerUnique DEF Shaped
<1>5. CASE known /\ chunk = <<>>
  <2>1. Resume(Plain) /\ streams' = Drop(id)
    BY <1>5 DEF DoStreamRead
  <2>2. Quiet(Plain)
    <3> HIDE DEF id
    <3> QED BY <1>2, <2>1, QuietPlain DEF Same, Drop
  <2> QED
    BY <1>1, <2>1, <2>2, AnswerUnique DEF Shaped
<1>6. CASE known /\ chunk # <<>>
  <2>1. /\ Resume(Result(Head(chunk), h))
        /\ streams' = [streams EXCEPT ![id].pending = Tail(chunk),
                                      ![id].read = IF fresh THEN st.read + n ELSE st.read]
    BY <1>6 DEF DoStreamRead
  <2>2. r = Result(Head(chunk), h)
    <3> HIDE DEF chunk, id, st, fresh
    <3> QED BY <1>1, <2>1, AnswerUnique
  <2>3. st \in Stream /\ st.of \in Nat \X Nat /\ st.read \in Nat /\ st.pending \in Seq(Unit)
    BY <1>6 DEF LoopInv, TypeInv, Stream
  <2>4. chunk \in Seq(Unit)
    BY <1>3, <2>3, UnitsTyped
  <2>5. Head(chunk) \in Unit
    <3> HIDE DEF chunk
    <3> QED BY <1>6, <2>4
  <2>6. r.for = h /\ r.data = Head(chunk) /\ IsRead(r)
    BY <1>2, <2>2, <2>5 DEF Result, IsRead, Unit
  <2>7. /\ id \in DOMAIN streams /\ DOMAIN streams' = DOMAIN streams
        /\ \A k \in DOMAIN streams : k # id => Same(k)
        /\ streams'[id].of = st.of /\ streams'[id].pending = Tail(chunk)
        /\ streams'[id].read = IF fresh THEN st.read + n ELSE st.read
    <3>1. id \in DOMAIN streams /\ st \in Stream /\ st = streams[id]
      BY <1>6, <2>3
    <3> HIDE DEF id, chunk, st, fresh
    <3>2. DOMAIN streams' = DOMAIN streams /\ \A k \in DOMAIN streams : k # id => streams'[k] = streams[k]
      BY <2>1
    <3>3. streams'[id] = [[st EXCEPT !.pending = Tail(chunk)] EXCEPT !.read = IF fresh THEN st.read + n ELSE st.read]
      BY <2>1, <3>1
    <3> QED
      BY <3>1, <3>2, <3>3 DEF Same, Stream
  <2>8. \/ chunk = st.pending /\ streams'[id].read = st.read
        \/ /\ st.pending = <<>> /\ chunk = Units(st.of, st.read, n)
           /\ streams'[id].read = st.read + n
    BY <2>7
  <2>9. Reads(r)
    <3>1. \E m \in Nat, c \in Seq(Unit) :
             /\ c # <<>> /\ r.data = Head(c) /\ streams'[id].pending = Tail(c)
             /\ \/ c = st.pending /\ streams'[id].read = st.read
                \/ /\ st.pending = <<>> /\ c = Units(st.of, st.read, m)
                   /\ streams'[id].read = st.read + m
      <4> HIDE DEF chunk, st, id
      <4> QED BY <1>3, <1>6, <2>4, <2>6, <2>7, <2>8
    <3> QED
      BY <1>2, <2>6, <2>7, <3>1 DEF Reads
  <2> QED
    BY <1>1, <2>9 DEF Shaped
<1> QED
  BY <1>4, <1>5, <1>6

LEMMA StreamOpShaped ==
    ASSUME LoopInv, NEW h, NEW last \in BOOLEAN, NEW body \in BOOLEAN,
           StreamReadFails(h) \/ DoStreamCancel(h) \/ DoStreamWrite(h, last, body)
    PROVE  \E r : Answered(r) /\ Shaped(r)
<1>1. PICK r : Answered(r)
  BY ReadFailsAnswered, WriteAnswered
<1>2. /\ eval.pc = "call" /\ ~Feeding /\ Last(eval.calls) \notin {"open", "upload"}
      /\ Resume(Plain)
  BY DEF StreamReadFails, DoStreamCancel, DoStreamWrite, Serving
<1>3. \A k \in DOMAIN streams' : k \in DOMAIN streams /\ Same(k)
  <2>1. CASE StreamReadFails(h) \/ DoStreamCancel(h)
    <3>1. streams' = Drop(heap[h].id)
      BY <2>1 DEF StreamReadFails, DoStreamCancel
    <3> QED
      BY <3>1 DEF Drop, Same
  <2>2. CASE DoStreamWrite(h, last, body)
    <3> DEFINE id == heap[h].id
    <3>1. CASE id \in DOMAIN streams /\ streams[id].writer /\ last
      <4>1. streams' = [streams EXCEPT ![id].writer = FALSE, ![id].reader = body, ![id].done = ~body]
        BY <2>2, <3>1 DEF DoStreamWrite
      <4> HIDE DEF id
      <4>2. DOMAIN streams' = DOMAIN streams /\ \A k \in DOMAIN streams : k # id => streams'[k] = streams[k]
        BY <4>1
      <4>3. streams'[id] = [[[streams[id] EXCEPT !.writer = FALSE] EXCEPT !.reader = body] EXCEPT !.done = ~body]
        BY <3>1, <4>1
      <4>4. streams[id] \in Stream
        BY <3>1 DEF LoopInv, TypeInv
      <4>5. Same(id)
        BY <4>3, <4>4 DEF Same, Stream
      <4> QED
        BY <4>2, <4>5 DEF Same
    <3>2. CASE ~(id \in DOMAIN streams /\ streams[id].writer /\ last)
      <4>1. streams' = streams
        BY <2>2, <3>2 DEF DoStreamWrite
      <4> QED
        BY <4>1 DEF Same
    <3> QED
      BY <3>1, <3>2
  <2> QED
    BY <2>1, <2>2
<1>4. Quiet(Plain)
  BY <1>2, <1>3, QuietPlain
<1> QED
  BY <1>1, <1>2, <1>4, AnswerUnique DEF Shaped

LEMMA SettleShaped ==
    ASSUME LoopInv, PlaceInv, NEW id \in Nat, id \in bridge.pending,
           HostCallTimeout(id) \/ ResolveHostCall(id)
    PROVE  \E r : Answered(r) /\ Shaped(r)
<1>1. PICK r : Answered(r)
  BY SettledAnswered
<1>2. eval.pc = "parked" /\ id = eval.id
  BY DEF LoopInv, PcInv
<1>3. Resume(Result(<<id>>, id)) /\ UNCHANGED streams
  BY <1>2 DEF HostCallTimeout, ResolveHostCall, Settle
<1>4. ~Feeding /\ Last(eval.calls) \in {"client", "ext"}
  BY <1>2 DEF PlaceInv, Feeding
<1>5. Quiet(Result(<<id>>, id))
  BY <1>3, <1>4 DEF Quiet, Result, IsOpen, IsRead, Same
<1> QED
  BY <1>1, <1>3, <1>5, AnswerUnique DEF Shaped

(* The disjuncts of Next, the answers with what they do to the registry.   *)
LEMMA StreamCases ==
    ASSUME LoopInv, PlaceInv, Next
    PROVE  \/ \E s \in Sources : EvalBegin(s)
           \/ \E k \in AllKinds : VmCalls(k) \/ ClientHostCall(k)
           \/ \E r : Answered(r) /\ Shaped(r)
           \/ \E id \in Nat : id \notin bridge.pending /\ ResolveHostCall(id)
           \/ \E commits, fits \in BOOLEAN : CellEnds(commits, fits)
           \/ Evict \/ Reset \/ RestoreImage \/ ReplayCell \/ ReplayedCellEnds \/ Finished
<1>1. ASSUME NEW k \in Kinds, DoFetchStream(k)
      PROVE  \E r : Answered(r) /\ Shaped(r)
  BY <1>1, OpenShaped
<1>2. ASSUME NEW h \in 1..Len(heap), NEW n \in 0..Body, DoStreamRead(h, n)
      PROVE  \E r : Answered(r) /\ Shaped(r)
  BY <1>2, ReadShaped
<1>3. ASSUME NEW h \in 1..Len(heap), NEW last \in BOOLEAN, NEW body \in BOOLEAN,
             DoStreamWrite(h, last, body)
      PROVE  \E r : Answered(r) /\ Shaped(r)
  BY <1>3, StreamOpShaped
<1>4. ASSUME NEW h \in 1..Len(heap), StreamReadFails(h) \/ DoStreamCancel(h)
      PROVE  \E r : Answered(r) /\ Shaped(r)
  BY <1>4, StreamOpShaped
<1>5. ASSUME NEW id \in 1..bridge.seq, ResolveHostCall(id) \/ HostCallTimeout(id)
      PROVE  \/ \E r : Answered(r) /\ Shaped(r)
             \/ \E i \in Nat : i \notin bridge.pending /\ ResolveHostCall(i)
  <2>1. id \in Nat
    BY DEF LoopInv, TypeInv
  <2>2. CASE id \in bridge.pending
    BY <1>5, <2>1, <2>2, SettleShaped
  <2>3. CASE id \notin bridge.pending
    BY <1>5, <2>1, <2>3 DEF HostCallTimeout
  <2> QED
    BY <2>2, <2>3
<1>6. FeedRecorded \/ DoFetch \/ ServiceFs \/ ServiceChannel \/ ClientUnavailable \/ DoSandbox
        => \E r : Answered(r) /\ Shaped(r)
  BY FeedShaped, PlainShaped
<1>7. Kinds \subseteq AllKinds
  BY HostCallsAssumption
<1> QED
  BY <1>1, <1>2, <1>3, <1>4, <1>5, <1>6, <1>7 DEF Next

-----------------------------------------------------------------------------
(* Place and budgets.                                                      *)

(* No cell runs after the step.                                            *)
LEMMA IdleKept ==
    ASSUME eval' = Idle, engine'.warm => engine'.replayed = 0, engine'.replayed <= Len(oplog'),
           \A i \in DOMAIN oplog' : \A j \in 1..Len(oplog'[i].res) :
              WithinBudget(Charged(oplog'[i].calls, j - 1))
    PROVE  Kept'
<1>1. eval'.pc = "idle" /\ eval'.feed = <<>> /\ Len(eval'.calls) = 0
  BY IdleFields
<1> QED
  BY <1>1 DEF Kept, PlaceInv, BudgetInv

LEMMA AnsweredKept ==
    ASSUME LoopInv, ReplayInv, Kept, NEW r, Answered(r), Shaped(r)
    PROVE  Kept' /\ (~eval.live => Fed(r))
<1>1. /\ eval.pc \in {"call", "parked"} /\ r \in ResultType
      /\ UNCHANGED <<engine, oplog>> /\ Now' = Now
      /\ eval'.pc = "vm" /\ eval'.res = Append(eval.res, r)
      /\ eval'.src = eval.src /\ eval'.no = eval.no /\ eval'.live = eval.live
      /\ eval'.calls = eval.calls
      /\ eval'.feed = IF eval.feed = <<>> THEN <<>> ELSE Tail(eval.feed)
  BY ResumeFields DEF Answered, Now, Rows
<1>2. eval.res \in Seq(ResultType) /\ eval.feed \in Seq(ResultType) /\ Len(eval.res) \in Nat
  BY EvalFields DEF LoopInv
<1>3. ~eval.live => Fed(r)
  BY <1>1 DEF ReplayInv, FollowsRow, Shaped, Fed, Quiet, Opens, Reads, Feeding
<1>4. BudgetInv'
  BY <1>1 DEF Kept, BudgetInv
<1>5. ASSUME eval.live PROVE PlaceInv'
  <2>1. eval'.feed = <<>> /\ eval'.live /\ eval.feed = <<>>
    BY <1>1, <1>5 DEF Kept, PlaceInv
  <2> QED
    BY <1>1, <2>1 DEF Kept, PlaceInv
<1>6. ASSUME ~eval.live PROVE PlaceInv'
  <2>1. eval.feed # <<>> /\ r = eval.feed[1] /\ eval'.feed = Tail(eval.feed)
    BY <1>1, <1>2, <1>3, <1>6 DEF Fed, Feeding
  <2>2. \A j \in 1..Len(eval'.res) : eval'.res[j] = oplog[eval.no].res[j]
    <3>1. \A j \in 1..Len(eval.res) : eval.res[j] = oplog[eval.no].res[j]
      BY <1>1, <1>6 DEF Kept, PlaceInv
    <3>2. r = oplog[eval.no].res[Len(eval.res) + 1]
      <4>1. 1 \in 1..Len(eval.feed)
        BY <1>2, <2>1
      <4> QED
        BY <1>1, <1>6, <2>1, <4>1 DEF Kept, PlaceInv
    <3>3. /\ Len(eval'.res) = Len(eval.res) + 1
          /\ \A j \in 1..Len(eval.res) : eval'.res[j] = eval.res[j]
          /\ eval'.res[Len(eval.res) + 1] = r
      <4> HIDE DEF ResultType
      <4> QED BY <1>1, <1>2
    <3> QED
      BY <1>2, <3>1, <3>2, <3>3
  <2>3. \A j \in 1..Len(eval'.feed) : eval'.feed[j] = oplog[eval.no].res[Len(eval'.res) + j]
    <3> SUFFICES ASSUME NEW j \in 1..Len(eval'.feed)
                 PROVE  eval'.feed[j] = oplog[eval.no].res[Len(eval'.res) + j]
      OBVIOUS
    <3>1. /\ Len(eval'.res) = Len(eval.res) + 1 /\ Len(eval'.feed) = Len(eval.feed) - 1
          /\ eval'.feed[j] = eval.feed[j + 1] /\ Len(eval.feed) \in Nat
      <4> HIDE DEF ResultType
      <4> QED BY <1>1, <1>2, <2>1
    <3>2. j + 1 \in 1..Len(eval.feed)
      BY <3>1
    <3>3. eval.feed[j + 1] = oplog[eval.no].res[Len(eval.res) + (j + 1)]
      BY <1>1, <1>6, <3>2 DEF Kept, PlaceInv
    <3>4. Len(eval.res) + (j + 1) = Len(eval'.res) + j
      <4>1. j \in Int
        OBVIOUS
      <4>2. Len(eval'.res) = Len(eval.res) + 1 /\ Len(eval.res) \in Nat
        BY <1>2, <3>1
      <4> DEFINE a == Len(eval.res)
                 b == Len(eval'.res)
      <4> HIDE DEF a, b
      <4>3. b = a + 1 /\ a \in Nat
        BY <4>2 DEF a, b
      <4>4. a + (j + 1) = b + j
        BY <4>1, <4>3
      <4> QED BY <4>4 DEF a, b
    <3> QED
      BY <3>1, <3>3, <3>4
  <2> QED
    BY <1>1, <1>6, <2>2, <2>3 DEF Kept, PlaceInv
<1> QED
  BY <1>3, <1>4, <1>5, <1>6 DEF Kept

LEMMA CallKept ==
    ASSUME LoopInv, ReplayInv, Kept, NEW k \in AllKinds, VmCalls(k)
    PROVE  Kept'
<1>1. /\ eval.pc = "vm" /\ UNCHANGED <<engine, oplog>> /\ Now' = Now
      /\ eval'.pc = (IF WithinBudget(eval.ops) THEN "call" ELSE "over")
      /\ eval'.calls = Append(eval.calls, k) /\ eval'.res = eval.res /\ eval'.feed = eval.feed
      /\ eval'.src = eval.src /\ eval'.no = eval.no /\ eval'.live = eval.live
  BY CallFields DEF VmCalls, Now, Rows
<1>2. PlaceInv'
  BY <1>1 DEF Kept, PlaceInv
<1> DEFINE n == Len(eval.calls)
<1>3. /\ n \in Nat /\ n = Len(eval.res) /\ Len(eval'.calls) = n + 1
      /\ \A i \in 1..n : eval'.calls[i] = eval.calls[i]
  BY <1>1, EvalFields DEF LoopInv, PcInv
<1>4. ASSUME NEW j \in 1..n PROVE WithinBudget(Charged(eval'.calls, j - 1))
  <2>1. WithinBudget(Charged(eval.calls, j - 1))
    BY <1>1 DEF Kept, BudgetInv
  <2>2. j - 1 \in Nat /\ \A i \in 1..(j - 1) : eval'.calls[i] = eval.calls[i]
    BY <1>3
  <2> HIDE DEF n
  <2>3. Charged(eval'.calls, j - 1) = Charged(eval.calls, j - 1)
    BY <2>2, ChargedPrefix
  <2> QED
    BY <2>1, <2>3
<1>5. WithinBudget(eval.ops) => WithinBudget(Charged(eval'.calls, n))
  <2>1. eval.ops = Charged(eval.calls, n)
    BY <1>1 DEF ReplayInv
  <2>2. Charged(eval'.calls, n) = Charged(eval.calls, n)
    BY <1>3, ChargedPrefix
  <2> QED
    BY <2>1, <2>2
<1>6. BudgetInv'
  <2>1. CASE WithinBudget(eval.ops)
    <3>1. \A j \in 1..(n + 1) : WithinBudget(Charged(eval'.calls, j - 1))
      <4>1. (n + 1) - 1 = n
        BY <1>3
      <4> HIDE DEF n
      <4> QED BY <1>3, <1>4, <1>5, <2>1, <4>1
    <3> QED
      BY <1>1, <1>3, <2>1, <3>1 DEF Kept, BudgetInv
  <2>2. CASE ~WithinBudget(eval.ops)
    BY <1>1, <1>3, <1>4, <2>2 DEF Kept, BudgetInv
  <2> QED
    BY <2>1, <2>2
<1> QED
  BY <1>2, <1>6 DEF Kept

LEMMA ParkKept ==
    ASSUME LoopInv, Kept, NEW k \in AllKinds, ClientHostCall(k)
    PROVE  Kept'
<1>1. /\ eval.pc = "call" /\ UNCHANGED <<engine, oplog>> /\ Now' = Now
      /\ Last(eval.calls) \in {"client", "ext"}
  BY DEF ClientHostCall, Serving, Now, Rows
<1> QED
  BY <1>1, ParkFields DEF Kept, PlaceInv, BudgetInv

LEMMA EndKept ==
    ASSUME "clamp" \notin Faults, LoopInv, Kept,
           NEW commits \in BOOLEAN, NEW fits \in BOOLEAN, CellEnds(commits, fits)
    PROVE  Kept'
<1>1. eval' = Idle /\ engine'.warm = engine.warm /\ engine'.replayed = engine.replayed
  BY DEF CellEnds, LoopInv, TypeInv
<1>2. CASE ~commits
  BY <1>1, <1>2, IdleKept DEF CellEnds, Kept, PlaceInv, BudgetInv
<1>3. CASE commits
  <2> DEFINE row == [src |-> eval.src, calls |-> eval.calls, res |-> eval.res]
  <2>1. oplog' = Append(oplog, row)
    BY <1>3 DEF CellEnds
  <2>2. \A j \in 1..Len(row.res) : WithinBudget(Charged(row.calls, j - 1))
    <3>1. Len(eval.res) \in Nat /\ Len(eval.calls) \in Nat
      BY EvalFields DEF LoopInv
    <3>2. eval.pc = "vm" => Len(eval.calls) = Len(eval.res)
      BY DEF LoopInv, PcInv
    <3> QED
      BY <3>1, <3>2 DEF CellEnds, Kept, BudgetInv
  <2> HIDE DEF row
  <2>3. /\ DOMAIN oplog' = DOMAIN oplog \cup {Len(oplog) + 1} /\ Len(oplog') = Len(oplog) + 1
        /\ Len(oplog) \in Nat
        /\ \A i \in DOMAIN oplog : oplog'[i] = oplog[i]
        /\ oplog'[Len(oplog) + 1] = row
    BY <2>1 DEF LoopInv, TypeInv
  <2>4. \A i \in DOMAIN oplog' : \A j \in 1..Len(oplog'[i].res) :
              WithinBudget(Charged(oplog'[i].calls, j - 1))
    BY <2>2, <2>3 DEF Kept, BudgetInv
  <2>5. engine'.replayed <= Len(oplog') /\ (engine'.warm => engine'.replayed = 0)
    BY <1>1, <2>3 DEF Kept, PlaceInv, LoopInv, TypeInv
  <2> QED
    BY <1>1, <2>4, <2>5, IdleKept
<1> QED
  BY <1>2, <1>3

LEMMA ReplayEndKept ==
    ASSUME LoopInv, ReplayInv, Kept, ReplayedCellEnds
    PROVE  /\ Kept' /\ Rows' = Rows + 1 /\ Rows + 1 <= Len(oplog)
<1>1. /\ eval' = Idle /\ UNCHANGED oplog /\ ~eval.live /\ eval.pc # "idle"
      /\ engine'.replayed = (IF engine.replayed + 1 = Len(oplog) THEN 0 ELSE engine.replayed + 1)
      /\ engine'.warm = (engine.replayed + 1 = Len(oplog))
  BY DEF ReplayedCellEnds
<1>2. ~engine.warm /\ eval.no = engine.replayed + 1 /\ Rows = engine.replayed
  BY <1>1 DEF Kept, PlaceInv, Now, Rows, LoopInv, TypeInv, EvalType
<1>3. eval.no \in DOMAIN oplog /\ Len(oplog) \in Nat /\ engine.replayed \in Nat
  <2>1. eval.no \in DOMAIN oplog
    BY <1>1 DEF ReplayInv, FollowsRow
  <2> QED
    BY <2>1 DEF LoopInv, TypeInv
<1>4. eval.no <= Len(oplog)
  BY <1>3 DEF LoopInv, TypeInv
<1>5. engine'.replayed <= Len(oplog') /\ (engine'.warm => engine'.replayed = 0)
  <2>1. CASE engine.replayed + 1 = Len(oplog)
    BY <1>1, <1>3, <2>1
  <2>2. CASE engine.replayed + 1 # Len(oplog)
    BY <1>1, <1>2, <1>3, <1>4, <2>2
  <2> QED
    BY <2>1, <2>2
<1>6. Kept'
  BY <1>1, <1>5, IdleKept DEF Kept, BudgetInv
<1>7. Rows' = Rows + 1
  BY <1>1, <1>2, <1>3 DEF Rows
<1> QED
  BY <1>2, <1>4, <1>6, <1>7

LEMMA KeptStep ==
    ASSUME "clamp" \notin Faults, LoopInv, ReplayInv, Kept, [Next]_vars
    PROVE  Kept'
<1>0. PlaceInv
  BY DEF Kept
<1>1. ASSUME NEW s \in Sources, EvalBegin(s) PROVE Kept'
  <2>1. UNCHANGED <<engine, oplog>> /\ engine.warm /\ Now' = Now /\ Now = Len(oplog) + 1
    BY <1>1 DEF EvalBegin, Now, Rows
  <2>2. eval'.feed = <<>>
    BY <1>1, IdleFields DEF EvalBegin, Idle
  <2>3. /\ eval'.pc = "vm" /\ eval'.no = Len(oplog) + 1 /\ eval'.live = TRUE /\ eval'.calls = <<>>
        /\ engine.warm = TRUE
    BY <1>1, <2>1, BeginFields DEF LoopInv, TypeInv
  <2>4. PlaceInv'
    BY <2>1, <2>2, <2>3 DEF Kept, PlaceInv
  <2>5. Len(eval'.calls) = 0
    BY <2>3
  <2>6. BudgetInv'
    BY <2>1, <2>3, <2>5 DEF Kept, BudgetInv
  <2> QED
    BY <2>4, <2>6 DEF Kept
<1>2. ASSUME NEW k \in AllKinds, VmCalls(k) PROVE Kept'
  BY <1>2, CallKept
<1>3. ASSUME NEW k \in AllKinds, ClientHostCall(k) PROVE Kept'
  BY <1>3, ParkKept
<1>4. ASSUME NEW r, Answered(r), Shaped(r) PROVE Kept'
  BY <1>4, AnsweredKept
<1>5. ASSUME NEW id \in Nat, id \notin bridge.pending, ResolveHostCall(id) PROVE Kept'
  <2>1. UNCHANGED <<eval, oplog, engine>>
    BY <1>5 DEF ResolveHostCall
  <2> QED
    BY <2>1 DEF Kept, PlaceInv, BudgetInv, Now, Rows
<1>6. ASSUME NEW commits \in BOOLEAN, NEW fits \in BOOLEAN, CellEnds(commits, fits) PROVE Kept'
  BY <1>6, EndKept
<1>7. CASE Evict
  <2>1. eval' = Idle /\ UNCHANGED oplog /\ engine'.replayed = 0
    BY <1>7 DEF Evict
  <2>2. Len(oplog) \in Nat
    BY DEF LoopInv, TypeInv
  <2> QED
    BY <2>1, <2>2, IdleKept DEF Kept, BudgetInv
<1>8. CASE RestoreImage
  <2>1. UNCHANGED <<eval, oplog>> /\ engine'.replayed = 0 /\ engine.replayed = 0 /\ eval.pc = "idle"
    BY <1>8 DEF RestoreImage, LoopInv, TypeInv
  <2>2. eval' = Idle
    BY <2>1 DEF LoopInv, PcInv
  <2>3. Len(oplog) \in Nat
    BY DEF LoopInv, TypeInv
  <2> QED
    BY <2>1, <2>2, <2>3, IdleKept DEF Kept, BudgetInv
<1>9. CASE ReplayCell
  <2>1. UNCHANGED <<engine, oplog>> /\ ~engine.warm /\ Now' = engine.replayed + 1
    BY <1>9 DEF ReplayCell, Now, Rows
  <2>2. /\ eval'.pc = "vm" /\ Len(eval'.calls) = 0 /\ Len(eval'.res) = 0
        /\ eval'.feed = oplog[eval'.no].res /\ eval'.no = engine.replayed + 1
        /\ eval'.src = oplog[eval'.no].src /\ ~eval'.live /\ eval'.live \in BOOLEAN
    BY <1>9, ReplayFields DEF EvalType
  <2>3. \A j \in 1..Len(eval'.feed) : eval'.feed[j] = oplog[eval'.no].res[Len(eval'.res) + j]
    BY <2>2
  <2>4. PlaceInv'
    BY <2>1, <2>2, <2>3 DEF Kept, PlaceInv, LoopInv, TypeInv
  <2>5. BudgetInv'
    BY <2>1, <2>2 DEF Kept, BudgetInv
  <2> QED
    BY <2>4, <2>5 DEF Kept
<1>10. CASE ReplayedCellEnds
  BY <1>10, ReplayEndKept
<1>11. CASE Reset
  <2>1. eval' = Idle /\ oplog' = <<>> /\ engine'.replayed = 0
    BY <1>11 DEF Reset, LoopInv, PcInv
  <2>2. Len(oplog') = 0 /\ DOMAIN oplog' = {}
    BY <2>1
  <2> QED
    BY <2>1, <2>2, IdleKept
<1>12. CASE Finished \/ UNCHANGED vars
  <2>1. UNCHANGED <<eval, oplog, engine>>
    BY <1>12 DEF Finished, vars
  <2> QED
    BY <2>1 DEF Kept, PlaceInv, BudgetInv, Now, Rows
<1> QED
  BY <1>0, <1>1, <1>2, <1>3, <1>4, <1>5, <1>6, <1>7, <1>8, <1>9, <1>10, <1>11, <1>12, StreamCases

-----------------------------------------------------------------------------
(* The logs across the steps that record no result.                        *)

LEMMA LogsSame ==
    ASSUME Rows \in Nat, UNCHANGED oplog, Rows' = Rows, eval'.res = eval.res,
           eval.res = <<>> \/ eval'.src = eval.src
    PROVE  HeapLog' = HeapLog /\ CommittedLog' = CommittedLog
<1>1. CommittedLog' = CommittedLog
  BY DEF CommittedLog
<1>2. Now' = Now
  BY DEF Now
<1> DEFINE D == {p \in Nat \X Nat : \/ p[1] \in 1..Rows /\ p[2] < Len(oplog[p[1]].res)
                                    \/ p[1] = Now /\ p[2] < Len(eval.res)}
           F(p) == IF p[1] = Now THEN <<eval.src, eval.res[p[2] + 1]>>
                   ELSE <<oplog[p[1]].src, oplog[p[1]].res[p[2] + 1]>>
           G(p) == IF p[1] = Now THEN <<eval'.src, eval.res[p[2] + 1]>>
                   ELSE <<oplog[p[1]].src, oplog[p[1]].res[p[2] + 1]>>
<1>3. HeapLog = [p \in D |-> F(p)] /\ HeapLog' = [p \in D |-> G(p)]
  BY <1>2 DEF HeapLog
<1>4. CASE eval'.src = eval.src
  BY <1>1, <1>3, <1>4
<1>5. CASE eval.res = <<>>
  <2>1. ASSUME NEW p \in D PROVE F(p) = G(p)
    <3>1. ~(p[2] < Len(eval.res))
      BY <1>5
    <3>2. p[1] # Now
      BY <2>1, <3>1 DEF Now
    <3> QED
      BY <3>2
  <2> QED
    BY <1>1, <1>3, <2>1
<1> QED
  BY <1>4, <1>5

(* A cell that is appended, or replayed to its end, moves from the cell    *)
(* that runs to the committed ones.                                        *)
LEMMA LogsClose ==
    ASSUME Rows \in Nat, Rows' = Rows + 1, eval'.res = <<>>,
           oplog'[Rows + 1].src = eval.src, Len(oplog'[Rows + 1].res) = Len(eval.res),
           \A j \in 1..Len(eval.res) : oplog'[Rows + 1].res[j] = eval.res[j],
           \A i \in 1..Rows : oplog'[i] = oplog[i], Len(eval.res) \in Nat
    PROVE  HeapLog' = HeapLog
<1> DEFINE D == {p \in Nat \X Nat : \/ p[1] \in 1..Rows /\ p[2] < Len(oplog[p[1]].res)
                                    \/ p[1] = Now /\ p[2] < Len(eval.res)}
           E == {p \in Nat \X Nat : \/ p[1] \in 1..(Rows + 1) /\ p[2] < Len(oplog'[p[1]].res)
                                    \/ p[1] = Rows + 2 /\ p[2] < Len(eval'.res)}
           F(p) == IF p[1] = Now THEN <<eval.src, eval.res[p[2] + 1]>>
                   ELSE <<oplog[p[1]].src, oplog[p[1]].res[p[2] + 1]>>
           G(p) == IF p[1] = Rows + 2 THEN <<eval'.src, eval'.res[p[2] + 1]>>
                   ELSE <<oplog'[p[1]].src, oplog'[p[1]].res[p[2] + 1]>>
<1>1. Now = Rows + 1 /\ Now' = Rows + 2 /\ Len(eval'.res) = 0
  BY DEF Now
<1>2. HeapLog = [p \in D |-> F(p)] /\ HeapLog' = [p \in E |-> G(p)]
  BY <1>1 DEF HeapLog
<1>3. ASSUME NEW p \in Nat \X Nat PROVE p \in D <=> p \in E
  <2>1. p[1] \in Nat /\ p[2] \in Nat
    OBVIOUS
  <2>2. CASE p[1] \in 1..Rows
    BY <1>1, <2>1, <2>2
  <2>3. CASE p[1] = Rows + 1
    BY <1>1, <2>1, <2>3
  <2>4. CASE p[1] \notin 1..(Rows + 1)
    BY <1>1, <2>1, <2>4
  <2> QED
    BY <2>1, <2>2, <2>3, <2>4
<1>4. ASSUME NEW p \in D PROVE F(p) = G(p)
  <2>1. p[1] \in Nat /\ p[2] \in Nat
    OBVIOUS
  <2>2. CASE p[1] \in 1..Rows
    <3>1. p[1] # Now /\ p[1] # Rows + 2 /\ oplog'[p[1]] = oplog[p[1]]
      BY <1>1, <2>1, <2>2
    <3> QED
      BY <3>1
  <2>3. CASE p[1] = Now /\ p[2] < Len(eval.res)
    <3>1. p[2] + 1 \in 1..Len(eval.res)
      BY <2>1, <2>3
    <3> QED
      BY <1>1, <2>1, <2>3, <3>1
  <2> QED
    BY <2>2, <2>3
<1>5. D = E
  BY <1>3
<1> HIDE DEF D, E, F, G
<1> QED
  BY <1>2, <1>4, <1>5

LEMMA LogsMeet ==
    ASSUME oplog' \in Seq(Row), engine'.warm, eval'.res = <<>>
    PROVE  HeapLog' = CommittedLog'
<1> DEFINE n == Len(oplog')
           D == {p \in Nat \X Nat : \/ p[1] \in 1..n /\ p[2] < Len(oplog'[p[1]].res)
                                    \/ p[1] = n + 1 /\ p[2] < Len(eval'.res)}
           E == {p \in Nat \X Nat : p[1] \in DOMAIN oplog' /\ p[2] < Len(oplog'[p[1]].res)}
           F(p) == IF p[1] = n + 1 THEN <<eval'.src, eval'.res[p[2] + 1]>>
                   ELSE <<oplog'[p[1]].src, oplog'[p[1]].res[p[2] + 1]>>
           G(p) == <<oplog'[p[1]].src, oplog'[p[1]].res[p[2] + 1]>>
<1>1. Rows' = n /\ Now' = n + 1 /\ n \in Nat /\ DOMAIN oplog' = 1..n /\ Len(eval'.res) = 0
  BY DEF Rows, Now
<1>2. HeapLog' = [p \in D |-> F(p)] /\ CommittedLog' = [p \in E |-> G(p)]
  BY <1>1 DEF HeapLog, CommittedLog
<1>3. D = E
  BY <1>1
<1>4. ASSUME NEW p \in D PROVE F(p) = G(p)
  BY <1>1
<1> HIDE DEF D, E, F, G
<1> QED
  BY <1>2, <1>3, <1>4

LEMMA NothingBuilt == ASSUME NEW L, DOMAIN L = {} PROVE BuiltBy(<<>>, L)
BY DEF BuiltBy, HandlesOpened, ReadsCounted, InOrder

(* The result of a replayed cell is whole: all recorded results were fed.  *)
LEMMA ReplayedWhole ==
    ASSUME LoopInv, ReplayInv, Kept, ReplayedCellEnds
    PROVE  /\ eval.no \in DOMAIN oplog /\ eval.no = Rows + 1
           /\ eval.src = oplog[eval.no].src /\ Len(eval.res) \in Nat
           /\ Len(eval.res) = Len(oplog[eval.no].res)
           /\ \A j \in 1..Len(eval.res) : eval.res[j] = oplog[eval.no].res[j]
<1> DEFINE row == oplog[eval.no]
<1>1. /\ eval.pc \in {"vm", "over"} /\ ~eval.live /\ Len(eval.calls) = Len(row.calls)
  BY DEF ReplayedCellEnds
<1>2. FollowsRow /\ eval.no \in DOMAIN oplog
  BY <1>1 DEF ReplayInv, FollowsRow
<1>3. row \in Row
  BY <1>2 DEF LoopInv, TypeInv
<1>4. Len(row.res) \in Nat /\ Len(row.calls) \in Nat
  BY <1>3 DEF Row
<1>5. Len(eval.res) \in Nat /\ Len(eval.calls) \in Nat /\ Len(eval.feed) \in Nat
  BY EvalFields DEF LoopInv
<1>6. Len(eval.res) <= Len(row.res)
  <2>1. Len(eval.res) + Len(eval.feed) = Len(row.res)
    BY <1>2 DEF FollowsRow
  <2> DEFINE a == Len(eval.res)
             b == Len(eval.feed)
             c == Len(row.res)
  <2>2. a \in Nat /\ b \in Nat /\ c \in Nat /\ a + b = c
    BY <1>4, <1>5, <2>1
  <2> HIDE DEF a, b, c
  <2>3. a <= c
    BY <2>2
  <2> QED
    BY <2>3 DEF a, c
<1>7. RowComplete(row)
  BY <1>2 DEF ReplayInv
<1>8. Len(row.res) <= Len(row.calls)
  BY <1>4, <1>7 DEF RowComplete
<1>9. CASE eval.pc = "vm"
  <2>1. Len(eval.res) = Len(row.calls)
    BY <1>1, <1>9 DEF LoopInv, PcInv
  <2>2. Len(eval.res) = Len(row.res)
    BY <1>4, <1>5, <1>6, <1>8, <2>1
  <2> QED
    BY <1>1, <1>2, <1>5, <2>2 DEF Kept, PlaceInv, Now
<1>10. CASE eval.pc = "over"
  <2>1. Len(row.calls) = Len(eval.res) + 1
    BY <1>1, <1>10 DEF LoopInv, PcInv
  <2>2. ~WithinBudget(Charged(eval.calls, Len(eval.res)))
    BY <1>10 DEF ReplayInv
  <2>3. Charged(eval.calls, Len(eval.res)) = Charged(row.calls, Len(eval.res))
    <3>1. \A i \in 1..Len(eval.res) : eval.calls[i] = row.calls[i]
      BY <1>1, <1>2, <1>5, <2>1 DEF FollowsRow
    <3> QED
      BY <1>5, <3>1, ChargedPrefix
  <2>4. Len(eval.res) = Len(row.res)
    <3> SUFFICES ASSUME Len(eval.res) # Len(row.res) PROVE FALSE
      OBVIOUS
    <3>1. Len(eval.res) + 1 \in 1..Len(row.res)
      BY <1>4, <1>5, <1>6, <1>8, <2>1
    <3>2. WithinBudget(Charged(row.calls, (Len(eval.res) + 1) - 1))
      BY <1>2, <3>1 DEF Kept, BudgetInv
    <3>3. (Len(eval.res) + 1) - 1 = Len(eval.res)
      BY <1>5
    <3> QED
      BY <2>2, <2>3, <3>2, <3>3
  <2> QED
    BY <1>1, <1>2, <1>5, <2>4 DEF Kept, PlaceInv, Now
<1> QED
  BY <1>1, <1>9, <1>10

-----------------------------------------------------------------------------
(* A recorded result fits what the heap has gone through.                  *)

LEMMA FedFits ==
    ASSUME LoopInv, ReplayInv, Kept, Built, Mirrors, NEW r, Answered(r), ~eval.live, Fed(r)
    PROVE  /\ Fitting(r)
           /\ IsOpen(r) => Len(heap) + 1 \in DOMAIN saved /\ saved[Len(heap) + 1].id = r.data
<1> DEFINE row == oplog[eval.no]
           n == Len(eval.res)
<1>1. /\ eval.pc \in {"call", "parked"} /\ eval.feed # <<>> /\ r = Head(eval.feed)
  BY DEF Answered, Fed, Feeding
<1>2. FollowsRow /\ eval.no \in DOMAIN oplog
  BY <1>1 DEF ReplayInv, FollowsRow
<1>3. row \in Row
  BY <1>2 DEF LoopInv, TypeInv
<1>4. eval.feed \in Seq(ResultType) /\ n \in Nat /\ row.res \in Seq(ResultType) /\ Len(row.res) \in Nat
  BY <1>3, EvalFields DEF LoopInv, Row
<1>5. Len(eval.feed) \in Nat /\ Len(eval.feed) > 0 /\ r = eval.feed[1]
  <2> HIDE DEF ResultType
  <2> QED BY <1>1, <1>4
<1>6. n < Len(row.res)
  <2>1. n + Len(eval.feed) = Len(row.res)
    BY <1>2 DEF FollowsRow
  <2> DEFINE b == Len(eval.feed)
             c == Len(row.res)
  <2>2. b \in Nat /\ b > 0 /\ c \in Nat /\ n + b = c
    BY <1>4, <1>5, <2>1
  <2> HIDE DEF n, b, c
  <2>3. n < c
    BY <1>4, <2>2
  <2> QED
    BY <2>3 DEF c
<1>7. /\ eval.no = Now /\ ~engine.warm /\ Rows \in Nat /\ Now = Rows + 1 /\ eval.src = row.src
      /\ \A j \in 1..n : eval.res[j] = row.res[j]
      /\ r = row.res[n + 1]
  <2>1. eval.no = Now /\ ~engine.warm /\ eval.src = row.src
    BY <1>1 DEF Kept, PlaceInv, LoopInv, TypeInv, EvalType
  <2>2. Rows \in Nat /\ Now = Rows + 1
    BY LogsTyped DEF Now, Kept
  <2>3. \A j \in 1..n : eval.res[j] = row.res[j]
    BY <1>1 DEF Kept, PlaceInv
  <2>4. 1 \in 1..Len(eval.feed)
    BY <1>5
  <2>5. eval.feed[1] = row.res[n + 1]
    BY <1>1, <2>4 DEF Kept, PlaceInv
  <2> QED
    BY <1>5, <2>1, <2>2, <2>3, <2>5
<1>8. /\ NextPlace \in DOMAIN CommittedLog
      /\ CommittedLog[NextPlace][1] = eval.src /\ CommittedLog[NextPlace][2] = r
  <2>1. NextPlace \in Nat \X Nat /\ NextPlace[1] = eval.no /\ NextPlace[2] = n
    BY <1>4, <1>7 DEF NextPlace
  <2>2. NextPlace \in DOMAIN CommittedLog
    BY <1>2, <1>6, <2>1 DEF CommittedLog
  <2>3. CommittedLog[NextPlace] = <<row.src, row.res[n + 1]>>
    BY <2>1, <2>2 DEF CommittedLog
  <2> QED
    BY <1>7, <2>2, <2>3
<1>9. ASSUME NEW p \in DOMAIN HeapLog
      PROVE  p \in DOMAIN CommittedLog /\ HeapLog[p] = CommittedLog[p] /\ Before(p, NextPlace)
  <2>1. /\ p \in Nat \X Nat /\ p[1] \in Nat /\ p[2] \in Nat
        /\ \/ p[1] \in 1..Rows /\ p[2] < Len(oplog[p[1]].res)
           \/ p[1] = Now /\ p[2] < n
        /\ HeapLog[p] = IF p[1] = Now THEN <<eval.src, eval.res[p[2] + 1]>>
                        ELSE <<oplog[p[1]].src, oplog[p[1]].res[p[2] + 1]>>
    BY DEF HeapLog
  <2>2. Before(p, NextPlace)
    BY LogsTyped DEF Kept
  <2>3. CASE p[1] \in 1..Rows /\ p[2] < Len(oplog[p[1]].res)
    <3>1. p[1] # Now /\ p[1] \in DOMAIN oplog
      BY <1>7, <2>1, <2>3, LogsTyped DEF Kept, LoopInv, TypeInv
    <3>2. p \in DOMAIN CommittedLog
      BY <2>1, <2>3, <3>1 DEF CommittedLog
    <3> QED
      BY <2>1, <2>2, <3>1, <3>2 DEF CommittedLog
  <2>4. CASE p[1] = Now /\ p[2] < n
    <3>1. p[2] < Len(row.res) /\ p[2] + 1 \in 1..n
      BY <1>4, <1>6, <2>1, <2>4
    <3>2. p \in DOMAIN CommittedLog
      BY <1>2, <1>7, <2>1, <2>4, <3>1 DEF CommittedLog
    <3>3. CommittedLog[p] = <<row.src, row.res[p[2] + 1]>>
      BY <1>7, <2>4, <3>2 DEF CommittedLog
    <3> QED
      BY <1>7, <2>1, <2>2, <2>4, <3>1, <3>2, <3>3
  <2> QED
    BY <2>1, <2>3, <2>4
<1>10. ASSUME NEW p \in DOMAIN CommittedLog, Before(p, NextPlace) PROVE p \in DOMAIN HeapLog
  <2>1. p \in Nat \X Nat /\ p[1] \in DOMAIN oplog /\ p[2] < Len(oplog[p[1]].res)
    BY DEF CommittedLog
  <2>2. p[1] \in Nat /\ p[1] > 0 /\ p[2] \in Nat
    BY <2>1 DEF LoopInv, TypeInv
  <2>3. p[1] < Now \/ (p[1] = Now /\ p[2] < n)
    <3>1. NextPlace[1] = Now /\ NextPlace[2] = n
      BY DEF NextPlace
    <3> QED
      BY <1>10, <3>1 DEF Before
  <2>4. p[1] < Now => p[1] \in 1..Rows
    BY <1>7, <2>2
  <2> QED
    BY <2>1, <2>3, <2>4 DEF HeapLog
<1>11. /\ heap \in Seq(Handle) /\ saved \in Seq(Handle) /\ LogType(CommittedLog)
       /\ BuiltBy(saved, CommittedLog) /\ BuiltBy(heap, HeapLog)
       /\ SameIds(heap, saved)
  BY <1>7, LogsTyped DEF Kept, LoopInv, TypeInv, Built, Mirrors
<1>12. /\ IsOpen(r) => /\ r.data = NextPlace
                       /\ Len(heap) + 1 \in DOMAIN saved /\ saved[Len(heap) + 1].id = NextPlace
       /\ IsRead(r) => /\ r.for \in DOMAIN heap
                       /\ r.data = <<heap[r.for].of, Len(heap[r.for].got) + 1>>
  <2>1. UpTo(HeapLog, CommittedLog, NextPlace)
    BY <1>9, <1>10 DEF UpTo
  <2> QED
    BY <1>8, <1>11, <2>1, ReplayedResult
<1> QED
  BY <1>12 DEF Fitting

LEMMA UnitsSplit ==
    ASSUME NEW of, NEW a \in Nat, NEW n \in Nat, n > 0
    PROVE  /\ Head(Units(of, a, n)) = <<of, a + 1>> /\ Len(Units(of, a, n)) = n
           /\ Tail(Units(of, a, n)) = Units(of, a + 1, n - 1)
<1> DEFINE q == [i \in 1..n |-> <<of, a + i>>]
           S == {<<of, a + i>> : i \in 1..n}
<1>1. q \in Seq(S) /\ Len(q) = n
  <2>1. q \in [1..n -> S]
    OBVIOUS
  <2> HIDE DEF q, S
  <2> QED BY <2>1
<1>2. \A i \in 1..n : q[i] = <<of, a + i>>
  OBVIOUS
<1> HIDE DEF q, S
<1>3. Head(q) = q[1] /\ q # <<>>
  BY <1>1
<1>4. Tail(q) = [i \in 1..(n - 1) |-> q[i + 1]]
  <2>1. Tail(q) \in Seq(S) /\ Len(Tail(q)) = n - 1 /\ \A i \in 1..(n - 1) : Tail(q)[i] = q[i + 1]
    BY <1>1, <1>3
  <2> DEFINE t == Tail(q)
  <2>2. t \in Seq(S) /\ Len(t) = n - 1 /\ \A i \in 1..(n - 1) : t[i] = q[i + 1]
    BY <2>1
  <2> HIDE DEF t
  <2>3. t = [i \in 1..(n - 1) |-> t[i]]
    BY <2>2
  <2>4. t = [i \in 1..(n - 1) |-> q[i + 1]]
    BY <2>2, <2>3
  <2> QED
    BY <2>4 DEF t
<1>5. ASSUME NEW i \in 1..(n - 1) PROVE q[i + 1] = <<of, (a + 1) + i>>
  <2>1. i + 1 \in 1..n /\ a + (i + 1) = (a + 1) + i
    OBVIOUS
  <2> QED
    BY <1>2, <2>1
<1>6. Tail(q) = [i \in 1..(n - 1) |-> <<of, (a + 1) + i>>]
  BY <1>4, <1>5
<1>7. Head(q) = <<of, a + 1>>
  BY <1>2, <1>3
<1> QED
  BY <1>1, <1>6, <1>7 DEF Units, q

(* An answer given to a live cell fits too, and the registry goes with the *)
(* handles.                                                                *)
LEMMA HandlesApart ==
    ASSUME LoopInv, StreamInv, NEW g \in DOMAIN heap, NEW h \in DOMAIN heap, g # h
    PROVE  heap[g].id # heap[h].id
<1>1. heap[g].id \in Places /\ heap[h].id \in Places
  BY LogsTyped DEF StreamInv, Built, Kept, BuiltBy, HandlesOpened, LogType
<1>2. g \in Nat /\ h \in Nat
  BY DEF LoopInv, TypeInv
<1>3. Before(heap[g].id, heap[h].id) \/ Before(heap[h].id, heap[g].id)
  BY <1>2 DEF StreamInv, Built, BuiltBy, HandlesOpened
<1> QED
  BY <1>1, <1>3, BeforeOrder

LEMMA HandlesEarlier ==
    ASSUME LoopInv, StreamInv, NEW h \in DOMAIN heap
    PROVE  heap[h].id # NextPlace
<1>1. heap[h].id \in DOMAIN HeapLog
  BY DEF StreamInv, Built, BuiltBy, HandlesOpened
<1>2. Before(heap[h].id, NextPlace) /\ NextPlace \in Places
  BY <1>1, LogsTyped DEF StreamInv, Kept
<1> QED
  BY <1>2, BeforeOrder

LEMMA FedStep ==
    ASSUME LoopInv, ReplayInv, StreamInv, NEW r, Answered(r), ~eval.live, Fed(r)
    PROVE  Fitting(r) /\ RegistryInv' /\ Mirrors'
<1>1. /\ Fitting(r)
      /\ IsOpen(r) => Len(heap) + 1 \in DOMAIN saved /\ saved[Len(heap) + 1].id = r.data
  BY FedFits DEF StreamInv
<1>2. /\ ~engine.warm /\ engine'.warm = engine.warm /\ saved' = saved /\ streams' = streams
      /\ Resume(r) /\ heap \in Seq(Handle)
  BY DEF StreamInv, Kept, PlaceInv, Answered, Fed, LoopInv, TypeInv, EvalType
<1>3. RegistryInv'
  BY <1>2 DEF StreamInv, RegistryInv
<1>4. SameIds(heap, saved)
  BY <1>2 DEF StreamInv, Mirrors
<1>5. SameIds(heap', saved)
  <2>1. CASE IsOpen(r)
    <3> DEFINE k == [id |-> r.data, of |-> Effect, got |-> <<>>]
    <3>1. heap' = Append(heap, k) /\ k.id = r.data
      BY <1>2, <2>1 DEF Resume, IsOpen
    <3> HIDE DEF k
    <3>2. /\ DOMAIN heap' = DOMAIN heap \cup {Len(heap) + 1}
          /\ \A h \in DOMAIN heap : heap'[h] = heap[h]
          /\ heap'[Len(heap) + 1] = k
      BY <1>2, <3>1
    <3> QED
      BY <1>1, <1>4, <2>1, <3>1, <3>2 DEF SameIds
  <2>2. CASE IsRead(r)
    <3>1. heap' = [heap EXCEPT ![r.for].got = Append(@, r.data)]
      BY <1>2, <2>2 DEF Resume, IsRead
    <3>2. r.for \in DOMAIN heap
      BY <1>1, <2>2 DEF Fitting
    <3>3. DOMAIN heap' = DOMAIN heap /\ \A h \in DOMAIN heap : heap'[h].id = heap[h].id
      <4>1. \A h \in DOMAIN heap : heap[h] \in Handle
        BY <1>2
      <4> QED
        BY <3>1, <3>2, <4>1 DEF Handle
    <3> QED
      BY <1>4, <3>3 DEF SameIds
  <2>3. CASE ~IsOpen(r) /\ ~IsRead(r)
    <3>1. heap' = heap
      BY <1>2, <2>3 DEF Resume, IsOpen, IsRead
    <3> QED
      BY <1>4, <3>1
  <2> QED
    BY <2>1, <2>2, <2>3
<1> QED
  BY <1>1, <1>2, <1>3, <1>5 DEF Mirrors

LEMMA RegistryShrinks ==
    ASSUME RegistryInv, heap' = heap, engine'.warm = engine.warm,
           \A k \in DOMAIN streams' : k \in DOMAIN streams /\ Same(k)
    PROVE  RegistryInv'
<1>1. ~engine.warm => DOMAIN streams' = {}
  BY DEF RegistryInv
<1>2. ASSUME NEW h \in DOMAIN heap, heap[h].id \in DOMAIN streams'
      PROVE  LET st == streams'[heap[h].id] IN
             /\ st.of = heap[h].of
             /\ st.read = Len(heap[h].got) + Len(st.pending)
             /\ st.pending = Units(st.of, Len(heap[h].got), Len(st.pending))
  <2> DEFINE id == heap[h].id
             st == streams[id]
             su == streams'[id]
  <2>1. id \in DOMAIN streams /\ su.of = st.of /\ su.read = st.read /\ su.pending = st.pending
    BY <1>2 DEF Same
  <2>2. /\ st.of = heap[h].of /\ st.read = Len(heap[h].got) + Len(st.pending)
        /\ st.pending = Units(st.of, Len(heap[h].got), Len(st.pending))
    BY <2>1 DEF RegistryInv
  <2> HIDE DEF st, su
  <2>3. /\ su.of = heap[h].of /\ su.read = Len(heap[h].got) + Len(su.pending)
        /\ su.pending = Units(su.of, Len(heap[h].got), Len(su.pending))
    BY <2>1, <2>2
  <2> QED
    BY <2>3 DEF su
<1> QED
  BY <1>1, <1>2 DEF RegistryInv

LEMMA QuietStep ==
    ASSUME StreamInv, NEW r, Answered(r), Quiet(r)
    PROVE  Fitting(r) /\ RegistryInv'
<1>1. heap' = heap /\ engine' = engine
  BY DEF Answered, Quiet, Resume, IsOpen, IsRead
<1>2. \A k \in DOMAIN streams' : k \in DOMAIN streams /\ Same(k)
  BY DEF Quiet
<1>3. RegistryInv'
  BY <1>1, <1>2, RegistryShrinks DEF StreamInv
<1> QED
  BY <1>3 DEF Fitting, Quiet

LEMMA OpenStep ==
    ASSUME LoopInv, StreamInv, NEW r, Answered(r), eval.live, Opens(r)
    PROVE  Fitting(r) /\ RegistryInv'
<1>1. eval.pc # "idle" /\ Resume(r) /\ engine' = engine
  BY DEF Answered
<1>2. FenceName = NextPlace /\ engine.warm
  BY <1>1 DEF FenceName, NextPlace, Ordinal, StreamInv, Kept, PlaceInv
<1>3. r.data = NextPlace /\ ~IsRead(r) /\ IsOpen(r)
  BY <1>2 DEF Opens, IsOpen, IsRead
<1> DEFINE k == [id |-> r.data, of |-> Effect, got |-> <<>>]
           n == Len(heap) + 1
<1>4. heap' = Append(heap, k) /\ k.id = NextPlace /\ k.of = Effect /\ k.got = <<>>
  BY <1>1, <1>3 DEF Resume, IsOpen
<1> HIDE DEF k
<1>5. /\ DOMAIN heap' = DOMAIN heap \cup {n} /\ \A h \in DOMAIN heap : heap'[h] = heap[h]
      /\ heap'[n] = k
  BY <1>4 DEF LoopInv, TypeInv
<1>6. ASSUME NEW h \in DOMAIN heap', heap'[h].id \in DOMAIN streams'
      PROVE  LET st == streams'[heap'[h].id] IN
             /\ st.of = heap'[h].of
             /\ st.read = Len(heap'[h].got) + Len(st.pending)
             /\ st.pending = Units(st.of, Len(heap'[h].got), Len(st.pending))
  <2>1. CASE h \in DOMAIN heap
    <3>1. heap'[h] = heap[h] /\ heap[h].id # NextPlace
      BY <1>5, <2>1, HandlesEarlier
    <3>2. heap[h].id \in DOMAIN streams /\ Same(heap[h].id)
      BY <1>2, <1>6, <3>1 DEF Opens
    <3> QED
      BY <2>1, <3>1, <3>2 DEF StreamInv, RegistryInv, Same
  <2>2. CASE h = n
    <3>1. heap'[h] = k /\ heap'[h].id = FenceName
      BY <1>2, <1>4, <1>5, <2>2
    <3> DEFINE st == streams'[heap'[h].id]
    <3>2. st.of = Effect /\ st.read = 0 /\ st.pending = <<>>
      BY <1>6, <3>1 DEF Opens
    <3>3. heap'[h].of = Effect /\ Len(heap'[h].got) = 0 /\ Len(st.pending) = 0
      BY <1>4, <3>1, <3>2
    <3>4. st.pending = Units(st.of, 0, 0)
      BY <3>2, UnitsEmpty
    <3> HIDE DEF st
    <3>5. /\ st.of = heap'[h].of /\ st.read = Len(heap'[h].got) + Len(st.pending)
          /\ st.pending = Units(st.of, Len(heap'[h].got), Len(st.pending))
      BY <3>2, <3>3, <3>4
    <3> QED
      BY <3>5 DEF st
  <2> QED
    BY <1>5, <2>1, <2>2
<1>7. RegistryInv'
  BY <1>1, <1>2, <1>6 DEF RegistryInv
<1> QED
  BY <1>3, <1>7 DEF Fitting

LEMMA ReadStep ==
    ASSUME LoopInv, StreamInv, NEW r, Answered(r), eval.live, Reads(r)
    PROVE  Fitting(r) /\ RegistryInv'
<1> DEFINE f == r.for
           id == heap[f].id
           st == streams[id]
           a == Len(heap[f].got)
<1>1. /\ eval.pc # "idle" /\ Resume(r) /\ engine' = engine /\ r \in ResultType
      /\ f \in DOMAIN heap /\ IsRead(r) /\ id \in DOMAIN streams /\ DOMAIN streams' = DOMAIN streams
  BY DEF Answered, Reads
<1>2. engine.warm
  BY <1>1 DEF StreamInv, Kept, PlaceInv
<1>3. heap[f] \in Handle /\ st \in Stream
  BY <1>1 DEF LoopInv, TypeInv
<1>4. a \in Nat /\ st.pending \in Seq(Unit) /\ Len(st.pending) \in Nat /\ st.read \in Nat
  BY <1>3 DEF Handle, Stream
<1>5. /\ st.of = heap[f].of /\ st.read = a + Len(st.pending)
      /\ st.pending = Units(st.of, a, Len(st.pending))
  BY <1>1 DEF StreamInv, RegistryInv
<1>6. PICK n \in Nat, chunk \in Seq(Unit) :
             /\ chunk # <<>> /\ r.data = Head(chunk) /\ streams'[id].pending = Tail(chunk)
             /\ \/ chunk = st.pending /\ streams'[id].read = st.read
                \/ /\ st.pending = <<>> /\ chunk = Units(st.of, st.read, n)
                   /\ streams'[id].read = st.read + n
  BY DEF Reads
<1> DEFINE m == Len(chunk)
<1>7. m \in Nat /\ m > 0
  BY <1>6
<1>8. chunk = Units(st.of, a, m) /\ streams'[id].read = a + m
  <2>1. CASE chunk = st.pending /\ streams'[id].read = st.read
    BY <1>5, <2>1
  <2>2. CASE /\ st.pending = <<>> /\ chunk = Units(st.of, st.read, n)
             /\ streams'[id].read = st.read + n
    <3>1. Len(st.pending) = 0
      BY <2>2
    <3>2. st.read = a
      BY <1>4, <1>5, <3>1
    <3>3. m = n
      <4>1. CASE n > 0
        <5>1. chunk = Units(st.of, a, n)
          BY <2>2, <3>2
        <5> HIDE DEF st, a
        <5>2. Len(Units(st.of, a, n)) = n
          BY <1>4, <4>1, UnitsSplit
        <5> QED BY <5>1, <5>2
      <4>2. CASE n = 0
        <5>1. chunk = <<>>
          BY <2>2, <4>2 DEF Units
        <5> QED BY <1>6, <5>1
      <4> QED
        BY <4>1, <4>2
    <3> QED
      BY <2>2, <3>2, <3>3
  <2> QED
    BY <1>6, <2>1, <2>2
<1>9. /\ r.data = <<heap[f].of, a + 1>> /\ streams'[id].of = heap[f].of
      /\ streams'[id].pending = Units(heap[f].of, a + 1, m - 1)
      /\ Len(streams'[id].pending) = m - 1
  <2>1. /\ Head(chunk) = <<st.of, a + 1>>
        /\ Tail(chunk) = Units(st.of, a + 1, m - 1)
    <3> HIDE DEF a, m, st
    <3> QED BY <1>4, <1>7, <1>8, UnitsSplit
  <2>2. Len(Tail(chunk)) = m - 1
    BY <1>6
  <2>3. streams'[id].of = st.of
    BY DEF Reads
  <2> QED
    BY <1>5, <1>6, <2>1, <2>2, <2>3
<1>10. Fitting(r)
  BY <1>1, <1>9 DEF Fitting, IsOpen, IsRead
<1>11. heap' = [heap EXCEPT ![f].got = Append(@, r.data)]
  BY <1>1 DEF Resume, IsRead
<1>12. /\ DOMAIN heap' = DOMAIN heap
       /\ \A h \in DOMAIN heap : h # f => heap'[h] = heap[h]
       /\ heap'[f].id = id /\ heap'[f].of = heap[f].of
       /\ heap'[f].got = Append(heap[f].got, r.data)
  BY <1>1, <1>3, <1>11 DEF Handle
<1>13. Len(heap'[f].got) = a + 1
  BY <1>3, <1>12 DEF Handle
<1>14. ASSUME NEW h \in DOMAIN heap', heap'[h].id \in DOMAIN streams'
       PROVE  LET su == streams'[heap'[h].id] IN
              /\ su.of = heap'[h].of
              /\ su.read = Len(heap'[h].got) + Len(su.pending)
              /\ su.pending = Units(su.of, Len(heap'[h].got), Len(su.pending))
  <2>1. CASE h # f
    <3>1. heap'[h] = heap[h] /\ heap[h].id # id /\ h \in DOMAIN heap
      BY <1>1, <1>12, <2>1, HandlesApart
    <3>2. heap[h].id \in DOMAIN streams /\ Same(heap[h].id)
      BY <1>1, <1>14, <3>1 DEF Reads
    <3> QED
      BY <2>1, <3>1, <3>2 DEF StreamInv, RegistryInv, Same
  <2>2. CASE h = f
    <3>1. a + m = (a + 1) + (m - 1)
      BY <1>4, <1>7
    <3>2. heap'[h].id = id /\ heap'[h].of = heap[f].of /\ Len(heap'[h].got) = a + 1
      BY <1>12, <1>13, <2>2
    <3> HIDE DEF a, m, id
    <3> QED
      BY <1>8, <1>9, <3>1, <3>2
  <2> QED
    BY <2>1, <2>2
<1>15. RegistryInv'
  BY <1>1, <1>2, <1>14 DEF RegistryInv
<1> QED
  BY <1>10, <1>15

LEMMA AnsweredStream ==
    ASSUME LoopInv, ReplayInv, StreamInv, NEW r, Answered(r), Shaped(r)
    PROVE  StreamInv'
<1>1. Kept' /\ (~eval.live => Fed(r))
  BY AnsweredKept DEF StreamInv
<1>2. UNCHANGED <<oplog, saved, engine>> /\ eval.pc # "idle"
  BY DEF Answered
<1>3. eval.live => ~Feeding /\ engine.warm
  BY <1>2 DEF StreamInv, Kept, PlaceInv, Feeding
<1>4. Fitting(r) /\ RegistryInv' /\ Mirrors'
  <2>1. CASE ~eval.live
    BY <1>1, <2>1, FedStep
  <2>2. CASE eval.live
    <3>1. Mirrors'
      BY <1>2, <1>3, <2>2 DEF Mirrors
    <3>2. Quiet(r) \/ Opens(r) \/ Reads(r)
      BY <1>3, <2>2 DEF Shaped, Fed
    <3> QED
      BY <2>2, <3>1, <3>2, QuietStep, OpenStep, ReadStep
  <2> QED
    BY <2>1, <2>2
<1>5. BuiltBy(heap', HeapLog')
  BY <1>4, FittingBuilt DEF StreamInv, Kept, Built
<1>6. CommittedLog' = CommittedLog
  BY <1>2 DEF CommittedLog
<1> QED
  BY <1>1, <1>2, <1>4, <1>5, <1>6 DEF StreamInv, Built

(* A step that records nothing and leaves heap and registry as they are.   *)
LEMMA StillStream ==
    ASSUME StreamInv, Kept', Rows \in Nat, UNCHANGED <<engine, oplog, streams, heap, saved>>,
           eval'.res = eval.res, eval.res = <<>> \/ eval'.src = eval.src
    PROVE  StreamInv'
<1>1. Rows' = Rows
  BY DEF Rows
<1>2. HeapLog' = HeapLog /\ CommittedLog' = CommittedLog
  BY <1>1, LogsSame
<1> QED
  BY <1>2 DEF StreamInv, Built, Mirrors, RegistryInv

LEMMA EndStream ==
    ASSUME "clamp" \notin Faults, "refuse" \notin Faults, LoopInv, LoopInv', StreamInv, Kept',
           NEW commits \in BOOLEAN, NEW fits \in BOOLEAN, CellEnds(commits, fits)
    PROVE  StreamInv'
<1> DEFINE row == [src |-> eval.src, calls |-> eval.calls, res |-> eval.res]
<1>1. commits /\ fits
  BY DEF CellEnds
<1>2. /\ eval.pc # "idle" /\ eval.live /\ oplog' = Append(oplog, row) /\ saved' = heap /\ heap' = heap
      /\ eval' = Idle /\ engine'.warm = engine.warm /\ streams' = SweepStreams
  BY <1>1 DEF CellEnds, LoopInv, TypeInv
<1>3. engine.warm /\ Rows = Len(oplog) /\ eval'.res = <<>>
  BY <1>2, IdleFields DEF StreamInv, Kept, PlaceInv, Rows
<1>4. row.src = eval.src /\ row.res = eval.res /\ Len(eval.res) \in Nat /\ oplog \in Seq(Row)
  BY EvalFields DEF LoopInv, TypeInv
<1> HIDE DEF row
<1>5. /\ Len(oplog) \in Nat /\ Len(oplog') = Len(oplog) + 1 /\ oplog'[Len(oplog) + 1] = row
      /\ \A i \in 1..Len(oplog) : oplog'[i] = oplog[i]
  BY <1>2, <1>4
<1>6. Rows' = Rows + 1 /\ Rows \in Nat
  BY <1>2, <1>3, <1>5 DEF Rows
<1>7. HeapLog' = HeapLog
  BY <1>3, <1>4, <1>5, <1>6, LogsClose
<1>8. HeapLog' = CommittedLog'
  BY <1>2, <1>3, LogsMeet DEF LoopInv, TypeInv
<1>9. Built'
  BY <1>2, <1>7, <1>8 DEF StreamInv, Built
<1>10. \A k \in DOMAIN streams' : k \in DOMAIN streams /\ streams'[k] = streams[k]
  BY <1>2 DEF SweepStreams
<1>11. RegistryInv'
  BY <1>2, <1>10, RegistryShrinks DEF StreamInv, Same
<1> QED
  BY <1>2, <1>3, <1>9, <1>11 DEF StreamInv, Mirrors

LEMMA EvictStream ==
    ASSUME LoopInv, StreamInv, Kept', Evict
    PROVE  StreamInv'
<1>1. /\ eval' = Idle /\ ~engine'.warm /\ engine'.replayed = 0 /\ heap' = <<>>
      /\ streams' = NoStreams /\ UNCHANGED <<oplog, saved>>
  BY DEF Evict
<1>2. Rows' = 0 /\ Len(eval'.res) = 0 /\ Now' = 1
  BY <1>1, IdleFields DEF Rows, Now
<1>3. DOMAIN HeapLog' = {}
  BY <1>2 DEF HeapLog
<1>4. BuiltBy(heap', HeapLog')
  BY <1>1, <1>3, NothingBuilt
<1>5. CommittedLog' = CommittedLog
  BY <1>1 DEF CommittedLog
<1>6. DOMAIN streams' = {} /\ DOMAIN heap' = {}
  BY <1>1 DEF NoStreams
<1> QED
  BY <1>1, <1>4, <1>5, <1>6 DEF StreamInv, Built, Mirrors, RegistryInv, SameIds

LEMMA ResetStream ==
    ASSUME LoopInv, Kept', Reset
    PROVE  StreamInv'
<1>1. /\ eval' = Idle /\ ~engine'.warm /\ engine'.replayed = 0 /\ heap' = <<>>
      /\ streams' = NoStreams /\ oplog' = <<>> /\ saved' = <<>>
  BY DEF Reset, LoopInv, PcInv
<1>2. Rows' = 0 /\ Len(eval'.res) = 0 /\ Now' = 1 /\ DOMAIN oplog' = {}
  BY <1>1, IdleFields DEF Rows, Now
<1>3. DOMAIN HeapLog' = {} /\ DOMAIN CommittedLog' = {}
  BY <1>2 DEF HeapLog, CommittedLog
<1>4. Built'
  BY <1>1, <1>3, NothingBuilt DEF Built
<1>5. DOMAIN streams' = {} /\ DOMAIN heap' = {}
  BY <1>1 DEF NoStreams
<1> QED
  BY <1>1, <1>4, <1>5 DEF StreamInv, Mirrors, RegistryInv, SameIds

LEMMA RestoreStream ==
    ASSUME LoopInv, LoopInv', StreamInv, Kept', RestoreImage
    PROVE  StreamInv'
<1>1. /\ eval' = eval /\ eval.pc = "idle" /\ ~engine.warm /\ engine'.warm /\ heap' = saved
      /\ UNCHANGED <<oplog, saved, streams>>
  BY DEF RestoreImage, LoopInv, TypeInv
<1>2. eval'.res = <<>>
  BY <1>1, IdleFields DEF LoopInv, PcInv
<1>3. HeapLog' = CommittedLog'
  BY <1>1, <1>2, LogsMeet DEF LoopInv, TypeInv
<1>4. CommittedLog' = CommittedLog
  BY <1>1 DEF CommittedLog
<1>5. DOMAIN streams' = {}
  BY <1>1 DEF StreamInv, RegistryInv
<1> QED
  BY <1>1, <1>3, <1>4, <1>5 DEF StreamInv, Built, Mirrors, RegistryInv

LEMMA ReplayEndStream ==
    ASSUME LoopInv, ReplayInv, StreamInv, ReplayedCellEnds
    PROVE  StreamInv'
<1>1. Kept' /\ Rows' = Rows + 1 /\ Rows \in Nat
  BY ReplayEndKept, LogsTyped DEF StreamInv, Kept
<1>2. /\ eval' = Idle /\ UNCHANGED <<oplog, heap, saved>> /\ streams' = SweepStreams
      /\ eval.pc # "idle" /\ ~eval.live
  BY DEF ReplayedCellEnds
<1>3. ~engine.warm
  BY <1>2 DEF StreamInv, Kept, PlaceInv, LoopInv, TypeInv, EvalType
<1>4. /\ eval.no = Rows + 1
      /\ eval.src = oplog[eval.no].src /\ Len(eval.res) \in Nat
      /\ Len(eval.res) = Len(oplog[eval.no].res)
      /\ \A j \in 1..Len(eval.res) : eval.res[j] = oplog[eval.no].res[j]
  BY ReplayedWhole DEF StreamInv
<1>5. eval'.res = <<>>
  BY <1>2, IdleFields
<1>6. HeapLog' = HeapLog
  BY <1>1, <1>2, <1>4, <1>5, LogsClose
<1>7. CommittedLog' = CommittedLog
  BY <1>2 DEF CommittedLog
<1>8. DOMAIN streams' = {}
  BY <1>2, <1>3 DEF StreamInv, RegistryInv, SweepStreams
<1> QED
  BY <1>1, <1>2, <1>3, <1>6, <1>7, <1>8 DEF StreamInv, Built, Mirrors, RegistryInv

LEMMA StreamStep ==
    ASSUME "clamp" \notin Faults, "refuse" \notin Faults,
           LoopInv, LoopInv', ReplayInv, StreamInv, [Next]_vars
    PROVE  StreamInv'
<1>0. Kept' /\ Kept /\ PlaceInv /\ Rows \in Nat
  BY KeptStep, LogsTyped DEF StreamInv, Kept
<1>1. ASSUME NEW s \in Sources, EvalBegin(s) PROVE StreamInv'
  <2>1. eval'.res = <<>> /\ UNCHANGED <<engine, oplog, streams, heap, saved>> /\ eval.pc = "idle"
    BY <1>1, BeginFields DEF EvalBegin
  <2>2. eval.res = <<>>
    BY <2>1, IdleFields DEF LoopInv, PcInv
  <2> QED
    BY <1>0, <2>1, <2>2, StillStream
<1>2. ASSUME NEW k \in AllKinds, VmCalls(k) PROVE StreamInv'
  <2>1. /\ eval'.res = eval.res /\ eval'.src = eval.src
        /\ UNCHANGED <<engine, oplog, streams, heap, saved>>
    BY <1>2, CallFields DEF VmCalls
  <2> QED
    BY <1>0, <2>1, StillStream
<1>3. ASSUME NEW k \in AllKinds, ClientHostCall(k) PROVE StreamInv'
  <2>1. /\ eval'.res = eval.res /\ eval'.src = eval.src
        /\ UNCHANGED <<engine, oplog, streams, heap, saved>>
    BY <1>3, ParkFields DEF ClientHostCall
  <2> QED
    BY <1>0, <2>1, StillStream
<1>4. ASSUME NEW r, Answered(r), Shaped(r) PROVE StreamInv'
  BY <1>4, AnsweredStream
<1>5. ASSUME NEW id \in Nat, id \notin bridge.pending, ResolveHostCall(id) PROVE StreamInv'
  <2>1. UNCHANGED <<eval, engine, oplog, streams, heap, saved>>
    BY <1>5 DEF ResolveHostCall
  <2> QED
    BY <1>0, <2>1, StillStream
<1>6. ASSUME NEW commits \in BOOLEAN, NEW fits \in BOOLEAN, CellEnds(commits, fits)
      PROVE  StreamInv'
  BY <1>0, <1>6, EndStream
<1>7. CASE Evict
  BY <1>0, <1>7, EvictStream
<1>8. CASE RestoreImage
  BY <1>0, <1>8, RestoreStream
<1>9. CASE ReplayCell
  <2>1. eval'.res = <<>> /\ UNCHANGED <<engine, oplog, streams, heap, saved>> /\ eval.pc = "idle"
    BY <1>9, ReplayFields DEF ReplayCell
  <2>2. eval.res = <<>>
    BY <2>1, IdleFields DEF LoopInv, PcInv
  <2> QED
    BY <1>0, <2>1, <2>2, StillStream
<1>10. CASE ReplayedCellEnds
  BY <1>10, ReplayEndStream
<1>11. CASE Reset
  BY <1>0, <1>11, ResetStream
<1>12. CASE Finished \/ UNCHANGED vars
  <2>1. UNCHANGED <<eval, engine, oplog, streams, heap, saved>>
    BY <1>12 DEF Finished, vars
  <2> QED
    BY <1>0, <2>1, StillStream
<1> QED
  BY <1>0, <1>1, <1>2, <1>3, <1>4, <1>5, <1>6, <1>7, <1>8, <1>9, <1>10, <1>11, <1>12, StreamCases

LEMMA StreamInit == ASSUME Init PROVE StreamInv
<1>1. /\ eval = Idle /\ engine.warm /\ engine.replayed = 0 /\ oplog = <<>> /\ Len(oplog) = 0
      /\ streams = NoStreams /\ heap = <<>> /\ saved = <<>>
  BY DEF Init
<1>2. eval.pc = "idle" /\ eval.feed = <<>> /\ eval.res = <<>> /\ Len(eval.calls) = 0
  BY <1>1, IdleFields
<1>3. Kept
  BY <1>1, <1>2 DEF Kept, PlaceInv, BudgetInv
<1>4. Rows = 0 /\ Now = 1 /\ Len(eval.res) = 0 /\ DOMAIN oplog = {} /\ DOMAIN heap = {}
  BY <1>1, <1>2 DEF Rows, Now
<1>5. DOMAIN CommittedLog = {} /\ DOMAIN HeapLog = {}
  BY <1>4 DEF CommittedLog, HeapLog
<1>6. Built
  BY <1>1, <1>5, NothingBuilt DEF Built
<1> QED
  BY <1>1, <1>3, <1>4, <1>6 DEF StreamInv, RegistryInv, Mirrors

(* Streams deliver every body in order, whole up to where they are: for    *)
(* any number of cells, streams, reads and chunk sizes, across evictions,  *)
(* restores and journal replays (_doFetchStream, _doStreamRead,            *)
(* replayJournal), as long as no journal row is clamped and no checkpoint  *)
(* refused: either lets two streams get the same id.                       *)
THEOREM StreamsAlwaysDeliver ==
    ASSUME "clamp" \notin Faults, "refuse" \notin Faults
    PROVE  Spec => []StreamDelivery
<1>1. Init => ReplayInv /\ StreamInv
  <2> SUFFICES ASSUME Init PROVE ReplayInv /\ StreamInv
    OBVIOUS
  <2>1. /\ eval.ops = Charged(eval.calls, 0) /\ Len(eval.calls) = 0 /\ eval.pc = "idle"
        /\ oplog = <<>> /\ fired = {}
    BY IdleFields, ChargedEmpty DEF Init
  <2> QED
    BY <2>1, StreamInit DEF ReplayInv
<1>2. LoopInv /\ LoopInv' /\ ReplayInv /\ StreamInv /\ [Next]_vars => ReplayInv' /\ StreamInv'
  BY ReplayStep, StreamStep
<1>3. StreamInv => StreamDelivery
  BY DEF StreamInv, Built, BuiltBy, InOrder, StreamDelivery
<1> QED
  BY <1>1, <1>2, <1>3, LoopInvariant, PTL DEF Spec

=============================================================================
