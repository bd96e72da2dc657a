--------------------------- MODULE ChannelsProofs ---------------------------
(***************************************************************************)
(* Theorems about the two live channels of a session: the WebSocket queue  *)
(* (VmWebSocket) and TCP sockets (Sockets).  Nothing is assumed of the     *)
(* bounds; the theorems name what they ask of the other constants.         *)
(***************************************************************************)
EXTENDS Sockets, VmWebSocket, FoldTheorems

-----------------------------------------------------------------------------
(* The WebSocket queue: numbers, the cursor, and what it keeps.            *)

FrameTypes == {"open", "message", "overflow", "error", "close"}
Frame == [type : FrameTypes, seq : Nat]

(* The frames at or after a cursor, of a queue numbered from b + 1.        *)
Numbered(q, b) == \A i \in 1..Len(q) : q[i].seq = b + i
From(b, last) == IF last > b THEN last ELSE b

Selects(G, q, since) ==
    /\ G[0] = <<>>
    /\ \A k \in 0..(Len(q) - 1) :
          G[k + 1] = IF q[k + 1].seq >= since THEN Append(G[k], q[k + 1]) ELSE G[k]
    /\ AtOrAfter(q, since) = G[Len(q)]

(* The fold of AtOrAfter, one element at a time.                           *)
LEMMA SelectUnfolds ==
    ASSUME NEW q \in Seq(Frame), NEW since \in Nat
    PROVE  \E G : Selects(G, q, since)
<1> DEFINE n == Len(q)
           V == Seq(Frame)
           step == [i \in 1..n |-> [x \in V |-> IF q[i].seq >= since THEN Append(x, q[i]) ELSE x]]
           Sol(f) == f = [s \in SUBSET (DOMAIN q) |->
                            IF s = {} THEN <<>>
                            ELSE IF q[Max(s)].seq >= since
                                 THEN Append(f[s \ {Max(s)}], q[Max(s)]) ELSE f[s \ {Max(s)}]]
           ch == CHOOSE f : Sol(f)
<1>1. AtOrAfter(q, since) = ch[DOMAIN q]
  BY DEF AtOrAfter, FoldLeft, MapThenFoldSet
<1>2. DOMAIN q = 1..n /\ n \in Nat /\ \A i \in 1..n : q[i] \in Frame
  OBVIOUS
<1>3. step \in [1..n -> [V -> V]]
  <2>1. ASSUME NEW i \in 1..n, NEW x \in V
        PROVE  (IF q[i].seq >= since THEN Append(x, q[i]) ELSE x) \in V
    BY <1>2
  <2> HIDE DEF V
  <2> QED BY <2>1
<1>4. PICK it \in [SUBSET (1..n) -> V] : FoldsOver(it, n, <<>>, step)
  <2>1. <<>> \in V
    OBVIOUS
  <2> HIDE DEF V, step, n
  <2> QED BY <1>2, <1>3, <2>1, FoldExists
<1>5. Sol(it)
  <2>1. ASSUME NEW s \in SUBSET (1..n), s # {}
        PROVE  step[Max(s)][it[s \ {Max(s)}]]
                 = IF q[Max(s)].seq >= since
                   THEN Append(it[s \ {Max(s)}], q[Max(s)]) ELSE it[s \ {Max(s)}]
    <3>1. Max(s) \in 1..n
      BY <1>2, <2>1, MaxOfNumbers
    <3>2. it[s \ {Max(s)}] \in V
      <4> HIDE DEF V
      <4> QED BY <1>4
    <3> HIDE DEF V
    <3> QED BY <3>1, <3>2
  <2>2. it = [s \in SUBSET (1..n) |-> IF s = {} THEN <<>> ELSE step[Max(s)][it[s \ {Max(s)}]]]
    BY <1>4 DEF FoldsOver
  <2> HIDE DEF step
  <2> QED BY <1>2, <2>1, <2>2
<1>6. Sol(ch)
  <2> HIDE DEF Sol
  <2> QED BY <1>5
<1> DEFINE G == [k \in 0..n |-> ch[1..k]]
<1>7. ASSUME NEW k \in 0..(n - 1)
      PROVE  G[k + 1] = IF q[k + 1].seq >= since THEN Append(G[k], q[k + 1]) ELSE G[k]
  <2>1. 1..(k + 1) \in SUBSET (1..n) /\ k \in Nat
    BY <1>2
  <2>2. /\ Max(1..(k + 1)) = k + 1 /\ 1..(k + 1) # {}
        /\ (1..(k + 1)) \ {k + 1} = 1..k
    <3> HIDE DEF n
    <3> QED BY <2>1, FirstNumbers
  <2>3. ch[1..(k + 1)] = IF q[k + 1].seq >= since THEN Append(ch[1..k], q[k + 1]) ELSE ch[1..k]
    <3> HIDE DEF ch, n
    <3> DEFINE s == 1..(k + 1)
    <3>1. s \in SUBSET (DOMAIN q) /\ Max(s) = k + 1 /\ s # {} /\ s \ {k + 1} = 1..k
      BY <1>2, <2>1, <2>2
    <3> HIDE DEF s
    <3>2. ch[s] = IF s = {} THEN <<>> ELSE IF q[Max(s)].seq >= since
                  THEN Append(ch[s \ {Max(s)}], q[Max(s)]) ELSE ch[s \ {Max(s)}]
      BY <1>6, <3>1
    <3>3. ch[s] = IF q[k + 1].seq >= since THEN Append(ch[1..k], q[k + 1]) ELSE ch[1..k]
      BY <3>1, <3>2
    <3> QED BY <3>3 DEF s
  <2>4. k \in 0..n /\ k + 1 \in 0..n
    OBVIOUS
  <2> HIDE DEF ch
  <2> QED BY <2>3, <2>4
<1>8. G[0] = <<>>
  <2>1. 0 \in 0..n /\ 1..0 = {} /\ {} \in SUBSET (DOMAIN q)
    BY <1>2
  <2> HIDE DEF ch
  <2> QED BY <1>6, <2>1
<1>9. AtOrAfter(q, since) = G[n]
  <2> HIDE DEF ch
  <2> QED BY <1>1, <1>2
<1> HIDE DEF G
<1>10. Selects(G, q, since)
  BY <1>7, <1>8, <1>9 DEF Selects
<1> QED
  BY <1>10

(* What is kept of a numbered queue is the part after the cursor.          *)
Kept(e, q, b, last) ==
    /\ e \in Seq(Frame)
    /\ Len(e) = b + Len(q) - From(b, last) \/ (Len(e) = 0 /\ b + Len(q) <= From(b, last))
    /\ Numbered(e, From(b, last))

(* What the filter of the queue keeps.                                     *)
LEMMA SelectKeeps ==
    ASSUME NEW q \in Seq(Frame), NEW b \in Nat, NEW last \in Nat, Numbered(q, b)
    PROVE  Kept(AtOrAfter(q, last + 1), q, b, last)
<1> DEFINE n == Len(q)
           m == From(b, last)
<1>1. n \in Nat /\ \A i \in 1..n : q[i] \in Frame /\ q[i].seq = b + i
  BY DEF Numbered
<1>2. m \in Nat /\ m >= b /\ m >= last /\ (m = b \/ m = last)
  BY DEF From
<1>3. last + 1 \in Nat
  OBVIOUS
<1>4. PICK G : Selects(G, q, last + 1)
  BY <1>3, SelectUnfolds
<1> DEFINE P(k) == /\ G[k] \in Seq(Frame)
                   /\ Len(G[k]) = IF b + k > m THEN b + k - m ELSE 0
                   /\ \A i \in 1..Len(G[k]) : G[k][i].seq = m + i
           S == {k \in 0..n : P(k)}
<1>5. 0 \in S
  <2>1. G[0] = <<>>
    BY <1>4 DEF Selects
  <2>2. P(0)
    BY <1>2, <2>1
  <2> QED BY <1>1, <2>2
<1>6. ASSUME NEW k \in 0..(n - 1), k \in S PROVE k + 1 \in S
  <2>1. P(k)
    BY <1>6
  <2>2. k + 1 \in 1..n /\ k \in Nat /\ k + 1 \in 0..n
    BY <1>1
  <2>3. q[k + 1] \in Frame /\ q[k + 1].seq = b + (k + 1)
    BY <1>1, <2>2
  <2>4. G[k + 1] = IF q[k + 1].seq >= last + 1 THEN Append(G[k], q[k + 1]) ELSE G[k]
    BY <1>4 DEF Selects
  <2> DEFINE f == q[k + 1]
             g == G[k]
             h == G[k + 1]
  <2> HIDE DEF f, g, h, m, n
  <2>5. CASE b + (k + 1) >= last + 1
    <3>1. h = Append(g, f)
      BY <2>3, <2>4, <2>5 DEF f, g, h
    <3>2. g \in Seq(Frame) /\ f \in Frame /\ f.seq = b + k + 1
      BY <2>1, <2>2, <2>3 DEF f, g
    <3>3. Len(g) = b + k - m
      BY <1>2, <2>1, <2>2, <2>5 DEF g
    <3>4. h \in Seq(Frame) /\ Len(h) = Len(g) + 1
          /\ \A i \in 1..Len(h) : h[i] = IF i = Len(g) + 1 THEN f ELSE g[i]
      BY <3>1, <3>2
    <3>5. \A i \in 1..Len(h) : h[i].seq = m + i
      <4> SUFFICES ASSUME NEW i \in 1..Len(h) PROVE h[i].seq = m + i
        OBVIOUS
      <4>1. CASE i = Len(g) + 1
        BY <1>2, <2>2, <3>2, <3>3, <3>4, <4>1
      <4>2. CASE i # Len(g) + 1
        <5>1. i \in 1..Len(g)
          BY <3>2, <3>4, <4>2
        <5>2. g[i].seq = m + i
          BY <2>1, <5>1 DEF g
        <5> QED BY <3>4, <4>2, <5>2
      <4> QED BY <4>1, <4>2
    <3>6. Len(h) = b + (k + 1) - m /\ b + (k + 1) > m
      BY <1>2, <2>2, <2>5, <3>2, <3>3, <3>4
    <3>7. P(k + 1)
      BY <3>4, <3>5, <3>6 DEF h
    <3> QED BY <2>2, <3>7
  <2>6. CASE ~(b + (k + 1) >= last + 1)
    <3>1. h = g
      BY <2>3, <2>4, <2>6 DEF g, h
    <3>2. Len(g) = 0 /\ ~(b + k > m) /\ ~(b + (k + 1) > m)
      BY <1>2, <2>1, <2>2, <2>6 DEF g
    <3>3. P(k + 1)
      BY <2>1, <3>1, <3>2 DEF g, h
    <3> QED BY <2>2, <3>3
  <2> QED BY <2>5, <2>6
<1>7. 0..n \subseteq S
  <2> HIDE DEF S, n
  <2> QED BY <1>1, <1>5, <1>6, BoundedInduction
<1>8. n \in 0..n
  BY <1>1
<1>9. P(n) /\ AtOrAfter(q, last + 1) = G[n]
  <2>1. P(n)
    <3> HIDE DEF P, n
    <3> QED BY <1>7, <1>8
  <2> QED BY <1>4, <2>1 DEF Selects
<1> HIDE DEF n
<1> QED
  <2> DEFINE e == AtOrAfter(q, last + 1)
  <2>1. e \in Seq(Frame) /\ (Len(e) = IF b + n > m THEN b + n - m ELSE 0)
        /\ \A i \in 1..Len(e) : e[i].seq = m + i
    BY <1>9
  <2> HIDE DEF e
  <2>2. Len(e) = b + n - m \/ (Len(e) = 0 /\ b + n <= m)
    BY <1>1, <1>2, <2>1
  <2>3. Kept(e, q, b, last)
    BY <2>1, <2>2 DEF Kept, Numbered, n
  <2> QED BY <2>3 DEF e

-----------------------------------------------------------------------------
(* The VM's side: its events are dispatched in increasing order, none      *)
(* after the cursor; a socket that was never opened has seen nothing.      *)
PcType == {"idle", "recv", "parked"}
ReadyType == {"CONNECTING", "OPEN", "CLOSED"}
VmType == [pc : PcType, handle : BOOLEAN, ready : ReadyType,
           last : Nat, got : Seq(Nat), told : Nat]

Increasing(got) == \A i \in 1..(Len(got) - 1) : got[i] < got[i + 1]
UpTo(got, last) == \A i \in 1..Len(got) : got[i] <= last

Heap(v) ==
    /\ v \in VmType
    /\ Increasing(v.got) /\ UpTo(v.got, v.last)
    /\ ~v.handle => v.pc = "idle" /\ v.last = 0 /\ v.got = <<>>

(* w is v after events up to the cursor last; all of new was dispatched.   *)
Dispatched(w, v, last, new) ==
    /\ Heap(w)
    /\ w.pc = v.pc /\ w.handle = v.handle
    /\ w.last = last
    /\ Range(v.got) \cup new \subseteq Range(w.got)

(* A later number at the end keeps a sequence increasing.                  *)
LEMMA AppendGrows ==
    ASSUME NEW got \in Seq(Nat), NEW last \in Nat, NEW x \in Nat, last < x,
           Increasing(got), UpTo(got, last)
    PROVE  /\ Append(got, x) \in Seq(Nat)
           /\ Increasing(Append(got, x)) /\ UpTo(Append(got, x), x)
           /\ Range(got) \cup {x} \subseteq Range(Append(got, x))
<1> DEFINE h == Append(got, x)
           n == Len(got)
<1>1. /\ h \in Seq(Nat) /\ n \in Nat /\ Len(h) = n + 1 /\ h[n + 1] = x
      /\ \A i \in 1..n : h[i] = got[i] /\ got[i] \in Nat /\ got[i] <= last
      /\ DOMAIN h = 1..(n + 1) /\ DOMAIN got = 1..n
  BY DEF UpTo
<1>2. \A i \in 1..(n - 1) : got[i] < got[i + 1]
  BY DEF Increasing
<1> HIDE DEF h, n
<1>3. Increasing(h)
  <2> SUFFICES ASSUME NEW i \in 1..n PROVE h[i] < h[i + 1]
    BY <1>1 DEF Increasing
  <2>1. CASE i = n
    BY <1>1, <2>1
  <2>2. CASE i # n
    <3>1. i \in 1..(n - 1) /\ i + 1 \in 1..n
      BY <1>1, <2>2
    <3> QED BY <1>1, <1>2, <3>1
  <2> QED BY <2>1, <2>2
<1>4. UpTo(h, x)
  <2> SUFFICES ASSUME NEW i \in 1..(n + 1) PROVE h[i] <= x
    BY <1>1 DEF UpTo
  <2>1. CASE i = n + 1
    BY <1>1, <2>1
  <2>2. CASE i # n + 1
    <3>1. i \in 1..n
      BY <1>1, <2>2
    <3> QED BY <1>1, <3>1
  <2> QED BY <2>1, <2>2
<1>5. Range(got) \cup {x} \subseteq Range(h)
  <2>1. n + 1 \in DOMAIN h /\ \A i \in DOMAIN got : i \in DOMAIN h /\ h[i] = got[i]
    BY <1>1
  <2> QED BY <1>1, <2>1 DEF Range
<1> QED
  BY <1>1, <1>3, <1>4, <1>5 DEF h

(* Ingest keeps the VM's record what it is.                                *)
LEMMA IngestType ==
    ASSUME NEW v \in VmType, NEW f \in Frame
    PROVE  /\ Ingest(v, f) \in VmType
           /\ Ingest(v, f).pc = v.pc /\ Ingest(v, f).handle = v.handle
           /\ Ingest(v, f).last = (IF f.seq > v.last THEN f.seq ELSE v.last)
           /\ Ingest(v, f).got = Append(v.got, f.seq)
<1>1. f.type \in FrameTypes /\ f.type \notin {"gone", "dropped"} /\ f.seq \in Nat
  BY DEF Frame, FrameTypes
<1>2. /\ v.pc \in PcType /\ v.handle \in BOOLEAN /\ v.ready \in ReadyType
      /\ v.last \in Nat /\ v.got \in Seq(Nat) /\ v.told \in Nat
  BY DEF VmType
<1> DEFINE ready == CASE f.type \in {"close", "gone"} -> "CLOSED"
                      [] f.type \in {"open", "message"} /\ v.ready = "CONNECTING" -> "OPEN"
                      [] OTHER -> v.ready
           last == IF f.seq > v.last THEN f.seq ELSE v.last
           told == IF f.type = "dropped" /\ f.seq > v.told THEN f.seq ELSE v.told
           got == IF f.type \notin {"gone", "dropped"} THEN Append(v.got, f.seq) ELSE v.got
<1>3. ready \in ReadyType
  BY <1>2 DEF ReadyType
<1>4. last \in Nat /\ told \in Nat /\ got \in Seq(Nat) /\ got = Append(v.got, f.seq)
  BY <1>1, <1>2
<1>5. Ingest(v, f) = [v EXCEPT !.last = last, !.got = got, !.told = told, !.ready = ready]
  BY DEF Ingest, VmType
<1> HIDE DEF ready, last, told, got
<1>6. /\ Ingest(v, f) \in VmType
      /\ Ingest(v, f).pc = v.pc /\ Ingest(v, f).handle = v.handle
      /\ Ingest(v, f).last = last /\ Ingest(v, f).got = got
  BY <1>2, <1>3, <1>4, <1>5 DEF VmType
<1> QED
  BY <1>4, <1>6 DEF last

(* One event: it is dispatched when it is past the cursor.                 *)
LEMMA IngestDispatches ==
    ASSUME NEW v, Heap(v), v.handle, NEW f \in Frame, f.seq > v.last
    PROVE  Dispatched(Ingest(v, f), v, f.seq, {f.seq})
<1> DEFINE w == Ingest(v, f)
<1>1. v \in VmType /\ v.got \in Seq(Nat) /\ v.last \in Nat /\ f.seq \in Nat
  BY DEF Heap, VmType, Frame
<1>2. w \in VmType /\ w.pc = v.pc /\ w.handle = v.handle
      /\ w.last = f.seq /\ w.got = Append(v.got, f.seq)
  BY <1>1, IngestType
<1>3. /\ Increasing(w.got) /\ UpTo(w.got, w.last)
      /\ Range(v.got) \cup {f.seq} \subseteq Range(w.got)
  BY <1>1, <1>2, AppendGrows DEF Heap
<1> HIDE DEF w
<1>4. Dispatched(w, v, f.seq, {f.seq})
  BY <1>2, <1>3 DEF Dispatched, Heap
<1> QED
  BY <1>4 DEF w

Ingests(G, v, e) ==
    /\ G[0] = v
    /\ \A k \in 0..(Len(e) - 1) : G[k + 1] = Ingest(G[k], e[k + 1])
    /\ FoldLeft(Ingest, v, e) = G[Len(e)]

(* The fold of Ingest over a reply, one event at a time.                   *)
LEMMA IngestUnfolds ==
    ASSUME NEW v \in VmType, NEW e \in Seq(Frame)
    PROVE  \E G : Ingests(G, v, e)
<1> DEFINE n == Len(e)
           V == VmType
           step == [i \in 1..n |-> [x \in V |-> Ingest(x, e[i])]]
           Sol(f) == f = [s \in SUBSET (DOMAIN e) |->
                            IF s = {} THEN v ELSE Ingest(f[s \ {Max(s)}], e[Max(s)])]
           ch == CHOOSE f : Sol(f)
<1>1. FoldLeft(Ingest, v, e) = ch[DOMAIN e]
  BY DEF FoldLeft, MapThenFoldSet
<1>2. DOMAIN e = 1..n /\ n \in Nat /\ \A i \in 1..n : e[i] \in Frame
  OBVIOUS
<1>3. step \in [1..n -> [V -> V]]
  <2>1. ASSUME NEW i \in 1..n, NEW x \in V PROVE Ingest(x, e[i]) \in V
    BY <1>2, IngestType
  <2> HIDE DEF V
  <2> QED BY <2>1
<1>4. PICK it \in [SUBSET (1..n) -> V] : FoldsOver(it, n, v, step)
  <2>1. v \in V
    OBVIOUS
  <2> HIDE DEF V, step, n
  <2> QED BY <1>2, <1>3, <2>1, FoldExists
<1>5. Sol(it)
  <2>1. ASSUME NEW s \in SUBSET (1..n), s # {}
        PROVE  step[Max(s)][it[s \ {Max(s)}]] = Ingest(it[s \ {Max(s)}], e[Max(s)])
    <3>1. Max(s) \in 1..n
      BY <1>2, <2>1, MaxOfNumbers
    <3>2. it[s \ {Max(s)}] \in V
      <4> HIDE DEF V
      <4> QED BY <1>4
    <3> HIDE DEF V
    <3> QED BY <3>1, <3>2
  <2>2. it = [s \in SUBSET (1..n) |-> IF s = {} THEN v ELSE step[Max(s)][it[s \ {Max(s)}]]]
    BY <1>4 DEF FoldsOver
  <2> HIDE DEF step
  <2> QED BY <1>2, <2>1, <2>2
<1>6. Sol(ch)
  <2> HIDE DEF Sol
  <2> QED BY <1>5
<1> DEFINE G == [k \in 0..n |-> ch[1..k]]
<1>7. ASSUME NEW k \in 0..(n - 1)
      PROVE  G[k + 1] = Ingest(G[k], e[k + 1])
  <2>1. 1..(k + 1) \in SUBSET (1..n) /\ k \in Nat
    BY <1>2
  <2>2. ch[1..(k + 1)] = Ingest(ch[1..k], e[k + 1])
    <3> HIDE DEF ch, n
    <3> DEFINE s == 1..(k + 1)
    <3>1. s \in SUBSET (DOMAIN e) /\ Max(s) = k + 1 /\ s # {} /\ s \ {k + 1} = 1..k
      BY <1>2, <2>1, FirstNumbers
    <3> HIDE DEF s
    <3>2. ch[s] = IF s = {} THEN v ELSE Ingest(ch[s \ {Max(s)}], e[Max(s)])
      BY <1>6, <3>1
    <3>3. ch[s] = Ingest(ch[1..k], e[k + 1])
      BY <3>1, <3>2
    <3> QED BY <3>3 DEF s
  <2>3. k \in 0..n /\ k + 1 \in 0..n
    OBVIOUS
  <2> HIDE DEF ch
  <2> QED BY <2>2, <2>3
<1>8. G[0] = v
  <2>1. 0 \in 0..n /\ 1..0 = {} /\ {} \in SUBSET (DOMAIN e)
    BY <1>2
  <2> HIDE DEF ch
  <2> QED BY <1>6, <2>1
<1>9. FoldLeft(Ingest, v, e) = G[n]
  <2> HIDE DEF ch
  <2> QED BY <1>1, <1>2
<1> HIDE DEF G
<1>10. Ingests(G, v, e)
  BY <1>7, <1>8, <1>9 DEF Ingests
<1> QED
  BY <1>10

(* A reply of consecutive events is dispatched whole and in order.         *)
LEMMA FoldDispatches ==
    ASSUME NEW v, Heap(v), v.handle, NEW e \in Seq(Frame), NEW m \in Nat,
           v.last <= m, Numbered(e, m), e # <<>>
    PROVE  Dispatched(FoldLeft(Ingest, v, e), v, m + Len(e), (m + 1)..(m + Len(e)))
<1> DEFINE n == Len(e)
<1>1. v \in VmType /\ v.last \in Nat
  BY DEF Heap, VmType
<1>2. n \in Nat /\ n # 0 /\ \A i \in 1..n : e[i] \in Frame /\ e[i].seq = m + i
  BY DEF Numbered
<1>3. PICK G : Ingests(G, v, e)
  BY <1>1, IngestUnfolds
<1> DEFINE P(k) == Dispatched(G[k], v, IF k = 0 THEN v.last ELSE m + k, (m + 1)..(m + k))
           S == {k \in 0..n : P(k)}
<1>4. 0 \in S
  <2>1. (m + 1)..(m + 0) = {}
    OBVIOUS
  <2>2. G[0] = v
    BY <1>3 DEF Ingests
  <2>3. P(0)
    BY <1>1, <2>1, <2>2 DEF Dispatched
  <2> HIDE DEF P
  <2> QED BY <1>2, <2>3
<1>5. ASSUME NEW k \in 0..(n - 1), k \in S PROVE k + 1 \in S
  <2>1. P(k) /\ k \in Nat
    BY <1>2, <1>5
  <2>2. k + 1 \in 1..n /\ k + 1 \in 0..n
    BY <1>2
  <2> DEFINE f == e[k + 1]
             g == G[k]
             h == G[k + 1]
  <2>3. f \in Frame /\ f.seq = m + (k + 1)
    BY <1>2, <2>2
  <2>4. h = Ingest(g, f)
    BY <1>3 DEF Ingests
  <2> HIDE DEF f, g, h, n
  <2>5. /\ Heap(g) /\ g.handle = v.handle /\ g.pc = v.pc
        /\ g.last = IF k = 0 THEN v.last ELSE m + k
        /\ Range(v.got) \cup (m + 1)..(m + k) \subseteq Range(g.got)
    BY <2>1 DEF Dispatched, g
  <2>6. f.seq > g.last
    BY <1>1, <2>1, <2>3, <2>5
  <2>7. Dispatched(h, g, f.seq, {f.seq})
    BY <2>3, <2>4, <2>5, <2>6, IngestDispatches
  <2>8. (m + 1)..(m + (k + 1)) = (m + 1)..(m + k) \cup {m + (k + 1)}
    BY <2>1
  <2>9. Dispatched(h, v, m + (k + 1), (m + 1)..(m + (k + 1)))
    BY <2>3, <2>5, <2>7, <2>8 DEF Dispatched
  <2>10. k + 1 # 0
    BY <2>1
  <2> QED BY <2>2, <2>9, <2>10 DEF h
<1>6. 0..n \subseteq S
  <2> HIDE DEF S, n
  <2> QED BY <1>2, <1>4, <1>5, BoundedInduction
<1>7. P(n)
  <2>1. n \in 0..n
    BY <1>2
  <2> HIDE DEF P, n
  <2> QED BY <1>6, <2>1
<1> QED
  BY <1>2, <1>3, <1>7 DEF Ingests

(* A marker that poll or recv makes up moves the cursor and nothing else.  *)
Marker == [type : {"gone", "dropped"}, seq : Nat]

(* Ingesting the marker alone.                                             *)
LEMMA IngestMarker ==
    ASSUME NEW v, Heap(v), v.handle, NEW f \in Marker
    PROVE  Dispatched(Ingest(v, f), v, IF f.seq > v.last THEN f.seq ELSE v.last, {})
<1>1. f.type \in {"gone", "dropped"} /\ f.seq \in Nat
  BY DEF Marker
<1>2. /\ v.pc \in PcType /\ v.handle \in BOOLEAN /\ v.ready \in ReadyType
      /\ v.last \in Nat /\ v.got \in Seq(Nat) /\ v.told \in Nat /\ v \in VmType
  BY DEF VmType, Heap
<1> DEFINE ready == CASE f.type \in {"close", "gone"} -> "CLOSED"
                      [] f.type \in {"open", "message"} /\ v.ready = "CONNECTING" -> "OPEN"
                      [] OTHER -> v.ready
           last == IF f.seq > v.last THEN f.seq ELSE v.last
           told == IF f.type = "dropped" /\ f.seq > v.told THEN f.seq ELSE v.told
           w == Ingest(v, f)
<1>3. ready \in ReadyType
  BY <1>2 DEF ReadyType
<1>4. last \in Nat /\ told \in Nat /\ last >= v.last
  BY <1>1, <1>2
<1>5. w = [v EXCEPT !.last = last, !.told = told, !.ready = ready]
  BY <1>1, <1>2 DEF Ingest, VmType
<1> HIDE DEF ready, last, told, w
<1>6. /\ w \in VmType
      /\ w.pc = v.pc /\ w.handle = v.handle /\ w.last = last /\ w.got = v.got
  BY <1>2, <1>3, <1>4, <1>5 DEF VmType
<1>7. UpTo(w.got, w.last)
  <2>1. UpTo(v.got, v.last) /\ \A i \in 1..Len(v.got) : v.got[i] \in Nat
    BY <1>2 DEF Heap
  <2> QED BY <1>2, <1>4, <1>6, <2>1 DEF UpTo
<1>8. Dispatched(w, v, last, {})
  BY <1>6, <1>7 DEF Dispatched, Heap
<1> QED
  BY <1>8 DEF w, last

-----------------------------------------------------------------------------
(* The queue holds the last frames received, under consecutive numbers;    *)
(* the frames before it were dropped.                                      *)
RegType == [up : BOOLEAN, queue : Seq(Frame), seq : Nat, closed : BOOLEAN,
            droppedThrough : Nat, waiter : BOOLEAN]

Base(r) == r.seq - Len(r.queue)

QueueInv(r) ==
    /\ r \in RegType /\ Base(r) \in Nat
    /\ Numbered(r.queue, Base(r)) /\ r.droppedThrough <= Base(r)

(* What has been dropped, or lies before the cursor, was dispatched or is  *)
(* lost; a parked recv waits for the next frame to come.                   *)
Covers(r, v, gone) ==
    r.up => /\ v.handle /\ v.last <= r.seq
            /\ 1..From(Base(r), v.last) \subseteq Range(v.got) \cup gone
Waits(r, v) == r.waiter => r.up /\ v.pc = "parked" /\ From(Base(r), v.last) >= r.seq

WsInv ==
    /\ Heap(vm) /\ Heap(saved)
    /\ QueueInv(reg) /\ Covers(reg, vm, lost) /\ Waits(reg, vm)

(* Covers speaks of the queue, the cursor and the dispatched only.         *)
LEMMA CoversSame ==
    ASSUME NEW r, NEW v, NEW gone, Covers(r, v, gone),
           NEW r2, NEW v2, r2.up => r.up /\ v2.handle /\ v2.last = v.last /\ v2.got = v.got,
           r2.up => r2.seq = r.seq /\ r2.queue = r.queue
    PROVE  Covers(r2, v2, gone)
  BY DEF Covers, Base

(* What _wsEnqueue makes of the entry: one frame more, and at the bound    *)
(* the oldest one less.                                                    *)
Enqueued(e, r, type, n) ==
    /\ n \in {0, 1} /\ (n = 1 => Len(r.queue) + 1 > QueueMax)
    /\ QueueInv(e.reg) /\ Base(e.reg) = Base(r) + n
    /\ e.reg.seq = r.seq + 1 /\ e.reg.up = r.up /\ ~e.reg.waiter
    /\ e.woke = r.waiter
    /\ e.frame \in Frame /\ e.frame.seq = r.seq + 1
    /\ e.dropped = (Base(r) + 1)..(Base(r) + n)

(* The queue stays numbered, whether or not it drops its oldest frame.     *)
LEMMA EnqueueNumbers ==
    ASSUME NEW r, QueueInv(r), NEW type \in FrameTypes
    PROVE  \E n \in {0, 1} : Enqueued(Enqueue(r, type), r, type, n)
<1> DEFINE f == [type |-> type, seq |-> r.seq + 1]
           q == Append(r.queue, f)
           n == IF Len(q) > QueueMax THEN 1 ELSE 0
           b == Base(r)
           L == Len(r.queue)
           dt == IF n = 1 /\ q[1].seq > r.droppedThrough THEN q[1].seq ELSE r.droppedThrough
           q2 == SubSeq(q, 1 + n, Len(q))
           r2 == [r EXCEPT !.seq = r.seq + 1, !.queue = q2, !.droppedThrough = dt, !.waiter = FALSE]
           e == Enqueue(r, type)
<1>1. /\ r.up \in BOOLEAN /\ r.queue \in Seq(Frame) /\ r.seq \in Nat
      /\ r.closed \in BOOLEAN /\ r.droppedThrough \in Nat /\ r.waiter \in BOOLEAN
      /\ r \in RegType
  BY DEF QueueInv, RegType
<1>2. f \in Frame /\ f.seq = r.seq + 1
  BY <1>1 DEF Frame
<1> HIDE DEF f
<1>3. /\ L \in Nat /\ q \in Seq(Frame) /\ Len(q) = L + 1 /\ q[L + 1] = f
      /\ \A i \in 1..L : q[i] = r.queue[i]
  BY <1>1, <1>2
<1>4. b \in Nat /\ b = r.seq - L /\ r.droppedThrough <= b
      /\ \A i \in 1..L : r.queue[i].seq = b + i
  BY DEF QueueInv, Base, Numbered
<1>5. \A i \in 1..(L + 1) : q[i].seq = b + i
  <2> SUFFICES ASSUME NEW i \in 1..(L + 1) PROVE q[i].seq = b + i
    OBVIOUS
  <2> HIDE DEF q, L, b
  <2>1. CASE i = L + 1
    BY <1>1, <1>2, <1>3, <1>4, <2>1
  <2>2. CASE i # L + 1
    <3>1. i \in 1..L
      BY <1>3, <2>2
    <3> QED BY <1>3, <1>4, <3>1
  <2> QED BY <2>1, <2>2
<1>6. n \in {0, 1} /\ (n = 1 => L + 1 > QueueMax)
  BY <1>3
<1>7. e = [reg |-> r2, woke |-> r.waiter, frame |-> f, dropped |-> {q[i].seq : i \in 1..n}]
  BY DEF Enqueue, f
<1> HIDE DEF q, n, b, L, e
<1>8. q2 \in Seq(Frame) /\ Len(q2) = L + 1 - n /\ \A i \in 1..Len(q2) : q2[i] = q[n + i]
  <2>1. CASE n = 0
    <3>1. q2 = SubSeq(q, 1, Len(q))
      BY <2>1
    <3> QED BY <1>3, <2>1, <3>1
  <2>2. CASE n = 1
    <3>1. q2 = SubSeq(q, 2, Len(q))
      BY <2>2
    <3> QED BY <1>3, <2>2, <3>1
  <2> QED BY <1>6, <2>1, <2>2
<1>9. dt \in Nat /\ dt <= b + n
  <2>1. q[1].seq = b + 1
    BY <1>3, <1>5
  <2> QED BY <1>1, <1>4, <1>6, <2>1
<1> HIDE DEF q2, dt
<1>10. r2 \in RegType /\ r2.seq = r.seq + 1 /\ r2.queue = q2 /\ r2.droppedThrough = dt
       /\ ~r2.waiter /\ r2.up = r.up
  <2> DEFINE Q == Seq(Frame)
             next == r.seq + 1
  <2>1. /\ r \in [up : BOOLEAN, queue : Q, seq : Nat, closed : BOOLEAN,
                  droppedThrough : Nat, waiter : BOOLEAN]
        /\ next \in Nat /\ q2 \in Q
    BY <1>1, <1>8 DEF RegType
  <2>2. r2 = [r EXCEPT !.seq = next, !.queue = q2, !.droppedThrough = dt, !.waiter = FALSE]
    OBVIOUS
  <2> HIDE DEF Q, next, r2
  <2>3. /\ r2 \in [up : BOOLEAN, queue : Q, seq : Nat, closed : BOOLEAN,
                   droppedThrough : Nat, waiter : BOOLEAN]
        /\ r2.seq = next /\ r2.queue = q2 /\ r2.droppedThrough = dt
        /\ ~r2.waiter /\ r2.up = r.up
    BY <1>9, <2>1, <2>2
  <2> QED BY <2>3 DEF RegType, Q, next
<1> HIDE DEF r2
<1>11. Base(r2) = b + n
  <2>1. Base(r2) = (r.seq + 1) - (L + 1 - n)
    BY <1>8, <1>10 DEF Base
  <2>2. n \in Nat
    BY <1>6
  <2> QED BY <1>1, <1>3, <1>4, <2>1, <2>2
<1>12. \A i \in 1..Len(q2) : q2[i].seq = b + n + i
  <2> SUFFICES ASSUME NEW i \in 1..Len(q2) PROVE q2[i].seq = b + n + i
    OBVIOUS
  <2>1. n + i \in 1..(L + 1)
    BY <1>3, <1>6, <1>8
  <2>2. q[n + i].seq = b + (n + i)
    BY <1>5, <2>1
  <2>3. q2[i] = q[n + i] /\ n \in Nat
    BY <1>6, <1>8
  <2> QED BY <1>4, <2>2, <2>3
<1>13. QueueInv(r2)
  <2>1. b + n \in Nat
    BY <1>4, <1>6
  <2> QED BY <1>9, <1>10, <1>11, <1>12, <2>1 DEF QueueInv, Numbered
<1>14. {q[i].seq : i \in 1..n} = (b + 1)..(b + n)
  <2>1. CASE n = 0
    <3>1. 1..n = {} /\ (b + 1)..(b + n) = {}
      BY <1>4, <2>1
    <3> QED BY <3>1
  <2>2. CASE n = 1
    <3>1. 1..n = {1} /\ (b + 1)..(b + n) = {b + 1} /\ q[1].seq = b + 1
      BY <1>3, <1>4, <1>5, <2>2
    <3> QED BY <3>1
  <2> QED BY <1>6, <2>1, <2>2
<1>15. Enqueued(e, r, type, n)
  BY <1>2, <1>6, <1>7, <1>10, <1>11, <1>13, <1>14 DEF Enqueued, b, L
<1> QED
  BY <1>6, <1>15 DEF e

(* A frame that arrives, at a parked recv or at none.                      *)
LEMMA ArrivesPreserves ==
    ASSUME NEW r, NEW type \in FrameTypes, Heap(vm), QueueInv(r), r.up,
           Covers(r, vm, lost), Waits(r, vm), Arrives(r, type)
    PROVE  Heap(vm') /\ QueueInv(reg') /\ Covers(reg', vm', lost') /\ Waits(reg', vm')
<1> DEFINE e == Enqueue(r, type)
           b == Base(r)
<1>1. PICK n \in {0, 1} : Enqueued(e, r, type, n)
  BY EnqueueNumbers
<1>2. /\ reg' = e.reg
      /\ vm' = IF e.woke THEN [Ingest(vm, e.frame) EXCEPT !.pc = "idle"] ELSE vm
      /\ lost' = lost \cup {s \in e.dropped : s > vm.last}
  BY DEF Arrives
<1> HIDE DEF e
<1>3. /\ QueueInv(reg') /\ Base(reg') = b + n /\ reg'.seq = r.seq + 1
      /\ reg'.up /\ ~reg'.waiter /\ e.woke = r.waiter
      /\ e.frame \in Frame /\ e.frame.seq = r.seq + 1 /\ e.dropped = (b + 1)..(b + n)
  BY <1>1, <1>2 DEF Enqueued
<1>4. /\ vm.handle /\ vm.last <= r.seq /\ vm.last \in Nat /\ r.seq \in Nat /\ b \in Nat
      /\ 1..From(b, vm.last) \subseteq Range(vm.got) \cup lost
  BY DEF Covers, Heap, VmType, QueueInv, RegType
<1>5. b + n <= r.seq + 1
  <2>1. Len(r.queue) \in Nat /\ b = r.seq - Len(r.queue)
    BY DEF QueueInv, RegType, Base
  <2> HIDE DEF b
  <2> QED BY <1>4, <2>1
<1> HIDE DEF b
<1>6. CASE ~r.waiter
  <2>1. vm' = vm
    BY <1>2, <1>3, <1>6
  <2>2. 1..From(b + n, vm.last) \subseteq Range(vm.got) \cup lost'
    <3> SUFFICES ASSUME NEW i \in 1..From(b + n, vm.last) PROVE i \in Range(vm.got) \cup lost'
      OBVIOUS
    <3>1. CASE i <= From(b, vm.last)
      <4>1. i \in 1..From(b, vm.last)
        BY <1>4, <3>1 DEF From
      <4> QED BY <1>2, <1>4, <4>1
    <3>2. CASE ~(i <= From(b, vm.last))
      <4>1. n = 1 /\ i = b + 1 /\ i > vm.last
        BY <1>4, <3>2 DEF From
      <4>2. i \in (b + 1)..(b + n)
        BY <1>4, <4>1
      <4> QED BY <1>2, <1>3, <4>1, <4>2
    <3> QED BY <3>1, <3>2
  <2> QED BY <1>3, <1>4, <2>1, <2>2 DEF Covers, Waits
<1>7. CASE r.waiter
  <2> DEFINE w == Ingest(vm, e.frame)
  <2>1. Dispatched(w, vm, r.seq + 1, {r.seq + 1})
    <3>1. e.frame.seq > vm.last
      BY <1>3, <1>4
    <3> QED BY <1>3, <1>4, <3>1, IngestDispatches
  <2>2. vm' = [w EXCEPT !.pc = "idle"]
    BY <1>2, <1>3, <1>7
  <2> HIDE DEF w
  <2>3. /\ Heap(vm') /\ vm'.handle /\ vm'.last = r.seq + 1
        /\ Range(vm.got) \cup {r.seq + 1} \subseteq Range(vm'.got)
    <3>1. Heap(w) /\ w \in VmType /\ w.handle = vm.handle /\ w.last = r.seq + 1
          /\ Range(vm.got) \cup {r.seq + 1} \subseteq Range(w.got)
      BY <2>1 DEF Dispatched, Heap
    <3>2. vm' \in VmType /\ vm'.handle = w.handle /\ vm'.last = w.last /\ vm'.got = w.got
          /\ vm'.pc = "idle"
      BY <2>2, <3>1 DEF VmType, PcType
    <3> QED BY <1>4, <3>1, <3>2 DEF Heap
  <2>4. From(b, vm.last) >= r.seq /\ From(b + n, r.seq + 1) = r.seq + 1
    BY <1>4, <1>5, <1>7 DEF Waits, From, b
  <2>5. 1..(r.seq + 1) \subseteq Range(vm'.got) \cup lost'
    <3> SUFFICES ASSUME NEW i \in 1..(r.seq + 1) PROVE i \in Range(vm'.got) \cup lost'
      OBVIOUS
    <3>1. CASE i = r.seq + 1
      BY <2>3, <3>1
    <3>2. CASE i # r.seq + 1
      <4>1. i \in 1..From(b, vm.last)
        BY <1>4, <2>4, <3>2 DEF From
      <4>2. i \in Range(vm.got) \cup lost
        BY <1>4, <4>1
      <4>3. lost \subseteq lost' /\ Range(vm.got) \subseteq Range(vm'.got)
        BY <1>2, <2>3
      <4> QED BY <4>2, <4>3
    <3> QED BY <3>1, <3>2
  <2>6. Covers(reg', vm', lost')
    BY <1>3, <1>4, <2>3, <2>4, <2>5 DEF Covers
  <2> QED BY <1>3, <2>3, <2>6 DEF Waits
<1>8. r.waiter \in BOOLEAN
  BY DEF QueueInv, RegType
<1> QED
  BY <1>6, <1>7, <1>8

(* A dispatch that ends, or does not end, the operation the VM is in.      *)
LEMMA DispatchEnds ==
    ASSUME NEW v, NEW w, NEW last, NEW new, NEW pc \in PcType,
           Dispatched(w, v, last, new), v.handle
    PROVE  LET u == [w EXCEPT !.pc = pc] IN
           /\ Heap(u) /\ u.handle /\ u.last = last /\ u.pc = pc
           /\ Range(v.got) \cup new \subseteq Range(u.got)
<1> DEFINE u == [w EXCEPT !.pc = pc]
<1>1. /\ Heap(w) /\ w \in VmType /\ w.handle = v.handle /\ w.last = last
      /\ Range(v.got) \cup new \subseteq Range(w.got)
  BY DEF Dispatched, Heap
<1>2. u \in VmType /\ u.handle = w.handle /\ u.last = w.last /\ u.got = w.got /\ u.pc = pc
  BY <1>1 DEF VmType
<1> HIDE DEF u
<1>3. Heap(u) /\ u.handle /\ u.last = last /\ u.pc = pc
      /\ Range(v.got) \cup new \subseteq Range(u.got)
  BY <1>1, <1>2 DEF Heap
<1> QED
  BY <1>3 DEF u

(* The cursor goes over dropped frames, or over dispatched ones.           *)
LEMMA CoversAfter ==
    ASSUME NEW r, NEW v, NEW gone, QueueInv(r), Heap(v), Covers(r, v, gone),
           NEW r2, r2.up = r.up, r2.seq = r.seq, r2.queue = r.queue,
           NEW w, NEW k \in Nat, NEW last,
           last = From(Base(r), v.last) + k \/ (last >= v.last /\ last <= From(Base(r), v.last) /\ k = 0),
           last \in Nat, last <= r.seq,
           w.handle, w.last = last,
           Range(v.got) \cup (From(Base(r), v.last) + 1)..(From(Base(r), v.last) + k)
             \subseteq Range(w.got)
    PROVE  Covers(r2, w, gone)
<1> SUFFICES ASSUME r.up PROVE Covers(r2, w, gone)
  BY DEF Covers
<1> DEFINE b == Base(r)
           m == From(b, v.last)
<1>1. v.last \in Nat /\ b \in Nat /\ r.seq \in Nat
  BY DEF Heap, VmType, QueueInv, RegType
<1>2. m \in Nat /\ m >= b /\ m >= v.last /\ (m = b \/ m = v.last)
  BY <1>1 DEF From
<1>3. 1..m \subseteq Range(v.got) \cup gone
  BY DEF Covers
<1>4. Base(r2) = b
  BY DEF Base
<1> HIDE DEF b, m
<1>5. From(b, last) <= m + k /\ From(b, last) \in Nat
  BY <1>1, <1>2 DEF From, m, b
<1>6. 1..(m + k) \subseteq Range(w.got) \cup gone
  <2> SUFFICES ASSUME NEW i \in 1..(m + k) PROVE i \in Range(w.got) \cup gone
    OBVIOUS
  <2>1. CASE i <= m
    <3>1. i \in 1..m
      BY <1>2, <2>1
    <3> QED BY <1>3, <3>1
  <2>2. CASE ~(i <= m)
    <3>1. i \in (m + 1)..(m + k)
      BY <1>2, <2>2
    <3> QED BY <3>1 DEF m, b
  <2> QED BY <2>1, <2>2
<1>7. 1..From(b, last) \subseteq Range(w.got) \cup gone
  <2>1. \A i \in 1..From(b, last) : i \in 1..(m + k)
    BY <1>2, <1>5
  <2> QED BY <1>6, <2>1
<1> QED
  BY <1>4, <1>7 DEF Covers

(* A poll, and the reply it is answered with.                              *)
LEMMA PollPreserves ==
    ASSUME WsInv, NEW n \in 0..QueueMax, WsPoll(n)
    PROVE  WsInv'
<1> DEFINE events == AtOrAfter(reg.queue, Since)
           b == Base(reg)
           m == From(b, vm.last)
<1>1. /\ vm.pc = "idle" /\ vm.handle /\ reg' = reg /\ saved' = saved /\ lost' = lost
  BY DEF WsPoll
<1>2. /\ Heap(vm) /\ vm \in VmType /\ vm.last \in Nat /\ QueueInv(reg) /\ reg \in RegType
      /\ Covers(reg, vm, lost) /\ ~reg.waiter /\ reg.up \in BOOLEAN
  BY <1>1 DEF WsInv, Heap, VmType, QueueInv, RegType, Waits
<1>3. Heap(saved') /\ QueueInv(reg') /\ Waits(reg', vm')
  BY <1>1, <1>2 DEF WsInv, Waits
<1>4. CASE ~reg.up
  <2> DEFINE f == [type |-> "gone", seq |-> Since]
  <2>1. vm' = Ingest(vm, f)
    BY <1>4 DEF WsPoll
  <2>2. f \in Marker
    BY <1>2 DEF Marker, Since
  <2> HIDE DEF f
  <2>3. Heap(vm')
    BY <1>1, <1>2, <2>1, <2>2, IngestMarker DEF Dispatched
  <2> QED BY <1>1, <1>3, <1>4, <2>3 DEF WsInv, Covers
<1>5. CASE reg.up /\ events = <<>>
  <2>1. vm' = [vm EXCEPT !.pc = "recv"]
    BY <1>5 DEF WsPoll
  <2>2. Heap(vm') /\ vm'.handle /\ vm'.last = vm.last /\ vm'.got = vm.got
    <3>1. vm' \in VmType /\ vm'.handle = vm.handle /\ vm'.last = vm.last /\ vm'.got = vm.got
      BY <1>2, <2>1 DEF VmType, PcType
    <3> QED BY <1>1, <1>2, <3>1 DEF Heap
  <2>3. Covers(reg', vm', lost')
    BY <1>1, <1>2, <2>2, CoversSame
  <2> QED BY <1>3, <2>2, <2>3 DEF WsInv
<1>6. CASE reg.up /\ events # <<>>
  <2> DEFINE e == SubSeq(events, 1, n)
  <2>1. (n = Len(events) \/ n = 1) /\ vm' = FoldLeft(Ingest, vm, e)
    BY <1>6 DEF WsPoll
  <2>2. Kept(events, reg.queue, b, vm.last)
    BY <1>2, SelectKeeps DEF QueueInv, RegType, Since
  <2> HIDE DEF events
  <2>3. /\ events \in Seq(Frame) /\ Len(events) \in Nat /\ Len(events) >= 1
        /\ Len(events) = reg.seq - m
        /\ \A i \in 1..Len(events) : events[i] \in Frame /\ events[i].seq = m + i
    <3>1. events \in Seq(Frame) /\ Len(events) \in Nat /\ Len(events) # 0
          /\ \A i \in 1..Len(events) : events[i] \in Frame
      BY <1>6, <2>2 DEF Kept
    <3>2. b + Len(reg.queue) = reg.seq
      <4>1. Len(reg.queue) \in Nat /\ reg.seq \in Nat
        BY <1>2 DEF RegType
      <4> QED BY <4>1 DEF Base
    <3> DEFINE k == Len(events)
    <3>3. (k = b + Len(reg.queue) - m \/ k = 0) /\ \A i \in 1..k : events[i].seq = m + i
      BY <2>2 DEF Kept, Numbered
    <3>4. b \in Nat /\ m \in Nat /\ k \in Nat /\ k # 0 /\ Len(reg.queue) \in Nat
      BY <1>2, <3>1 DEF From, QueueInv, RegType
    <3> HIDE DEF b, m, k
    <3>5. k = reg.seq - m /\ k >= 1
      BY <3>2, <3>3, <3>4
    <3> QED BY <3>1, <3>3, <3>5 DEF k
  <2>4. m \in Nat /\ vm.last <= m /\ reg.seq \in Nat
    BY <1>2 DEF From, QueueInv, RegType
  <2> HIDE DEF m, b
  <2>5. n \in Nat /\ n >= 1 /\ n <= Len(events)
    BY <2>1, <2>3
  <2>6. e \in Seq(Frame) /\ Len(e) = n /\ \A i \in 1..n : e[i] = events[i]
    BY <2>3, <2>5
  <2> HIDE DEF e
  <2>7. Numbered(e, m) /\ e # <<>>
    <3>1. \A i \in 1..n : i \in 1..Len(events)
      BY <2>3, <2>5
    <3> QED BY <2>3, <2>5, <2>6, <3>1 DEF Numbered
  <2>8. Dispatched(vm', vm, m + n, (m + 1)..(m + n))
    BY <1>1, <1>2, <2>1, <2>4, <2>6, <2>7, FoldDispatches
  <2>9. /\ Heap(vm') /\ vm'.handle /\ vm'.last = m + n
        /\ Range(vm.got) \cup (m + 1)..(m + n) \subseteq Range(vm'.got)
    BY <1>1, <2>8 DEF Dispatched
  <2>10. m + n <= reg.seq /\ m + n \in Nat
    BY <2>3, <2>4, <2>5
  <2>11. Covers(reg, vm', lost)
    <3>1. /\ vm'.handle /\ vm'.last = m + n
          /\ Range(vm.got) \cup (From(Base(reg), vm.last) + 1)..(From(Base(reg), vm.last) + n)
               \subseteq Range(vm'.got)
          /\ m + n = From(Base(reg), vm.last) + n
      BY <2>9 DEF m, b
    <3> QED BY <1>2, <2>5, <2>10, <3>1, CoversAfter
  <2> QED BY <1>1, <1>3, <2>9, <2>11 DEF WsInv
<1> QED
  BY <1>2, <1>4, <1>5, <1>6

(* A recv: answered at once, parked, woken or timed out.                   *)
LEMMA RecvPreserves ==
    ASSUME WsInv, WsRecv
    PROVE  WsInv'
<1> DEFINE events == AtOrAfter(reg.queue, Since)
           back(f) == [Ingest(vm, f) EXCEPT !.pc = "idle"]
           b == Base(reg)
           m == From(b, vm.last)
<1>1. vm.pc = "recv" /\ saved' = saved /\ lost' = lost
  BY DEF WsRecv
<1>2. /\ Heap(vm) /\ vm \in VmType /\ vm.last \in Nat /\ QueueInv(reg) /\ reg \in RegType
      /\ Covers(reg, vm, lost) /\ ~reg.waiter /\ reg.up \in BOOLEAN /\ vm.handle
      /\ reg.droppedThrough \in Nat /\ reg.seq \in Nat /\ reg.closed \in BOOLEAN
      /\ reg.queue \in Seq(Frame) /\ Heap(saved')
  BY <1>1 DEF WsInv, Heap, VmType, QueueInv, RegType, Waits
<1>3. /\ m \in Nat /\ b \in Nat /\ vm.last <= m /\ b <= m /\ reg.droppedThrough <= b
      /\ (m = b \/ m = vm.last) /\ b <= reg.seq
  <2>1. b \in Nat /\ reg.droppedThrough <= b
    BY <1>2 DEF QueueInv
  <2>2. b <= reg.seq
    <3>1. Len(reg.queue) \in Nat
      BY <1>2
    <3> QED BY <1>2, <3>1 DEF Base
  <2> HIDE DEF b
  <2> QED BY <1>2, <2>1, <2>2 DEF From
<1>4. Kept(events, reg.queue, b, vm.last)
  BY <1>2, SelectKeeps DEF QueueInv, Since
<1>5. b + Len(reg.queue) = reg.seq
  <2>1. Len(reg.queue) \in Nat
    BY <1>2
  <2> QED BY <1>2, <2>1 DEF Base
<1>6. events \in Seq(Frame) /\ Len(events) \in Nat
  BY <1>4 DEF Kept
<1>7. ASSUME NEW f \in Marker, vm' = back(f), QueueInv(reg'), ~reg'.waiter,
             reg'.up = reg.up, reg'.seq = reg.seq, reg'.queue = reg.queue,
             reg.up => f.seq <= m /\ f.seq <= reg.seq
      PROVE  WsInv'
  <2> DEFINE last == IF f.seq > vm.last THEN f.seq ELSE vm.last
  <2>1. Dispatched(Ingest(vm, f), vm, last, {})
    BY <1>2, IngestMarker
  <2>2. Heap(vm') /\ vm'.handle /\ vm'.last = last /\ Range(vm.got) \subseteq Range(vm'.got)
    <3>1. "idle" \in PcType
      BY DEF PcType
    <3> HIDE DEF last
    <3> QED BY <1>2, <1>7, <2>1, <3>1, DispatchEnds
  <2>3. Covers(reg', vm', lost)
    <3>1. CASE reg.up
      <4>1. f.seq \in Nat
        BY DEF Marker
      <4>2. last \in Nat /\ last >= vm.last /\ last <= m /\ last <= reg.seq
        <5>1. vm.last <= reg.seq
          BY <1>2, <3>1 DEF Covers
        <5> HIDE DEF m, b
        <5> QED BY <1>2, <1>3, <1>7, <3>1, <4>1, <5>1
      <4>3. (m + 1)..(m + 0) = {}
        BY <1>3
      <4> HIDE DEF last
      <4>4. Range(vm.got) \cup (m + 1)..(m + 0) \subseteq Range(vm'.got)
        BY <2>2, <4>3
      <4> QED BY <1>2, <1>7, <2>2, <4>2, <4>4, CoversAfter
    <3>2. CASE ~reg.up
      BY <1>7, <3>2 DEF Covers
    <3> QED BY <1>2, <3>1, <3>2
  <2> QED BY <1>1, <1>2, <1>7, <2>2, <2>3 DEF WsInv, Waits
<1>8. CASE ~reg.up
  <2> DEFINE f == [type |-> "gone", seq |-> Since]
  <2>1. vm' = back(f) /\ reg' = reg
    BY <1>8 DEF WsRecv
  <2>2. f \in Marker
    BY <1>2 DEF Marker, Since
  <2> HIDE DEF f, back
  <2> QED BY <1>2, <1>7, <1>8, <2>1, <2>2
<1>9. CASE reg.up /\ reg.droppedThrough >= Since
  <2> DEFINE f == [type |-> "dropped", seq |-> reg.droppedThrough]
  <2>1. vm' = back(f) /\ reg' = [reg EXCEPT !.droppedThrough = 0]
    <3>1. ~(reg.droppedThrough < Since)
      BY <1>2, <1>9 DEF Since
    <3> QED BY <1>9, <3>1 DEF WsRecv
  <2>2. f \in Marker /\ f.seq = reg.droppedThrough
    BY <1>2 DEF Marker
  <2>3. /\ reg' \in RegType /\ reg'.up = reg.up /\ reg'.seq = reg.seq /\ reg'.queue = reg.queue
        /\ reg'.waiter = reg.waiter /\ reg'.droppedThrough = 0
    BY <1>2, <2>1 DEF RegType
  <2>4. QueueInv(reg')
    <3>1. Base(reg') = b
      BY <2>3 DEF Base
    <3> HIDE DEF b
    <3>2. 0 <= b
      BY <1>3
    <3>3. Numbered(reg.queue, b)
      BY <1>2 DEF QueueInv, b
    <3> QED BY <1>3, <2>3, <3>1, <3>2, <3>3 DEF QueueInv
  <2> HIDE DEF f, back, m, b
  <2>5. f.seq <= m /\ f.seq <= reg.seq
    BY <1>2, <1>3, <2>2
  <2> QED BY <1>2, <1>7, <2>1, <2>2, <2>3, <2>4, <2>5
<1>10. CASE reg.up /\ reg.droppedThrough < Since /\ events # <<>>
  <2> DEFINE f == Head(events)
  <2>1. vm' = back(f) /\ reg' = reg
    <3>1. ~(reg.droppedThrough >= Since)
      BY <1>2, <1>10 DEF Since
    <3> QED BY <1>10, <3>1 DEF WsRecv
  <2>2. f \in Frame /\ f.seq = m + 1 /\ m + 1 <= reg.seq
    <3> DEFINE k == Len(events)
    <3>1. (k = b + Len(reg.queue) - m \/ k = 0) /\ \A i \in 1..k : events[i].seq = m + i
      BY <1>4 DEF Kept, Numbered
    <3>2. k \in Nat /\ k # 0 /\ f = events[1] /\ f \in Frame
      BY <1>6, <1>10
    <3> HIDE DEF b, m, k, f, events
    <3>3. k = reg.seq - m /\ k >= 1 /\ 1 \in 1..k
      <4>1. k = b + Len(reg.queue) - m
        BY <3>1, <3>2
      <4> DEFINE w == Len(reg.queue)
                 n == reg.seq
      <4>a. b \in Nat /\ m \in Nat /\ w \in Nat /\ n \in Nat /\ b + w = n /\ k = b + w - m
        BY <1>2, <1>3, <1>5, <4>1
      <4>2. k = reg.seq - m
        <5> HIDE DEF w, n
        <5>1. k = n - m
          BY <4>a
        <5> QED BY <5>1 DEF n
      <4>3. k >= 1 /\ 1 \in 1..k
        BY <3>2
      <4> QED BY <4>2, <4>3
    <3>4. events[1].seq = m + 1
      BY <3>1, <3>3
    <3>5. reg.seq \in Nat /\ m \in Nat
      BY <1>2, <1>3
    <3>6. m + 1 <= reg.seq
      BY <3>3, <3>5
    <3> QED BY <3>2, <3>4, <3>6
  <2> HIDE DEF f
  <2>3. Dispatched(Ingest(vm, f), vm, m + 1, {m + 1})
    <3>1. f.seq > vm.last
      <4> HIDE DEF m, b
      <4> QED BY <1>2, <1>3, <2>2
    <3>2. Dispatched(Ingest(vm, f), vm, f.seq, {f.seq})
      BY <1>2, <2>2, <3>1, IngestDispatches
    <3> QED BY <2>2, <3>2
  <2>4. Heap(vm') /\ vm'.handle /\ vm'.last = m + 1 /\ Range(vm.got) \cup {m + 1} \subseteq Range(vm'.got)
    <3>1. "idle" \in PcType
      BY DEF PcType
    <3> HIDE DEF m
    <3> QED BY <1>2, <2>1, <2>3, <3>1, DispatchEnds
  <2>5. (m + 1)..(m + 1) = {m + 1} /\ m + 1 \in Nat /\ 1 \in Nat
    <3> HIDE DEF m, b
    <3> QED BY <1>3
  <2>6. Range(vm.got) \cup (m + 1)..(m + 1) \subseteq Range(vm'.got)
    BY <2>4, <2>5
  <2>7. Covers(reg, vm', lost)
    BY <1>2, <2>2, <2>4, <2>5, <2>6, CoversAfter
  <2> QED BY <1>1, <1>2, <2>1, <2>4, <2>7 DEF WsInv, Waits
<1>11. CASE reg.up /\ reg.droppedThrough < Since /\ events = <<>>
  <2>0. ~(reg.droppedThrough >= Since)
    BY <1>2, <1>11 DEF Since
  <2>1. m >= reg.seq
    <3> DEFINE k == Len(events)
    <3>1. k = b + Len(reg.queue) - m \/ b + Len(reg.queue) <= m
      BY <1>4 DEF Kept
    <3>2. k = 0
      BY <1>11
    <3> HIDE DEF b, m, k, events
    <3> QED BY <1>2, <1>3, <1>5, <3>1, <3>2
  <2>2. CASE reg.closed
    <3> DEFINE f == [type |-> "gone", seq |-> reg.seq]
    <3>1. vm' = back(f) /\ reg' = reg
      BY <1>11, <2>0, <2>2 DEF WsRecv
    <3>2. f \in Marker /\ f.seq = reg.seq
      BY <1>2 DEF Marker
    <3> HIDE DEF f, back, m, b
    <3> QED BY <1>2, <1>3, <1>7, <2>1, <3>1, <3>2
  <2>3. CASE ~reg.closed
    <3>1. vm' = [vm EXCEPT !.pc = "parked"] /\ reg' = [reg EXCEPT !.waiter = TRUE]
      BY <1>11, <2>0, <2>3 DEF WsRecv
    <3>2. /\ vm' \in VmType /\ vm'.handle = vm.handle /\ vm'.last = vm.last /\ vm'.got = vm.got
          /\ vm'.pc = "parked"
      BY <1>2, <3>1 DEF VmType, PcType
    <3>3. /\ reg' \in RegType /\ reg'.up = reg.up /\ reg'.seq = reg.seq /\ reg'.queue = reg.queue
          /\ reg'.droppedThrough = reg.droppedThrough
      BY <1>2, <3>1 DEF RegType
    <3>4. Heap(vm')
      BY <1>2, <3>2 DEF Heap
    <3>5. Base(reg') = b
      BY <3>3 DEF Base
    <3>6. QueueInv(reg')
      BY <1>2, <3>3, <3>5 DEF QueueInv
    <3>7. Covers(reg', vm', lost)
      BY <1>2, <3>2, <3>3, CoversSame
    <3>8. Waits(reg', vm')
      BY <1>11, <2>1, <3>2, <3>3, <3>5 DEF Waits
    <3> QED BY <1>1, <1>2, <3>4, <3>6, <3>7, <3>8 DEF WsInv
  <2> QED BY <1>2, <2>2, <2>3
<1>12. reg.droppedThrough >= Since \/ reg.droppedThrough < Since
  BY <1>2 DEF Since
<1> QED
  BY <1>2, <1>8, <1>9, <1>10, <1>11, <1>12

(* A queue without frames.                                                 *)
LEMMA EmptyQueue ==
    ASSUME NEW r \in RegType, r.queue = <<>>, r.seq = 0, r.droppedThrough = 0
    PROVE  QueueInv(r) /\ Base(r) = 0 /\ Len(r.queue) = 0
<1>1. Len(r.queue) = 0
  OBVIOUS
<1>2. Base(r) = 0
  <2> DEFINE n == Len(r.queue)
             k == r.seq
  <2>1. n = 0 /\ k = 0
    BY <1>1
  <2>2. Base(r) = k - n
    BY DEF Base
  <2> HIDE DEF n, k
  <2> QED BY <2>1, <2>2
<1> QED
  BY <1>1, <1>2 DEF QueueInv, Numbered

(* The entry of a socket that is not open.                                 *)
LEMMA NoRegInv == QueueInv(NoReg) /\ ~NoReg.up /\ ~NoReg.waiter
<1>1. NoReg \in RegType /\ NoReg.queue = <<>> /\ NoReg.seq = 0 /\ NoReg.droppedThrough = 0
      /\ ~NoReg.up /\ ~NoReg.waiter
  BY DEF NoReg, RegType
<1> QED
  BY <1>1, EmptyQueue

(* The invariant holds at the start.                                       *)
LEMMA WsInvInit == WsInit => WsInv
<1> SUFFICES ASSUME WsInit PROVE WsInv
  OBVIOUS
<1>1. vm = NewVm /\ saved = NewVm /\ reg = NoReg
  BY DEF WsInit
<1>2. Heap(NewVm)
  <2>1. NewVm \in VmType /\ NewVm.got = <<>> /\ NewVm.last = 0 /\ NewVm.pc = "idle"
    BY DEF NewVm, VmType, PcType, ReadyType
  <2> QED BY <2>1 DEF Heap, Increasing, UpTo
<1> QED
  BY <1>1, <1>2, NoRegInv DEF WsInv, Covers, Waits

(* A socket that opens, again or for the first time.                       *)
LEMMA OpenPreserves ==
    ASSUME WsInv, WsOpen
    PROVE  WsInv'
<1> DEFINE r == [NoReg EXCEPT !.up = TRUE]
           e == Enqueue(r, "open")
<1>1. /\ vm.pc = "idle" /\ ~vm.handle /\ reg' = e.reg /\ vm' = [vm EXCEPT !.handle = TRUE]
      /\ saved' = saved /\ lost' = lost
  BY DEF WsOpen
<1>2. Heap(vm) /\ vm \in VmType /\ vm.last = 0 /\ vm.got = <<>>
  BY <1>1 DEF WsInv, Heap
<1>3. /\ r \in RegType /\ r.queue = <<>> /\ r.seq = 0 /\ r.droppedThrough = 0
      /\ r.up /\ ~r.waiter
  <2>1. NoReg \in RegType /\ NoReg.queue = <<>> /\ NoReg.seq = 0 /\ NoReg.droppedThrough = 0
        /\ ~NoReg.waiter
    BY DEF NoReg, RegType
  <2> QED BY <2>1 DEF RegType
<1> HIDE DEF r
<1>4. Base(r) = 0 /\ Len(r.queue) = 0 /\ QueueInv(r)
  BY <1>3, EmptyQueue
<1>6. PICK n \in {0, 1} : Enqueued(e, r, "open", n)
  <2>1. "open" \in FrameTypes
    BY DEF FrameTypes
  <2> HIDE DEF e
  <2> QED BY <1>4, <2>1, EnqueueNumbers DEF e
<1> HIDE DEF e
<1>7. n = 0
  BY <1>4, <1>6, VmWebSocketAssumption DEF Enqueued
<1>8. QueueInv(reg') /\ Base(reg') = 0 /\ reg'.seq = 1 /\ ~reg'.waiter
  BY <1>1, <1>3, <1>4, <1>6, <1>7 DEF Enqueued
<1>9. vm' \in VmType /\ vm'.handle /\ vm'.last = 0 /\ vm'.got = <<>>
  BY <1>1, <1>2 DEF VmType
<1>10. Heap(vm')
  BY <1>2, <1>9 DEF Heap
<1>11. Covers(reg', vm', lost')
  <2>1. From(0, 0) = 0 /\ 1..0 = {}
    BY DEF From
  <2> QED BY <1>8, <1>9, <2>1 DEF Covers
<1> QED
  BY <1>1, <1>8, <1>10, <1>11 DEF WsInv, Waits

(* Every step preserves it.                                                *)
LEMMA WsInvStep ==
    ASSUME WsInv, [WsNext]_wsVars
    PROVE  WsInv'
<1>1. /\ Heap(vm) /\ vm \in VmType /\ Heap(saved) /\ QueueInv(reg) /\ reg \in RegType
      /\ Covers(reg, vm, lost) /\ Waits(reg, vm)
      /\ vm.handle \in BOOLEAN /\ reg.waiter \in BOOLEAN /\ reg.up \in BOOLEAN
  BY DEF WsInv, Heap, VmType, QueueInv, RegType
<1>2. ASSUME NEW r, QueueInv(r), r.up = reg.up, r.seq = reg.seq, r.queue = reg.queue,
             Waits(r, vm), r.up, NEW type \in FrameTypes, Arrives(r, type), saved' = saved
      PROVE  WsInv'
  <2>1. Covers(r, vm, lost)
    BY <1>1, <1>2 DEF Covers, Base
  <2> QED BY <1>1, <1>2, <2>1, ArrivesPreserves DEF WsInv
<1>3. CASE WsOpen
  BY <1>3, OpenPreserves
<1>4. CASE WsOpenRefused
  <2>1. /\ ~vm.handle /\ vm.pc = "idle" /\ vm' = [vm EXCEPT !.ready = "CLOSED"] /\ reg' = reg
        /\ saved' = saved /\ lost' = lost
    BY <1>4 DEF WsOpenRefused
  <2>2. /\ vm' \in VmType /\ vm'.handle = vm.handle /\ vm'.last = vm.last
        /\ vm'.got = vm.got /\ vm'.pc = vm.pc
    BY <1>1, <2>1 DEF VmType, ReadyType
  <2> QED BY <1>1, <2>1, <2>2 DEF WsInv, Heap, Covers, Waits
<1>5. CASE WsRecv
  BY <1>5, RecvPreserves
<1>6. CASE RecvIdles
  <2>1. vm.pc = "parked" /\ vm' = [vm EXCEPT !.pc = "idle"] /\ reg' = [reg EXCEPT !.waiter = FALSE]
        /\ saved' = saved /\ lost' = lost
    BY <1>6 DEF RecvIdles
  <2>2. /\ vm' \in VmType /\ vm'.handle = vm.handle /\ vm'.last = vm.last
        /\ vm'.got = vm.got /\ vm'.pc = "idle"
    BY <1>1, <2>1 DEF VmType, PcType
  <2>3. /\ reg' \in RegType /\ reg'.up = reg.up /\ reg'.seq = reg.seq /\ reg'.queue = reg.queue
        /\ reg'.droppedThrough = reg.droppedThrough /\ ~reg'.waiter
    BY <1>1, <2>1 DEF RegType
  <2>4. QueueInv(reg')
    BY <1>1, <2>3 DEF QueueInv, Base
  <2>5. Covers(reg', vm', lost)
    BY <1>1, <2>2, <2>3 DEF Covers, Base
  <2> QED BY <1>1, <2>1, <2>2, <2>3, <2>4, <2>5 DEF WsInv, Heap, Waits
<1>7. CASE WsClose
  <2>1. vm.pc = "idle" /\ vm' = [vm EXCEPT !.ready = "CLOSED"] /\ reg' = [reg EXCEPT !.closed = reg.up]
        /\ saved' = saved /\ lost' = lost
    BY <1>7 DEF WsClose
  <2>2. /\ vm' \in VmType /\ vm'.handle = vm.handle /\ vm'.last = vm.last
        /\ vm'.got = vm.got /\ vm'.pc = vm.pc
    BY <1>1, <2>1 DEF VmType, ReadyType
  <2>3. /\ reg' \in RegType /\ reg'.up = reg.up /\ reg'.seq = reg.seq /\ reg'.queue = reg.queue
        /\ reg'.droppedThrough = reg.droppedThrough /\ reg'.waiter = reg.waiter
    BY <1>1, <2>1 DEF RegType
  <2>4. QueueInv(reg')
    BY <1>1, <2>3 DEF QueueInv, Base
  <2>5. Covers(reg', vm', lost)
    BY <1>1, <2>2, <2>3 DEF Covers, Base
  <2> QED BY <1>1, <2>1, <2>2, <2>3, <2>4, <2>5 DEF WsInv, Heap, Waits
<1>8. CASE \E n \in 0..QueueMax : WsPoll(n)
  BY <1>8, PollPreserves
<1>9. ASSUME NEW t \in {"message", "overflow", "error"}, RemoteEvent(t)
      PROVE  WsInv'
  <2>1. reg.up /\ Arrives(reg, t) /\ saved' = saved
    BY <1>9 DEF RemoteEvent
  <2>2. t \in FrameTypes
    BY DEF FrameTypes
  <2> QED BY <1>1, <1>2, <2>1, <2>2
<1>10. CASE RemoteCloses
  <2> DEFINE r == [reg EXCEPT !.closed = TRUE]
  <2>1. reg.up /\ Arrives(r, "close") /\ saved' = saved
    BY <1>10 DEF RemoteCloses
  <2>2. /\ r \in RegType /\ r.up = reg.up /\ r.seq = reg.seq /\ r.queue = reg.queue
        /\ r.droppedThrough = reg.droppedThrough /\ r.waiter = reg.waiter
    BY <1>1 DEF RegType
  <2> HIDE DEF r
  <2>3. QueueInv(r) /\ Waits(r, vm)
    BY <1>1, <2>2 DEF QueueInv, Base, Waits
  <2>4. "close" \in FrameTypes
    BY DEF FrameTypes
  <2> QED BY <1>2, <2>1, <2>2, <2>3, <2>4
<1>11. CASE Commit
  BY <1>1, <1>11 DEF Commit, WsInv
<1>12. CASE Hibernate
  <2>1. reg' = NoReg /\ vm' = saved /\ saved' = saved
    BY <1>12 DEF Hibernate
  <2> QED BY <1>1, <2>1, NoRegInv DEF WsInv, Covers, Waits
<1>13. CASE UNCHANGED wsVars
  BY <1>13 DEF wsVars, WsInv, Heap, QueueInv, Covers, Waits, Base
<1> QED
  BY <1>3, <1>4, <1>5, <1>6, <1>7, <1>8, <1>9, <1>10, <1>11, <1>12, <1>13 DEF WsNext

(* The events a VM dispatches from a WebSocket are the frames received, in *)
(* order, none twice, and none missing that the queue did not drop unread, *)
(* for every queue bound and any number of frames, through hibernations.   *)
THEOREM WebSocketDeliversInOrder == WsSpec => []DeliveredInOrder
<1>1. WsInv => DeliveredInOrder
  <2> SUFFICES ASSUME WsInv PROVE DeliveredInOrder
    OBVIOUS
  <2>1. Increasing(vm.got)
    BY DEF WsInv, Heap
  <2>2. ASSUME reg.up PROVE 1..vm.last \subseteq Range(vm.got) \cup lost
    <3>1. 1..From(Base(reg), vm.last) \subseteq Range(vm.got) \cup lost
          /\ vm.last \in Nat /\ Base(reg) \in Nat
      BY <2>2 DEF WsInv, Covers, Heap, VmType, QueueInv
    <3>2. \A i \in 1..vm.last : i \in 1..From(Base(reg), vm.last)
      BY <3>1 DEF From
    <3> QED BY <3>1, <3>2
  <2> QED BY <2>1, <2>2 DEF DeliveredInOrder, Increasing
<1> QED
  BY <1>1, WsInvInit, WsInvStep, PTL DEF WsSpec

-----------------------------------------------------------------------------
(* TCP sockets.  Part one: the heap's own invariant, helper by helper.     *)

(* The heap of the shim.  Its host calls by kind, and what a queue holds.  *)
SockType ==
    [handle : Nat, connecting : BOOLEAN, destroyed : BOOLEAN,
     closed : BOOLEAN, counted : BOOLEAN, loopRunning : BOOLEAN,
     wantClose : BOOLEAN, endAfterFlush : BOOLEAN, upgrade : BOOLEAN,
     preQ : Seq(Nat), writeQ : Seq(Nat), mode : Modes \cup {"off"}, allowHalfOpen : BOOLEAN,
     written : Nat, rx : Seq(Nat \X Nat), flushed : BOOLEAN]
CallType == [op : {"open", "write", "read", "startTls", "close"}, s : Socks, id : Nat, unit : Nat]
TurnType == [s : Socks, id : Nat]
HeapType == [sock : [Socks -> SockType], openCount : Int,
             tail : Seq(CallType), turns : Seq(TurnType)]

Opens(s) == {c \in CallType : c.s = s /\ c.op = "open"}
Closes(s) == {c \in CallType : c.s = s /\ c.op = "close"}
Writes(s) == {c \in CallType : c.s = s /\ c.op = "write"}
Loops(s) == {c \in CallType : c.s = s /\ c.op \in {"read", "write"}}
TurnsOf(s) == {t \in TurnType : t.s = s}

(* Something of K is in the queue; at most one; all of K in it bear id.    *)
In(q, K) == \E x \in Range(q) : x \in K
Solo(q, K) == \A i, j \in 1..Len(q) : q[i] \in K /\ q[j] \in K => i = j

Bears(q, K, id) == \A x \in Range(q) : x \in K => x.id = id

(* The units n + 1, n + 2, ... in order.                                   *)
From1(q, n) == \A i \in 1..Len(q) : q[i] = n + i

(* How the flags of one socket go together.                                *)
Life(k) ==
    /\ k.destroyed => k.closed
    /\ k.closed /\ ~k.destroyed => k.handle # NoHandle
    /\ k.connecting /\ ~k.destroyed => k.handle = NoHandle
    /\ k.counted => k.connecting \/ k.handle # NoHandle
    /\ k.handle = NoHandle /\ ~k.destroyed =>
          From1(k.preQ, 0) /\ Len(k.preQ) = k.written /\ k.rx = <<>>
    /\ k.loopRunning => ~k.closed /\ k.handle # NoHandle
    /\ k.flushed => k.closed /\ k.handle # NoHandle
    /\ k.mode # "starttls"
    /\ k.handle # NoHandle /\ ~k.closed /\ ~k.loopRunning => k.allowHalfOpen
    /\ k.allowHalfOpen => TRUE \in HalfOpen

(* The loop of s has one call or one turn queued, never two.               *)
Looping(h, s) == In(h.tail, Loops(s)) \/ In(h.turns, TurnsOf(s))

Alone(h, s) ==
    /\ Solo(h.tail, Loops(s)) /\ Solo(h.turns, TurnsOf(s))
    /\ ~(In(h.tail, Loops(s)) /\ In(h.turns, TurnsOf(s)))

(* Socket s and what is queued for it, while a call of kind hand of it (or *)
(* a turn: "loop") has been taken off the queue and its callback is about  *)
(* to run.                                                                 *)
SockInv(h, s, hand) ==
    LET k == h.sock[s] IN
    /\ Life(k)
    /\ In(h.tail, Opens(s)) \/ hand = "open" => ~k.flushed /\ (k.connecting \/ k.destroyed)
    /\ ~k.destroyed => Solo(h.tail, Opens(s)) /\ ~(In(h.tail, Opens(s)) /\ hand = "open")
    /\ k.connecting /\ ~k.destroyed => In(h.tail, Opens(s)) \/ hand = "open"
    /\ In(h.tail, Closes(s)) \/ hand = "close" => k.closed
    /\ k.closed /\ ~k.destroyed => In(h.tail, Closes(s)) \/ hand = "close"
    /\ Bears(h.tail, Loops(s), k.handle) /\ Bears(h.turns, TurnsOf(s), k.handle)
    /\ Looping(h, s) \/ hand = "loop" =>
          k.handle # NoHandle /\ ~k.flushed /\ (k.loopRunning \/ k.destroyed)
    /\ k.loopRunning => Looping(h, s) \/ hand = "loop"
    /\ hand = "loop" => ~Looping(h, s)
    /\ Alone(h, s)

(* _openCount counts the sockets that hold a slot.                         *)
Counted(h) == {s \in Socks : h.sock[s].counted}
CountInv(h) == IsFiniteSet(Counted(h)) /\ h.openCount = Cardinality(Counted(h))

(* The heap, while socket at is being served, and between steps.           *)
Serving(h, at, hand) ==
    /\ h \in HeapType /\ CountInv(h)
    /\ \A s \in Socks : SockInv(h, s, IF s = at THEN hand ELSE "none")
HeapInv(h) ==
    /\ h \in HeapType /\ CountInv(h)
    /\ \A s \in Socks : SockInv(h, s, "none")

(* No call, no turn and no live handle: what a cell leaves when no socket  *)
(* is half open.                                                           *)
Quiet(h) == h.tail = <<>> /\ h.turns = <<>> /\ \A s \in Socks : h.sock[s].handle = NoHandle \/ h.sock[s].destroyed

(* The connections, and what their peers got.                              *)
ConnType == [owner : Socks, got : Seq(Nat \X Nat), inbox : Seq(Nat \ {0}), pending : Nat, read : Nat,
             sends : Nat, fin : BOOLEAN, up : BOOLEAN]

GotInv == \A c \in 1..Len(conn) : \A i \in 1..Len(conn[c].got) : conn[c].got[i] = <<conn[c].owner, i>>

Less(h, s) == IF h.sock[s].counted THEN h.openCount - 1 ELSE h.openCount

(* Heap g is h but for socket s, which is k, and for its tail and turns.   *)
Is(g, h, s, k, n, q, t) ==
    /\ g \in HeapType /\ g.sock[s] = k /\ \A r \in Socks : r # s => g.sock[r] = h.sock[r]
    /\ g.openCount = n /\ g.tail = q /\ g.turns = t

CallOf(op, s, id, unit) == [op |-> op, s |-> s, id |-> id, unit |-> unit]

(* Two changes of one socket, one after the other.                         *)
LEMMA IsThen ==
    ASSUME NEW f, NEW g, NEW h, NEW s \in Socks, NEW k, NEW n, NEW q, NEW t,
           NEW k2, NEW n2, NEW q2, NEW t2,
           Is(g, h, s, k, n, q, t), Is(f, g, s, k2, n2, q2, t2)
    PROVE  Is(f, h, s, k2, n2, q2, t2)
  BY DEF Is

(* The parts of a heap.                                                    *)
LEMMA HeapFields ==
    ASSUME NEW h \in HeapType, NEW s \in Socks
    PROVE  /\ h.sock[s] \in SockType /\ h.openCount \in Int /\ h.tail \in Seq(CallType)
           /\ h.turns \in Seq(TurnType)
  BY DEF HeapType

(* A socket replaced.                                                      *)
LEMMA SetSock ==
    ASSUME NEW h \in HeapType, NEW s \in Socks, NEW k \in SockType
    PROVE  Is([h EXCEPT !.sock[s] = k], h, s, k, h.openCount, h.tail, h.turns)
  BY DEF HeapType, Is

(* The shim's helpers, in the form Is, from HostCall on.                   *)
LEMMA HostCallIs ==
    ASSUME NEW h \in HeapType, NEW op \in {"open", "write", "read", "startTls", "close"},
           NEW s \in Socks, NEW id \in Nat, NEW unit \in Nat
    PROVE  Is(HostCall(h, op, s, id, unit), h, s, h.sock[s], h.openCount,
              Append(h.tail, CallOf(op, s, id, unit)), h.turns)
<1> DEFINE c == CallOf(op, s, id, unit)
           q == Append(h.tail, c)
           g == HostCall(h, op, s, id, unit)
<1>1. c \in CallType
  BY DEF CallType, CallOf
<1>2. q \in Seq(CallType)
  BY <1>1, HeapFields
<1>3. g = [h EXCEPT !.tail = q]
  BY DEF HostCall, CallOf
<1> HIDE DEF q, g
<1>4. Is(g, h, s, h.sock[s], h.openCount, q, h.turns)
  BY <1>2, <1>3 DEF HeapType, Is
<1> QED
  BY <1>4 DEF g, q

(* What the helpers leave of a socket.                                     *)
Uncounted(k) == [k EXCEPT !.counted = FALSE]
Failed(k) == [k EXCEPT !.counted = FALSE, !.connecting = FALSE, !.closed = TRUE, !.destroyed = TRUE]
Closed(k, d) == [k EXCEPT !.counted = FALSE, !.loopRunning = FALSE, !.closed = TRUE, !.destroyed = d]
Destroyed(k) == [k EXCEPT !.counted = FALSE, !.destroyed = TRUE, !.connecting = FALSE,
                          !.loopRunning = FALSE, !.closed = TRUE]
Torn(k) == [k EXCEPT !.counted = FALSE, !.loopRunning = FALSE, !.closed = TRUE,
                     !.destroyed = TRUE, !.handle = NoHandle]

(* The sockets they leave are sockets.                                     *)
LEMMA SockUpdates ==
    ASSUME NEW k \in SockType, NEW d \in BOOLEAN
    PROVE  /\ Uncounted(k) \in SockType /\ Failed(k) \in SockType /\ Closed(k, d) \in SockType
           /\ Destroyed(k) \in SockType /\ Torn(k) \in SockType
<1>1. Uncounted(k) \in SockType
  BY DEF SockType, Uncounted
<1>2. Failed(k) \in SockType
  BY DEF SockType, Failed
<1>3. Closed(k, d) \in SockType
  BY DEF SockType, Closed
<1>4. Destroyed(k) \in SockType
  BY DEF SockType, Destroyed
<1>5. Torn(k) \in SockType
  BY DEF SockType, Torn, NoHandle
<1> QED
  BY <1>1, <1>2, <1>3, <1>4, <1>5

(* _uncount.                                                               *)
LEMMA UncountIs ==
    ASSUME NEW h \in HeapType, NEW s \in Socks
    PROVE  Is(Uncount(h, s), h, s, Uncounted(h.sock[s]), Less(h, s), h.tail, h.turns)
<1> DEFINE k == Uncounted(h.sock[s])
           n == Less(h, s)
           g == Uncount(h, s)
<1>1. k \in SockType
  BY HeapFields, SockUpdates
<1>2. n \in Int
  BY DEF HeapType, Less
<1>3. g = [h EXCEPT !.sock = [h.sock EXCEPT ![s] = k], !.openCount = n]
  BY DEF Uncount, Less, HeapType, Uncounted
<1> HIDE DEF k, n, g
<1>4. Is(g, h, s, k, n, h.tail, h.turns)
  BY <1>1, <1>2, <1>3 DEF HeapType, Is
<1> QED
  BY <1>4 DEF g, k, n

(* A socket that is uncounted and changed in the same step.                *)
LEMMA UncountThen ==
    ASSUME NEW h \in HeapType, NEW s \in Socks, NEW k \in SockType
    PROVE  Is([Uncount(h, s) EXCEPT !.sock[s] = k], h, s, k, Less(h, s), h.tail, h.turns)
<1> DEFINE g == Uncount(h, s)
<1>1. Is(g, h, s, Uncounted(h.sock[s]), Less(h, s), h.tail, h.turns)
  BY UncountIs
<1> HIDE DEF g
<1>2. g \in HeapType /\ g.openCount = Less(h, s) /\ g.tail = h.tail /\ g.turns = h.turns
  BY <1>1 DEF Is
<1>3. Is([g EXCEPT !.sock[s] = k], g, s, k, g.openCount, g.tail, g.turns)
  BY <1>2, SetSock
<1>4. Is([g EXCEPT !.sock[s] = k], h, s, k, Less(h, s), h.tail, h.turns)
  BY <1>1, <1>2, <1>3, IsThen
<1> QED
  BY <1>4 DEF g

(* _fail.                                                                  *)
LEMMA FailIs ==
    ASSUME NEW h \in HeapType, NEW s \in Socks
    PROVE  Is(Fail(h, s), h, s, Failed(h.sock[s]), Less(h, s), h.tail, h.turns)
<1> DEFINE g == Uncount(h, s)
           k == Failed(h.sock[s])
<1>1. k \in SockType /\ h.sock[s] \in SockType
  BY HeapFields, SockUpdates
<1>2. g \in HeapType /\ g.sock[s] = Uncounted(h.sock[s])
  BY UncountIs DEF Is
<1> HIDE DEF g
<1>3. [g.sock[s] EXCEPT !.connecting = FALSE, !.closed = TRUE, !.destroyed = TRUE] = k
  BY <1>1, <1>2 DEF SockType, Uncounted, Failed
<1> HIDE DEF k
<1>4. Fail(h, s) = [g EXCEPT !.sock[s] = k]
  BY <1>2, <1>3 DEF Fail, HeapType, g
<1> QED
  BY <1>1, <1>4, UncountThen DEF g, k

(* _doClose, in its three cases.                                           *)
LEMMA DoCloseIs ==
    ASSUME NEW h \in HeapType, NEW s \in Socks
    PROVE  LET k == h.sock[s] IN
           /\ k.closed => DoClose(h, s) = h
           /\ ~k.closed /\ k.handle = NoHandle =>
                 Is(DoClose(h, s), h, s, Closed(k, TRUE), Less(h, s), h.tail, h.turns)
           /\ ~k.closed /\ k.handle # NoHandle =>
                 Is(DoClose(h, s), h, s, Closed(k, k.destroyed), Less(h, s),
                    Append(h.tail, CallOf("close", s, k.handle, 0)), h.turns)
<1> DEFINE k == h.sock[s]
           u == Uncount(h, s)
           g == [u EXCEPT !.sock[s].loopRunning = FALSE, !.sock[s].closed = TRUE]
<1>1. k \in SockType /\ k.destroyed \in BOOLEAN /\ k.handle \in Nat
  BY HeapFields DEF SockType
<1>2. u \in HeapType /\ u.sock[s] = Uncounted(k)
  BY UncountIs DEF Is
<1> DEFINE k1 == Closed(k, k.destroyed)
<1>3. k1 \in SockType
  BY <1>1, SockUpdates
<1> HIDE DEF u
<1>4. [u.sock[s] EXCEPT !.loopRunning = FALSE, !.closed = TRUE] = k1
  BY <1>1, <1>2 DEF SockType, Uncounted, Closed
<1> HIDE DEF k1
<1>5. g = [u EXCEPT !.sock[s] = k1]
  BY <1>2, <1>4 DEF HeapType
<1>6. Is(g, h, s, k1, Less(h, s), h.tail, h.turns)
  BY <1>3, <1>5, UncountThen DEF u
<1> HIDE DEF g
<1>7. ASSUME ~k.closed, k.handle = NoHandle
      PROVE  Is(DoClose(h, s), h, s, Closed(k, TRUE), Less(h, s), h.tail, h.turns)
  <2> DEFINE k2 == Closed(k, TRUE)
  <2>1. k2 \in SockType
    BY <1>1, SockUpdates
  <2>2. g \in HeapType /\ g.sock[s] = k1
    BY <1>6 DEF Is
  <2>3. [g.sock[s] EXCEPT !.destroyed = TRUE] = k2
    BY <1>1, <2>2 DEF SockType, Closed, k1
  <2> HIDE DEF k2
  <2>4. DoClose(h, s) = [g EXCEPT !.sock[s].destroyed = TRUE]
    BY <1>7 DEF DoClose, g, u
  <2>5. DoClose(h, s) = [g EXCEPT !.sock[s] = k2]
    BY <2>2, <2>3, <2>4 DEF HeapType
  <2>6. Is(DoClose(h, s), g, s, k2, g.openCount, g.tail, g.turns)
    BY <2>1, <2>2, <2>5, SetSock
  <2>7. Is(DoClose(h, s), h, s, k2, g.openCount, g.tail, g.turns)
    BY <1>6, <2>6, IsThen
  <2> QED BY <1>6, <2>7 DEF Is, k2
<1>8. ASSUME ~k.closed, k.handle # NoHandle
      PROVE  Is(DoClose(h, s), h, s, k1, Less(h, s),
                Append(h.tail, CallOf("close", s, k.handle, 0)), h.turns)
  <2>1. DoClose(h, s) = HostCall(g, "close", s, k.handle, 0)
    BY <1>8 DEF DoClose, g, u
  <2>2. /\ g \in HeapType /\ g.sock[s] = k1 /\ g.openCount = Less(h, s) /\ g.tail = h.tail
        /\ g.turns = h.turns
    BY <1>6 DEF Is
  <2>3. Is(DoClose(h, s), g, s, k1, Less(h, s), Append(h.tail, CallOf("close", s, k.handle, 0)), h.turns)
    BY <1>1, <2>1, <2>2, HostCallIs
  <2> QED BY <1>6, <2>3, IsThen
<1>9. k.closed => DoClose(h, s) = h
  BY DEF DoClose
<1> QED
  BY <1>7, <1>8, <1>9 DEF k1

(* destroy, in its three cases.                                            *)
LEMMA DestroyIs ==
    ASSUME NEW h \in HeapType, NEW s \in Socks
    PROVE  LET k == h.sock[s] IN
           /\ k.destroyed => Destroy(h, s) = h
           /\ ~k.destroyed /\ k.handle = NoHandle =>
                 Is(Destroy(h, s), h, s, Destroyed(k), Less(h, s), h.tail, h.turns)
           /\ ~k.destroyed /\ k.handle # NoHandle =>
                 Is(Destroy(h, s), h, s, Destroyed(k), Less(h, s),
                    Append(h.tail, CallOf("close", s, k.handle, 0)), h.turns)
<1> DEFINE k == h.sock[s]
           u == Uncount(h, s)
           g == [u EXCEPT !.sock[s].destroyed = TRUE, !.sock[s].connecting = FALSE,
                          !.sock[s].loopRunning = FALSE, !.sock[s].closed = TRUE]
           k1 == Destroyed(k)
<1>1. k \in SockType /\ k.handle \in Nat
  BY HeapFields DEF SockType
<1>2. u \in HeapType /\ u.sock[s] = Uncounted(k)
  BY UncountIs DEF Is
<1>3. k1 \in SockType
  BY <1>1, SockUpdates
<1> HIDE DEF u
<1>4. [u.sock[s] EXCEPT !.destroyed = TRUE, !.connecting = FALSE, !.loopRunning = FALSE,
                        !.closed = TRUE] = k1
  BY <1>1, <1>2 DEF SockType, Uncounted, Destroyed
<1> HIDE DEF k1
<1>5. g = [u EXCEPT !.sock[s] = k1]
  BY <1>2, <1>4 DEF HeapType
<1>6. Is(g, h, s, k1, Less(h, s), h.tail, h.turns)
  BY <1>3, <1>5, UncountThen DEF u
<1> HIDE DEF g
<1>7. ASSUME ~k.destroyed, k.handle = NoHandle
      PROVE  Is(Destroy(h, s), h, s, k1, Less(h, s), h.tail, h.turns)
  <2>1. Destroy(h, s) = g
    BY <1>7 DEF Destroy, g, u
  <2> QED BY <1>6, <2>1
<1>8. ASSUME ~k.destroyed, k.handle # NoHandle
      PROVE  Is(Destroy(h, s), h, s, k1, Less(h, s),
                Append(h.tail, CallOf("close", s, k.handle, 0)), h.turns)
  <2>1. Destroy(h, s) = HostCall(g, "close", s, k.handle, 0)
    BY <1>8 DEF Destroy, g, u
  <2>2. /\ g \in HeapType /\ g.sock[s] = k1 /\ g.openCount = Less(h, s) /\ g.tail = h.tail
        /\ g.turns = h.turns
    BY <1>6 DEF Is
  <2>3. Is(Destroy(h, s), g, s, k1, Less(h, s), Append(h.tail, CallOf("close", s, k.handle, 0)), h.turns)
    BY <1>1, <2>1, <2>2, HostCallIs
  <2> QED BY <1>6, <2>3, IsThen
<1>9. k.destroyed => Destroy(h, s) = h
  BY DEF Destroy
<1> QED
  BY <1>7, <1>8, <1>9 DEF k1

(* _teardown of a socket that is not destroyed yet.                        *)
LEMMA TeardownIs ==
    ASSUME NEW h \in HeapType, NEW s \in Socks, ~h.sock[s].destroyed
    PROVE  LET k == h.sock[s] IN
           Is(Teardown(h, s), h, s, Torn(k), Less(h, s),
              Append(h.tail, CallOf("close", s, k.handle, 0)), h.turns)
<1> DEFINE k == h.sock[s]
           u == Uncount(h, s)
           g == [u EXCEPT !.sock[s].loopRunning = FALSE, !.sock[s].closed = TRUE,
                          !.sock[s].destroyed = TRUE, !.sock[s].handle = NoHandle]
           k1 == Torn(k)
<1>1. k \in SockType /\ k.handle \in Nat
  BY HeapFields DEF SockType
<1>2. u \in HeapType /\ u.sock[s] = Uncounted(k)
  BY UncountIs DEF Is
<1>3. k1 \in SockType
  BY <1>1, SockUpdates
<1> HIDE DEF u
<1>4. [u.sock[s] EXCEPT !.loopRunning = FALSE, !.closed = TRUE, !.destroyed = TRUE,
                        !.handle = NoHandle] = k1
  BY <1>1, <1>2 DEF SockType, Uncounted, Torn
<1> HIDE DEF k1
<1>5. g = [u EXCEPT !.sock[s] = k1]
  BY <1>2, <1>4 DEF HeapType
<1>6. Is(g, h, s, k1, Less(h, s), h.tail, h.turns)
  BY <1>3, <1>5, UncountThen DEF u
<1> HIDE DEF g
<1>7. Teardown(h, s) = HostCall(g, "close", s, k.handle, 0)
  BY DEF Teardown, g, u
<1>8. /\ g \in HeapType /\ g.sock[s] = k1 /\ g.openCount = Less(h, s) /\ g.tail = h.tail
      /\ g.turns = h.turns
  BY <1>6 DEF Is
<1>9. Is(Teardown(h, s), g, s, k1, Less(h, s), Append(h.tail, CallOf("close", s, k.handle, 0)), h.turns)
  BY <1>1, <1>7, <1>8, HostCallIs
<1> QED
  BY <1>6, <1>9, IsThen DEF k1

(* The loop's steps on a socket.                                           *)
Stopped(k) == [k EXCEPT !.loopRunning = FALSE]
Started(k) == [k EXCEPT !.loopRunning = TRUE]
Popped(k) == [k EXCEPT !.writeQ = Tail(k.writeQ)]
Flushed(k) == Closed([k EXCEPT !.flushed = TRUE], k.destroyed)

(* The sockets the loop leaves are sockets.                                *)
LEMMA LoopUpdates ==
    ASSUME NEW k \in SockType
    PROVE  /\ Stopped(k) \in SockType /\ Started(k) \in SockType /\ Flushed(k) \in SockType
           /\ k.writeQ # <<>> => Popped(k) \in SockType /\ Head(k.writeQ) \in Nat
<1>1. Stopped(k) \in SockType
  BY DEF SockType, Stopped
<1>2. Started(k) \in SockType
  BY DEF SockType, Started
<1>3. Flushed(k) \in SockType
  BY DEF SockType, Flushed, Closed
<1>4. ASSUME k.writeQ # <<>> PROVE Popped(k) \in SockType /\ Head(k.writeQ) \in Nat
  <2>1. k.writeQ \in Seq(Nat)
    BY DEF SockType
  <2>2. Tail(k.writeQ) \in Seq(Nat) /\ Head(k.writeQ) \in Nat
    BY <1>4, <2>1
  <2> QED BY <2>2 DEF SockType, Popped
<1> QED
  BY <1>1, <1>2, <1>3, <1>4

(* The loop stops.                                                         *)
LEMMA StopLoopIs ==
    ASSUME NEW h \in HeapType, NEW s \in Socks
    PROVE  Is(StopLoop(h, s), h, s, Stopped(h.sock[s]), h.openCount, h.tail, h.turns)
<1> DEFINE k == Stopped(h.sock[s])
<1>1. k \in SockType
  BY HeapFields, LoopUpdates
<1>2. StopLoop(h, s) = [h EXCEPT !.sock[s] = k]
  BY DEF StopLoop, Stopped, HeapType
<1> QED
  BY <1>1, <1>2, SetSock

(* _startLoop, which queues a turn or does nothing.                        *)
LEMMA StartLoopIs ==
    ASSUME NEW h \in HeapType, NEW s \in Socks
    PROVE  LET k == h.sock[s]
               runs == ~k.loopRunning /\ k.handle # NoHandle /\ ~k.destroyed /\ ~k.closed IN
           /\ ~runs => StartLoop(h, s) = h
           /\ runs => Is(StartLoop(h, s), h, s, Started(k), h.openCount, h.tail,
                         Append(h.turns, [s |-> s, id |-> k.handle]))
<1> DEFINE k == h.sock[s]
           k1 == Started(k)
           t == [s |-> s, id |-> k.handle]
           q == Append(h.turns, t)
           runs == ~k.loopRunning /\ k.handle # NoHandle /\ ~k.destroyed /\ ~k.closed
<1>1. k \in SockType /\ k1 \in SockType /\ k.handle \in Nat
  BY HeapFields, LoopUpdates DEF SockType
<1>2. q \in Seq(TurnType)
  <2>1. t \in TurnType
    BY <1>1 DEF TurnType
  <2> HIDE DEF t
  <2> QED BY <2>1, HeapFields
<1>3. ~runs => StartLoop(h, s) = h
  BY DEF StartLoop
<1>4. ASSUME runs PROVE Is(StartLoop(h, s), h, s, k1, h.openCount, h.tail, q)
  <2>1. StartLoop(h, s) = [h EXCEPT !.sock = [h.sock EXCEPT ![s] = k1], !.turns = q]
    BY <1>4 DEF StartLoop, Started, HeapType
  <2> DEFINE g == StartLoop(h, s)
  <2> HIDE DEF q, k1, g
  <2>2. g = [h EXCEPT !.sock = [h.sock EXCEPT ![s] = k1], !.turns = q]
    BY <2>1 DEF g
  <2>3. Is(g, h, s, k1, h.openCount, h.tail, q)
    BY <1>1, <1>2, <2>2 DEF HeapType, Is
  <2> QED BY <2>3 DEF g
<1> QED
  BY <1>3, <1>4

(* What a turn of the command loop makes of the heap.                      *)
TurnDead(h, s, id) == h.sock[s].destroyed \/ h.sock[s].closed \/ h.sock[s].handle # id

(* A turn, in its four cases.                                              *)
LEMMA TurnIs ==
    ASSUME NEW h \in HeapType, NEW s \in Socks, NEW id \in Nat, id # NoHandle
    PROVE  LET k == h.sock[s]  dead == TurnDead(h, s, id) IN
           /\ dead => Is(Turn(h, s, id), h, s, Stopped(k), h.openCount, h.tail, h.turns)
           /\ ~dead /\ k.writeQ # <<>> =>
                 Is(Turn(h, s, id), h, s, Popped(k), h.openCount,
                    Append(h.tail, CallOf("write", s, id, Head(k.writeQ))), h.turns)
           /\ ~dead /\ k.writeQ = <<>> /\ k.wantClose =>
                 Is(Turn(h, s, id), h, s, Flushed(k), Less(h, s),
                    Append(h.tail, CallOf("close", s, id, 0)), h.turns)
           /\ ~dead /\ k.writeQ = <<>> /\ ~k.wantClose =>
                 Is(Turn(h, s, id), h, s, k, h.openCount,
                    Append(h.tail, CallOf("read", s, id, 0)), h.turns)
<1> DEFINE k == h.sock[s]
           dead == TurnDead(h, s, id)
           g == Turn(h, s, id)
<1>1. k \in SockType
  BY HeapFields
<1>2. ASSUME dead PROVE Is(g, h, s, Stopped(k), h.openCount, h.tail, h.turns)
  <2>1. g = StopLoop(h, s)
    BY <1>2 DEF Turn, TurnDead
  <2> QED BY <2>1, StopLoopIs
<1>3. ASSUME ~dead, k.writeQ # <<>>
      PROVE  Is(g, h, s, Popped(k), h.openCount,
                Append(h.tail, CallOf("write", s, id, Head(k.writeQ))), h.turns)
  <2> DEFINE k1 == Popped(k)
             h1 == [h EXCEPT !.sock[s] = k1]
  <2>1. k1 \in SockType /\ Head(k.writeQ) \in Nat
    BY <1>1, <1>3, LoopUpdates
  <2>2. g = HostCall([h EXCEPT !.sock[s].writeQ = Tail(k.writeQ)], "write", s, id, Head(k.writeQ))
    BY <1>3 DEF Turn, TurnDead
  <2>3. [h EXCEPT !.sock[s].writeQ = Tail(k.writeQ)] = h1
    BY DEF HeapType, Popped
  <2>4. Is(h1, h, s, k1, h.openCount, h.tail, h.turns)
    BY <2>1, SetSock
  <2> DEFINE unit == Head(k.writeQ)
  <2> HIDE DEF h1, k1, g
  <2>5. h1 \in HeapType /\ h1.sock[s] = k1 /\ h1.openCount = h.openCount /\ h1.tail = h.tail
        /\ h1.turns = h.turns
    BY <2>4 DEF Is
  <2>6. g = HostCall(h1, "write", s, id, unit) /\ unit \in Nat
    BY <2>1, <2>2, <2>3
  <2> HIDE DEF unit
  <2>7. Is(g, h1, s, k1, h.openCount, Append(h.tail, CallOf("write", s, id, unit)), h.turns)
    BY <2>5, <2>6, HostCallIs
  <2>8. Is(g, h, s, k1, h.openCount, Append(h.tail, CallOf("write", s, id, unit)), h.turns)
    BY <2>4, <2>7, IsThen
  <2> QED BY <2>8 DEF k1, unit
<1>4. ASSUME ~dead, k.writeQ = <<>>, k.wantClose
      PROVE  Is(g, h, s, Flushed(k), Less(h, s), Append(h.tail, CallOf("close", s, id, 0)), h.turns)
  <2> DEFINE k1 == [k EXCEPT !.flushed = TRUE]
             h1 == [h EXCEPT !.sock[s] = k1]
  <2>1. /\ k1 \in SockType /\ k1.closed = k.closed /\ k1.handle = k.handle
        /\ k1.destroyed = k.destroyed /\ k1.counted = k.counted
    BY <1>1 DEF SockType
  <2>2. g = DoClose([h EXCEPT !.sock[s].flushed = TRUE], s)
    BY <1>4 DEF Turn, TurnDead
  <2>3. [h EXCEPT !.sock[s].flushed = TRUE] = h1
    BY DEF HeapType
  <2>4. Is(h1, h, s, k1, h.openCount, h.tail, h.turns)
    BY <2>1, SetSock
  <2>5. Flushed(k) = Closed(k1, k1.destroyed)
    BY <2>1 DEF Flushed
  <2> HIDE DEF h1, k1, g
  <2>6. h1 \in HeapType /\ h1.sock[s] = k1 /\ h1.openCount = h.openCount /\ h1.tail = h.tail
        /\ h1.turns = h.turns
    BY <2>4 DEF Is
  <2>7. ~k1.closed /\ k1.handle # NoHandle /\ k1.handle = id
    BY <1>4, <2>1 DEF TurnDead
  <2>8. Is(g, h1, s, Closed(k1, k1.destroyed), Less(h1, s),
           Append(h.tail, CallOf("close", s, id, 0)), h.turns)
    BY <2>2, <2>3, <2>6, <2>7, DoCloseIs
  <2>9. Less(h1, s) = Less(h, s)
    BY <2>1, <2>6 DEF Less
  <2> QED BY <2>4, <2>5, <2>8, <2>9, IsThen
<1>5. ASSUME ~dead, k.writeQ = <<>>, ~k.wantClose
      PROVE  Is(g, h, s, k, h.openCount, Append(h.tail, CallOf("read", s, id, 0)), h.turns)
  <2>1. g = HostCall(h, "read", s, id, 0)
    BY <1>5 DEF Turn, TurnDead
  <2> QED BY <2>1, HostCallIs
<1> QED
  BY <1>2, <1>3, <1>4, <1>5

Attached(k, id) == [k EXCEPT !.handle = id, !.connecting = FALSE, !.writeQ = k.preQ,
                             !.preQ = <<>>, !.wantClose = k.endAfterFlush]

(* A socket that gets its handle.                                          *)
LEMMA AttachUpdates ==
    ASSUME NEW k \in SockType, NEW id \in Nat
    PROVE  LET k1 == Attached(k, id) IN
           /\ k1 \in SockType /\ k1.handle = id /\ k1.destroyed = k.destroyed
           /\ k1.closed = k.closed /\ k1.loopRunning = k.loopRunning
<1> DEFINE q == k.preQ
           w == k.endAfterFlush
           e == <<>>
<1>1. q \in Seq(Nat) /\ w \in BOOLEAN /\ e \in Seq(Nat)
  BY DEF SockType
<1> HIDE DEF q, w, e
<1>2. Attached(k, id) = [k EXCEPT !.handle = id, !.connecting = FALSE, !.writeQ = q,
                                  !.preQ = e, !.wantClose = w]
  BY DEF Attached, q, w, e
<1> DEFINE k1 == Attached(k, id)
           k2 == [k EXCEPT !.handle = id, !.connecting = FALSE, !.wantClose = w]
<1>3. k2 \in SockType /\ k2.handle = id /\ k2.destroyed = k.destroyed /\ k2.closed = k.closed
      /\ k2.loopRunning = k.loopRunning
  BY <1>1 DEF SockType
<1>4. k1 = [k2 EXCEPT !.writeQ = q, !.preQ = e]
  BY <1>2 DEF SockType
<1> HIDE DEF k1, k2
<1>5. k1 \in SockType /\ k1.handle = id /\ k1.destroyed = k.destroyed /\ k1.closed = k.closed
      /\ k1.loopRunning = k.loopRunning
  BY <1>1, <1>3, <1>4 DEF SockType
<1> QED
  BY <1>5 DEF k1

(* The callback of the open, for a destroyed and for a live socket.        *)
LEMMA OpenedIs ==
    ASSUME NEW h \in HeapType, NEW s \in Socks, NEW id \in Nat, id # NoHandle
    PROVE  LET k == h.sock[s]
               turns == Append(h.turns, [s |-> s, id |-> id]) IN
           /\ k.destroyed =>
                 Is(Opened(h, s, id), h, s, Uncounted(k), Less(h, s),
                    Append(h.tail, CallOf("close", s, id, 0)), h.turns)
           /\ ~k.destroyed /\ ~k.closed /\ ~k.loopRunning =>
                 \E q \in {h.tail, Append(h.tail, CallOf("startTls", s, id, 0))} :
                    Is(Opened(h, s, id), h, s, Started(Attached(k, id)), h.openCount, q, turns)
<1> DEFINE k == h.sock[s]
           turns == Append(h.turns, [s |-> s, id |-> id])
           g == Opened(h, s, id)
<1>1. k \in SockType
  BY HeapFields
<1>2. ASSUME k.destroyed
      PROVE  Is(g, h, s, Uncounted(k), Less(h, s), Append(h.tail, CallOf("close", s, id, 0)), h.turns)
  <2> DEFINE h1 == Uncount(h, s)
  <2>1. g = HostCall(h1, "close", s, id, 0)
    BY <1>2 DEF Opened
  <2>2. Is(h1, h, s, Uncounted(k), Less(h, s), h.tail, h.turns)
    BY UncountIs
  <2> HIDE DEF h1, g
  <2>3. h1 \in HeapType /\ h1.sock[s] = Uncounted(k) /\ h1.openCount = Less(h, s)
        /\ h1.tail = h.tail /\ h1.turns = h.turns
    BY <2>2 DEF Is
  <2>4. Is(g, h1, s, Uncounted(k), Less(h, s), Append(h.tail, CallOf("close", s, id, 0)), h.turns)
    BY <2>1, <2>3, HostCallIs
  <2> QED BY <2>2, <2>4, IsThen
<1>3. ASSUME ~k.destroyed, ~k.closed, ~k.loopRunning
      PROVE  \E q \in {h.tail, Append(h.tail, CallOf("startTls", s, id, 0))} :
                Is(g, h, s, Started(Attached(k, id)), h.openCount, q, turns)
  <2> DEFINE k1 == Attached(k, id)
             h1 == [h EXCEPT !.sock[s] = k1]
             h2 == IF k.upgrade THEN HostCall(h1, "startTls", s, id, 0) ELSE h1
             q == IF k.upgrade THEN Append(h.tail, CallOf("startTls", s, id, 0)) ELSE h.tail
  <2>1. /\ k1 \in SockType /\ k1.handle = id /\ k1.destroyed = k.destroyed
        /\ k1.closed = k.closed /\ k1.loopRunning = k.loopRunning
    <3> HIDE DEF k
    <3> QED BY <1>1, AttachUpdates
  <2>3. Opened(h, s, id) = StartLoop(h2, s)
    BY <1>3 DEF Opened, Attached
  <2>4. Is(h1, h, s, k1, h.openCount, h.tail, h.turns)
    BY <2>1, SetSock
  <2> HIDE DEF h1, k1, g
  <2>5. h1 \in HeapType /\ h1.sock[s] = k1 /\ h1.openCount = h.openCount
        /\ h1.tail = h.tail /\ h1.turns = h.turns
    BY <2>4 DEF Is
  <2>6. Is(h2, h, s, k1, h.openCount, q, h.turns)
    <3>1. CASE k.upgrade
      <4>1. Is(h2, h1, s, k1, h.openCount, q, h.turns)
        BY <2>5, <3>1, HostCallIs
      <4> QED BY <2>4, <4>1, IsThen
    <3>2. CASE ~k.upgrade
      BY <2>4, <3>2
    <3> QED BY <3>1, <3>2
  <2> HIDE DEF h2, q
  <2>7. h2 \in HeapType /\ h2.sock[s] = k1 /\ h2.openCount = h.openCount
        /\ h2.tail = q /\ h2.turns = h.turns
    BY <2>6 DEF Is
  <2>8. ~k1.loopRunning /\ k1.handle # NoHandle /\ ~k1.destroyed /\ ~k1.closed
    BY <1>3, <2>1
  <2>9. Is(g, h2, s, Started(k1), h.openCount, q, turns)
    BY <2>1, <2>3, <2>7, <2>8, StartLoopIs DEF g
  <2>10. Is(g, h, s, Started(k1), h.openCount, q, turns)
    BY <2>6, <2>9, IsThen
  <2>11. q \in {h.tail, Append(h.tail, CallOf("startTls", s, id, 0))}
    BY DEF q
  <2> QED BY <2>10, <2>11 DEF k1
<1> QED
  BY <1>2, <1>3

(* Accept, on a socket that can be written.                                *)
Waiting(k) == [k EXCEPT !.written = k.written + 1, !.preQ = Append(k.preQ, k.written + 1)]
Queued(k) == [k EXCEPT !.written = k.written + 1, !.writeQ = Append(k.writeQ, k.written + 1)]

(* A socket with one write more.                                           *)
LEMMA AcceptUpdates ==
    ASSUME NEW k \in SockType
    PROVE  LET k1 == Queued(k) IN
           /\ Waiting(k) \in SockType /\ k1 \in SockType
           /\ k1.handle = k.handle /\ k1.destroyed = k.destroyed
           /\ k1.closed = k.closed /\ k1.loopRunning = k.loopRunning
<1> DEFINE n == k.written + 1
           p == Append(k.preQ, n)
           w == Append(k.writeQ, n)
<1>1. n \in Nat /\ k.preQ \in Seq(Nat) /\ k.writeQ \in Seq(Nat)
  BY DEF SockType
<1>2. p \in Seq(Nat) /\ w \in Seq(Nat)
  <2> HIDE DEF n
  <2> QED BY <1>1
<1>3. /\ Waiting(k) = [k EXCEPT !.written = n, !.preQ = p]
      /\ Queued(k) = [k EXCEPT !.written = n, !.writeQ = w]
  BY DEF Waiting, Queued
<1> HIDE DEF n, p, w
<1>4. Waiting(k) \in SockType
  BY <1>1, <1>2, <1>3 DEF SockType
<1>5. Queued(k) \in SockType /\ Queued(k).handle = k.handle /\ Queued(k).destroyed = k.destroyed
      /\ Queued(k).closed = k.closed /\ Queued(k).loopRunning = k.loopRunning
  BY <1>1, <1>2, <1>3 DEF SockType
<1> QED
  BY <1>4, <1>5

(* write, in its three cases.                                              *)
LEMMA AcceptIs ==
    ASSUME NEW h \in HeapType, NEW s \in Socks, ~h.sock[s].destroyed, ~h.sock[s].closed
    PROVE  LET k == h.sock[s]
               turns == Append(h.turns, [s |-> s, id |-> k.handle]) IN
           /\ k.handle = NoHandle =>
                 Is(Accept(h, s), h, s, Waiting(k), h.openCount, h.tail, h.turns)
           /\ k.handle # NoHandle /\ k.loopRunning =>
                 Is(Accept(h, s), h, s, Queued(k), h.openCount, h.tail, h.turns)
           /\ k.handle # NoHandle /\ ~k.loopRunning =>
                 Is(Accept(h, s), h, s, Started(Queued(k)), h.openCount, h.tail, turns)
<1> DEFINE k == h.sock[s]
           turns == Append(h.turns, [s |-> s, id |-> k.handle])
           g == Accept(h, s)
           h0 == [h EXCEPT !.sock[s].written = @ + 1]
<1>1. k \in SockType /\ k.written \in Nat /\ k.preQ \in Seq(Nat) /\ k.writeQ \in Seq(Nat)
      /\ k.loopRunning \in BOOLEAN
  BY HeapFields DEF SockType
<1>2. h0.sock[s].written = k.written + 1
  BY <1>1 DEF HeapType, SockType
<1>3. ASSUME k.handle = NoHandle
      PROVE  Is(g, h, s, Waiting(k), h.openCount, h.tail, h.turns)
  <2>1. g = [h0 EXCEPT !.sock[s].preQ = Append(@, k.written + 1)]
    BY <1>2, <1>3 DEF Accept
  <2>2. g = [h EXCEPT !.sock[s] = Waiting(k)]
    BY <1>1, <2>1 DEF Waiting, HeapType, SockType
  <2>3. Waiting(k) \in SockType
    <3> HIDE DEF k
    <3> QED BY <1>1, AcceptUpdates
  <2> QED BY <2>2, <2>3, SetSock
<1>4. ASSUME k.handle # NoHandle
      PROVE  /\ k.loopRunning => Is(g, h, s, Queued(k), h.openCount, h.tail, h.turns)
             /\ ~k.loopRunning => Is(g, h, s, Started(Queued(k)), h.openCount, h.tail, turns)
  <2> DEFINE h1 == [h EXCEPT !.sock[s] = Queued(k)]
  <2>1. g = StartLoop([h0 EXCEPT !.sock[s].writeQ = Append(@, k.written + 1)], s)
    BY <1>2, <1>4 DEF Accept
  <2>2. [h0 EXCEPT !.sock[s].writeQ = Append(@, k.written + 1)] = h1
    BY <1>1 DEF Queued, HeapType, SockType
  <2>3. /\ Queued(k) \in SockType /\ Queued(k).handle = k.handle /\ Queued(k).destroyed = k.destroyed
        /\ Queued(k).closed = k.closed /\ Queued(k).loopRunning = k.loopRunning
    <3> HIDE DEF k
    <3> QED BY <1>1, AcceptUpdates
  <2>4. Is(h1, h, s, Queued(k), h.openCount, h.tail, h.turns)
    BY <2>3, SetSock
  <2>5. g = StartLoop(h1, s)
    BY <2>1, <2>2
  <2> HIDE DEF h1, g
  <2>6. h1 \in HeapType /\ h1.sock[s] = Queued(k) /\ h1.openCount = h.openCount
        /\ h1.tail = h.tail /\ h1.turns = h.turns
    BY <2>4 DEF Is
  <2>7. k.loopRunning => Is(g, h, s, Queued(k), h.openCount, h.tail, h.turns)
    BY <2>3, <2>4, <2>5, <2>6, StartLoopIs
  <2>8. ASSUME ~k.loopRunning PROVE Is(g, h, s, Started(Queued(k)), h.openCount, h.tail, turns)
    <3>1. Is(g, h1, s, Started(Queued(k)), h.openCount, h.tail, turns)
      BY <1>4, <2>3, <2>5, <2>6, <2>8, StartLoopIs
    <3> QED BY <2>4, <3>1, IsThen
  <2> QED BY <2>7, <2>8
<1> QED
  BY <1>1, <1>3, <1>4

-----------------------------------------------------------------------------
(* What is in a queue, at most once in it, and which handle it bears,      *)
(* after an append.                                                        *)
LEMMA AfterAppend ==
    ASSUME NEW T, NEW q \in Seq(T), NEW c \in T
    PROVE  /\ Range(Append(q, c)) = Range(q) \cup {c}
           /\ \A K : /\ In(Append(q, c), K) <=> In(q, K) \/ c \in K
                     /\ Solo(q, K) /\ ~(In(q, K) /\ c \in K) => Solo(Append(q, c), K)
           /\ \A K, id : Bears(Append(q, c), K, id) <=> Bears(q, K, id) /\ (c \in K => c.id = id)
<1> DEFINE p == Append(q, c)
           n == Len(q)
<1>1. /\ n \in Nat /\ Len(p) = n + 1 /\ p[n + 1] = c /\ \A i \in 1..n : p[i] = q[i]
      /\ DOMAIN p = 1..(n + 1) /\ DOMAIN q = 1..n
  OBVIOUS
<1> HIDE DEF p, n
<1>2. Range(p) = Range(q) \cup {c}
  <2>1. ASSUME NEW x \in Range(p) PROVE x \in Range(q) \cup {c}
    <3>1. PICK i \in 1..(n + 1) : x = p[i]
      BY <1>1 DEF Range
    <3>2. CASE i = n + 1
      BY <1>1, <3>1, <3>2
    <3>3. CASE i # n + 1
      <4>1. i \in 1..n
        BY <1>1, <3>3
      <4> QED BY <1>1, <3>1, <4>1 DEF Range
    <3> QED BY <3>2, <3>3
  <2>2. ASSUME NEW x \in Range(q) \cup {c} PROVE x \in Range(p)
    <3>1. n + 1 \in DOMAIN p /\ \A i \in DOMAIN q : i \in DOMAIN p /\ p[i] = q[i]
      BY <1>1
    <3> QED BY <1>1, <3>1 DEF Range
  <2> QED BY <2>1, <2>2
<1>3. ASSUME NEW K, Solo(q, K), ~(In(q, K) /\ c \in K) PROVE Solo(p, K)
  <2> SUFFICES ASSUME NEW i \in 1..(n + 1), NEW j \in 1..(n + 1), p[i] \in K, p[j] \in K
               PROVE  i = j
    BY <1>1 DEF Solo
  <2>1. \A m \in 1..n : p[m] \in K => In(q, K)
    BY <1>1 DEF In, Range
  <2>2. CASE i = n + 1 \/ j = n + 1
    <3>1. c \in K
      BY <1>1, <2>2
    <3>2. ~In(q, K)
      BY <1>3, <3>1
    <3>3. i \notin 1..n /\ j \notin 1..n
      BY <2>1, <3>2
    <3> QED BY <1>1, <3>3
  <2>3. CASE i # n + 1 /\ j # n + 1
    <3>1. i \in 1..n /\ j \in 1..n
      BY <1>1, <2>3
    <3> QED BY <1>1, <1>3, <3>1 DEF Solo, n
  <2> QED BY <2>2, <2>3
<1> QED
  BY <1>2, <1>3 DEF In, Bears, p

(* The same after its head is taken.                                       *)
LEMMA AfterTail ==
    ASSUME NEW T, NEW q \in Seq(T), q # <<>>
    PROVE  /\ Head(q) \in T /\ Tail(q) \in Seq(T)
           /\ Range(q) = {Head(q)} \cup Range(Tail(q))
           /\ \A K : /\ In(q, K) <=> Head(q) \in K \/ In(Tail(q), K)
                     /\ Solo(q, K) => /\ Solo(Tail(q), K)
                                       /\ ~(Head(q) \in K /\ In(Tail(q), K))
           /\ \A K, id : Bears(q, K, id) <=> Bears(Tail(q), K, id) /\ (Head(q) \in K => Head(q).id = id)
<1> DEFINE p == Tail(q)
           c == Head(q)
           n == Len(p)
<1>1. /\ c \in T /\ p \in Seq(T) /\ n \in Nat /\ Len(q) = n + 1 /\ q[1] = c
      /\ \A i \in 1..n : p[i] = q[i + 1]
      /\ DOMAIN q = 1..(n + 1) /\ DOMAIN p = 1..n
  OBVIOUS
<1> HIDE DEF p, n, c
<1>2. Range(q) = {c} \cup Range(p)
  <2>1. ASSUME NEW x \in Range(q) PROVE x \in {c} \cup Range(p)
    <3>1. PICK i \in 1..(n + 1) : x = q[i]
      BY <1>1 DEF Range
    <3>2. CASE i = 1
      BY <1>1, <3>1, <3>2
    <3>3. CASE i # 1
      <4>1. i - 1 \in 1..n /\ (i - 1) + 1 = i
        BY <1>1, <3>3
      <4>2. x = p[i - 1]
        BY <1>1, <3>1, <4>1
      <4> QED BY <1>1, <4>1, <4>2 DEF Range
    <3> QED BY <3>2, <3>3
  <2>2. ASSUME NEW x \in {c} \cup Range(p) PROVE x \in Range(q)
    <3>1. 1 \in DOMAIN q /\ \A i \in DOMAIN p : i + 1 \in DOMAIN q /\ p[i] = q[i + 1]
      BY <1>1
    <3> QED BY <1>1, <3>1 DEF Range
  <2> QED BY <2>1, <2>2
<1>3. ASSUME NEW K, Solo(q, K) PROVE Solo(p, K) /\ ~(c \in K /\ In(p, K))
  <2>1. \A i \in 1..n : i + 1 \in 1..Len(q) /\ 1 \in 1..Len(q) /\ i + 1 # 1
    BY <1>1
  <2>2. Solo(p, K)
    <3> SUFFICES ASSUME NEW i \in 1..n, NEW j \in 1..n, p[i] \in K, p[j] \in K PROVE i = j
      BY <1>1 DEF Solo, n
    <3>1. i + 1 = j + 1
      BY <1>1, <1>3, <2>1 DEF Solo
    <3> QED BY <3>1
  <2>3. ASSUME c \in K, In(p, K) PROVE FALSE
    <3>1. PICK i \in 1..n : p[i] \in K
      BY <1>1, <2>3 DEF In, Range
    <3> QED BY <1>1, <1>3, <2>1, <2>3, <3>1 DEF Solo
  <2> QED BY <2>2, <2>3
<1> QED
  BY <1>1, <1>2, <1>3 DEF In, Bears, p, c

Ops == {"open", "write", "read", "startTls", "close"}

(* A call of s queued on the tail.                                         *)
LEMMA CallAdds ==
    ASSUME NEW h \in HeapType, NEW op \in Ops, NEW s \in Socks, NEW id \in Nat, NEW unit \in Nat
    PROVE  LET c == CallOf(op, s, id, unit)  q == Append(h.tail, c) IN
           /\ c \in CallType /\ c.s = s /\ c.op = op /\ c.id = id /\ c.unit = unit
           /\ Range(q) = Range(h.tail) \cup {c}
           /\ In(q, Opens(s)) <=> In(h.tail, Opens(s)) \/ op = "open"
           /\ In(q, Closes(s)) <=> In(h.tail, Closes(s)) \/ op = "close"
           /\ In(q, Loops(s)) <=> In(h.tail, Loops(s)) \/ op \in {"read", "write"}
           /\ Solo(h.tail, Opens(s)) /\ ~(op = "open" /\ In(h.tail, Opens(s))) => Solo(q, Opens(s))
           /\ Solo(h.tail, Loops(s)) /\ ~(op \in {"read", "write"} /\ In(h.tail, Loops(s))) => Solo(q, Loops(s))
           /\ \A x : Bears(q, Loops(s), x) <=>
                       Bears(h.tail, Loops(s), x) /\ (op \in {"read", "write"} => id = x)
<1> DEFINE c == CallOf(op, s, id, unit)
<1>1. c \in CallType /\ c.s = s /\ c.op = op /\ c.id = id /\ c.unit = unit
  BY DEF CallOf, CallType, Ops
<1> HIDE DEF c
<1>2. /\ c \in Opens(s) <=> op = "open"
      /\ c \in Closes(s) <=> op = "close"
      /\ c \in Loops(s) <=> op \in {"read", "write"}
  BY <1>1 DEF Opens, Closes, Loops
<1>3. h.tail \in Seq(CallType)
  BY HeapFields
<1> QED
  BY <1>1, <1>2, <1>3, AfterAppend DEF c

(* A turn of s queued.                                                     *)
LEMMA TurnAdds ==
    ASSUME NEW h \in HeapType, NEW s \in Socks, NEW id \in Nat
    PROVE  LET t == [s |-> s, id |-> id]  q == Append(h.turns, t) IN
           /\ t \in TurnType /\ t.s = s /\ t.id = id
           /\ Range(q) = Range(h.turns) \cup {t}
           /\ In(q, TurnsOf(s))
           /\ Solo(h.turns, TurnsOf(s)) /\ ~In(h.turns, TurnsOf(s)) => Solo(q, TurnsOf(s))
           /\ \A x : Bears(q, TurnsOf(s), x) <=> Bears(h.turns, TurnsOf(s), x) /\ id = x
<1> DEFINE t == [s |-> s, id |-> id]
<1>1. t \in TurnType /\ t.s = s /\ t.id = id
  BY DEF TurnType
<1> HIDE DEF t
<1>2. t \in TurnsOf(s)
  BY <1>1 DEF TurnsOf
<1>3. h.turns \in Seq(TurnType)
  BY HeapFields
<1> QED
  BY <1>1, <1>2, <1>3, AfterAppend DEF t

(* What g adds to the tail and the turns of h is of socket s.              *)
Adds(g, h, s) ==
    /\ g.tail = h.tail \/ \E c \in CallType : c.s = s /\ g.tail = Append(h.tail, c)
    /\ g.turns = h.turns \/ \E t \in TurnType : t.s = s /\ g.turns = Append(h.turns, t)

(* A step of s leaves the other sockets as they were.                      *)
LEMMA OthersKeep ==
    ASSUME NEW h \in HeapType, NEW g \in HeapType, NEW s \in Socks, NEW r \in Socks, r # s,
           g.sock[r] = h.sock[r], Adds(g, h, s), NEW x, SockInv(h, r, x)
    PROVE  SockInv(g, r, x)
<1>1. /\ In(g.tail, Opens(r)) <=> In(h.tail, Opens(r))
      /\ In(g.tail, Closes(r)) <=> In(h.tail, Closes(r))
      /\ In(g.tail, Loops(r)) <=> In(h.tail, Loops(r))
      /\ Solo(h.tail, Opens(r)) => Solo(g.tail, Opens(r))
      /\ Solo(h.tail, Loops(r)) => Solo(g.tail, Loops(r))
      /\ \A id : Bears(g.tail, Loops(r), id) <=> Bears(h.tail, Loops(r), id)
  <2>1. ASSUME NEW c \in CallType, c.s = s, g.tail = Append(h.tail, c)
        PROVE  <1>1!:
    <3>1. c \notin Opens(r) /\ c \notin Closes(r) /\ c \notin Loops(r)
      BY <2>1 DEF Opens, Closes, Loops
    <3>2. h.tail \in Seq(CallType)
      BY HeapFields
    <3> QED BY <2>1, <3>1, <3>2, AfterAppend
  <2>2. CASE g.tail = h.tail
    BY <2>2
  <2> QED BY <2>1, <2>2 DEF Adds
<1>2. /\ In(g.turns, TurnsOf(r)) <=> In(h.turns, TurnsOf(r))
      /\ Solo(h.turns, TurnsOf(r)) => Solo(g.turns, TurnsOf(r))
      /\ \A id : Bears(g.turns, TurnsOf(r), id) <=> Bears(h.turns, TurnsOf(r), id)
  <2>1. ASSUME NEW t \in TurnType, t.s = s, g.turns = Append(h.turns, t)
        PROVE  <1>2!:
    <3>1. t \notin TurnsOf(r)
      BY <2>1 DEF TurnsOf
    <3>2. h.turns \in Seq(TurnType)
      BY HeapFields
    <3> QED BY <2>1, <3>1, <3>2, AfterAppend
  <2>2. CASE g.turns = h.turns
    BY <2>2
  <2> QED BY <2>1, <2>2 DEF Adds
<1> QED
  BY <1>1, <1>2 DEF SockInv, Looping, Alone

(* s keeps its slot, or gives it up.                                       *)
CountStep(h, s, k, n) ==
    \/ k.counted = h.sock[s].counted /\ n = h.openCount
    \/ ~k.counted /\ n = Less(h, s)

(* A step that leaves a slot or gives it up keeps the count right.         *)
LEMMA CountKeeps ==
    ASSUME NEW h \in HeapType, CountInv(h), NEW s \in Socks, NEW g, NEW k, NEW n, NEW q, NEW t,
           Is(g, h, s, k, n, q, t), CountStep(h, s, k, n)
    PROVE  CountInv(g)
<1>1. g.sock[s] = k /\ g.openCount = n /\ \A r \in Socks : r # s => g.sock[r] = h.sock[r]
  BY DEF Is
<1>2. IsFiniteSet(Counted(h)) /\ h.openCount = Cardinality(Counted(h))
  BY DEF CountInv
<1>3. CASE k.counted = h.sock[s].counted /\ n = h.openCount
  <2>1. Counted(g) = Counted(h)
    BY <1>1, <1>3 DEF Counted
  <2> QED BY <1>1, <1>2, <1>3, <2>1 DEF CountInv
<1>4. CASE ~k.counted /\ n = Less(h, s)
  <2>1. Counted(g) = Counted(h) \ {s}
    BY <1>1, <1>4 DEF Counted
  <2>2. CASE h.sock[s].counted
    <3>1. s \in Counted(h)
      BY <2>2 DEF Counted
    <3>2. IsFiniteSet(Counted(h) \ {s}) /\ Cardinality(Counted(h) \ {s}) = Cardinality(Counted(h)) - 1
      BY <1>2, <3>1, FS_RemoveElement
    <3> QED BY <1>1, <1>2, <1>4, <2>1, <2>2, <3>2 DEF CountInv, Less
  <2>3. CASE ~h.sock[s].counted
    <3>1. Counted(h) \ {s} = Counted(h)
      BY <2>3 DEF Counted
    <3> QED BY <1>1, <1>2, <1>4, <2>1, <2>3, <3>1 DEF CountInv, Less
  <2> QED BY <2>2, <2>3
<1> QED
  BY <1>3, <1>4 DEF CountStep

(* So the invariant of a heap after a step of s is that of s alone.        *)
LEMMA HeapStep ==
    ASSUME NEW h, NEW s \in Socks, NEW hand, Serving(h, s, hand), NEW g, NEW k, NEW n, NEW q, NEW t,
           Is(g, h, s, k, n, q, t), CountStep(h, s, k, n), Adds(g, h, s), SockInv(g, s, "none")
    PROVE  HeapInv(g)
<1>1. h \in HeapType /\ CountInv(h) /\ g \in HeapType
      /\ \A r \in Socks : r # s => SockInv(h, r, "none") /\ g.sock[r] = h.sock[r]
  BY DEF Serving, Is
<1>2. CountInv(g)
  BY <1>1, CountKeeps
<1>3. \A r \in Socks : SockInv(g, r, "none")
  BY <1>1, OthersKeep
<1> QED
  BY <1>1, <1>2, <1>3 DEF HeapInv

-----------------------------------------------------------------------------
(* What the changes above leave of a socket's fields.                      *)

(* The fields that say where a socket is in its life.                      *)
Same(j, k) ==
    /\ j.handle = k.handle /\ j.connecting = k.connecting /\ j.destroyed = k.destroyed
    /\ j.closed = k.closed /\ j.counted = k.counted /\ j.loopRunning = k.loopRunning
    /\ j.flushed = k.flushed /\ j.mode = k.mode /\ j.allowHalfOpen = k.allowHalfOpen
(* Its bytes, in both directions.                                          *)
SameBytes(j, k) ==
    /\ j.preQ = k.preQ /\ j.writeQ = k.writeQ /\ j.written = k.written /\ j.rx = k.rx

(* What closing changes of a socket and what it leaves.                    *)
LEMMA ClosingFields ==
    ASSUME NEW k \in SockType, NEW d \in BOOLEAN
    PROVE  /\ LET j == Uncounted(k) IN
              /\ ~j.counted /\ j.handle = k.handle /\ j.connecting = k.connecting
              /\ j.destroyed = k.destroyed /\ j.closed = k.closed /\ j.loopRunning = k.loopRunning
              /\ j.flushed = k.flushed /\ j.mode = k.mode /\ j.allowHalfOpen = k.allowHalfOpen
              /\ SameBytes(j, k)
           /\ LET j == Failed(k) IN
              /\ ~j.counted /\ j.handle = k.handle /\ ~j.connecting
              /\ j.destroyed /\ j.closed /\ j.loopRunning = k.loopRunning
              /\ j.flushed = k.flushed /\ j.mode = k.mode /\ j.allowHalfOpen = k.allowHalfOpen
              /\ SameBytes(j, k)
           /\ LET j == Closed(k, d) IN
              /\ ~j.counted /\ j.handle = k.handle /\ j.connecting = k.connecting
              /\ j.destroyed = d /\ j.closed /\ ~j.loopRunning
              /\ j.flushed = k.flushed /\ j.mode = k.mode /\ j.allowHalfOpen = k.allowHalfOpen
              /\ SameBytes(j, k)
           /\ LET j == Destroyed(k) IN
              /\ ~j.counted /\ j.handle = k.handle /\ ~j.connecting
              /\ j.destroyed /\ j.closed /\ ~j.loopRunning
              /\ j.flushed = k.flushed /\ j.mode = k.mode /\ j.allowHalfOpen = k.allowHalfOpen
              /\ SameBytes(j, k)
           /\ LET j == Torn(k) IN
              /\ ~j.counted /\ j.handle = NoHandle /\ j.connecting = k.connecting
              /\ j.destroyed /\ j.closed /\ ~j.loopRunning
              /\ j.flushed = k.flushed /\ j.mode = k.mode /\ j.allowHalfOpen = k.allowHalfOpen
              /\ SameBytes(j, k)
<1>1. LET j == Uncounted(k) IN
              /\ ~j.counted /\ j.handle = k.handle /\ j.connecting = k.connecting
              /\ j.destroyed = k.destroyed /\ j.closed = k.closed /\ j.loopRunning = k.loopRunning
              /\ j.flushed = k.flushed /\ j.mode = k.mode /\ j.allowHalfOpen = k.allowHalfOpen
              /\ SameBytes(j, k)
  BY DEF SockType, Uncounted, SameBytes
<1>2. LET j == Failed(k) IN
              /\ ~j.counted /\ j.handle = k.handle /\ ~j.connecting
              /\ j.destroyed /\ j.closed /\ j.loopRunning = k.loopRunning
              /\ j.flushed = k.flushed /\ j.mode = k.mode /\ j.allowHalfOpen = k.allowHalfOpen
              /\ SameBytes(j, k)
  BY DEF SockType, Failed, SameBytes
<1>3. LET j == Closed(k, d) IN
              /\ ~j.counted /\ j.handle = k.handle /\ j.connecting = k.connecting
              /\ j.destroyed = d /\ j.closed /\ ~j.loopRunning
              /\ j.flushed = k.flushed /\ j.mode = k.mode /\ j.allowHalfOpen = k.allowHalfOpen
              /\ SameBytes(j, k)
  BY DEF SockType, Closed, SameBytes
<1>4. LET j == Destroyed(k) IN
              /\ ~j.counted /\ j.handle = k.handle /\ ~j.connecting
              /\ j.destroyed /\ j.closed /\ ~j.loopRunning
              /\ j.flushed = k.flushed /\ j.mode = k.mode /\ j.allowHalfOpen = k.allowHalfOpen
              /\ SameBytes(j, k)
  BY DEF SockType, Destroyed, SameBytes
<1>5. LET j == Torn(k) IN
              /\ ~j.counted /\ j.handle = NoHandle /\ j.connecting = k.connecting
              /\ j.destroyed /\ j.closed /\ ~j.loopRunning
              /\ j.flushed = k.flushed /\ j.mode = k.mode /\ j.allowHalfOpen = k.allowHalfOpen
              /\ SameBytes(j, k)
  BY DEF SockType, Torn, SameBytes
<1> QED
  BY <1>1, <1>2, <1>3, <1>4, <1>5

(* What the loop changes.                                                  *)
LEMMA LoopFields ==
    ASSUME NEW k \in SockType
    PROVE  /\ LET j == Stopped(k) IN
              /\ ~j.loopRunning /\ j.handle = k.handle /\ j.connecting = k.connecting
              /\ j.destroyed = k.destroyed /\ j.closed = k.closed /\ j.counted = k.counted
              /\ j.flushed = k.flushed /\ j.mode = k.mode /\ j.allowHalfOpen = k.allowHalfOpen
              /\ SameBytes(j, k)
           /\ LET j == Started(k) IN
              /\ j.loopRunning /\ j.handle = k.handle /\ j.connecting = k.connecting
              /\ j.destroyed = k.destroyed /\ j.closed = k.closed /\ j.counted = k.counted
              /\ j.flushed = k.flushed /\ j.mode = k.mode /\ j.allowHalfOpen = k.allowHalfOpen
              /\ SameBytes(j, k)
           /\ LET j == Flushed(k) IN
              /\ ~j.counted /\ j.handle = k.handle /\ j.connecting = k.connecting
              /\ j.destroyed = k.destroyed /\ j.closed /\ ~j.loopRunning
              /\ j.flushed /\ j.mode = k.mode /\ j.allowHalfOpen = k.allowHalfOpen
              /\ SameBytes(j, k)
           /\ LET j == Popped(k) IN
              /\ Same(j, k)
              /\ j.preQ = k.preQ /\ j.writeQ = Tail(k.writeQ) /\ j.written = k.written /\ j.rx = k.rx
<1>1. LET j == Stopped(k) IN
              /\ ~j.loopRunning /\ j.handle = k.handle /\ j.connecting = k.connecting
              /\ j.destroyed = k.destroyed /\ j.closed = k.closed /\ j.counted = k.counted
              /\ j.flushed = k.flushed /\ j.mode = k.mode /\ j.allowHalfOpen = k.allowHalfOpen
              /\ SameBytes(j, k)
  BY DEF SockType, Stopped, SameBytes
<1>2. LET j == Started(k) IN
              /\ j.loopRunning /\ j.handle = k.handle /\ j.connecting = k.connecting
              /\ j.destroyed = k.destroyed /\ j.closed = k.closed /\ j.counted = k.counted
              /\ j.flushed = k.flushed /\ j.mode = k.mode /\ j.allowHalfOpen = k.allowHalfOpen
              /\ SameBytes(j, k)
  BY DEF SockType, Started, SameBytes
<1>3. LET j == Flushed(k) IN
              /\ ~j.counted /\ j.handle = k.handle /\ j.connecting = k.connecting
              /\ j.destroyed = k.destroyed /\ j.closed /\ ~j.loopRunning
              /\ j.flushed /\ j.mode = k.mode /\ j.allowHalfOpen = k.allowHalfOpen
              /\ SameBytes(j, k)
  BY DEF SockType, Flushed, Closed, SameBytes
<1>4. LET j == Popped(k) IN
              /\ Same(j, k)
              /\ j.preQ = k.preQ /\ j.writeQ = Tail(k.writeQ) /\ j.written = k.written /\ j.rx = k.rx
  BY DEF SockType, Popped, Same
<1> QED
  BY <1>1, <1>2, <1>3, <1>4

(* What opening and writing change.                                        *)
LEMMA OpeningFields ==
    ASSUME NEW k \in SockType, NEW id \in Nat
    PROVE  /\ LET j == Attached(k, id) IN
              /\ j.handle = id /\ ~j.connecting /\ j.loopRunning = k.loopRunning
              /\ j.destroyed = k.destroyed /\ j.closed = k.closed /\ j.counted = k.counted
              /\ j.flushed = k.flushed /\ j.mode = k.mode /\ j.allowHalfOpen = k.allowHalfOpen
              /\ j.writeQ = k.preQ /\ j.written = k.written /\ j.rx = k.rx
           /\ LET j == Waiting(k) IN
              /\ Same(j, k) /\ j.writeQ = k.writeQ /\ j.rx = k.rx
              /\ j.written = k.written + 1 /\ j.preQ = Append(k.preQ, k.written + 1)
           /\ LET j == Queued(k) IN
              /\ Same(j, k) /\ j.preQ = k.preQ /\ j.rx = k.rx
              /\ j.written = k.written + 1 /\ j.writeQ = Append(k.writeQ, k.written + 1)
<1>1. LET j == Attached(k, id) IN
              /\ j.handle = id /\ ~j.connecting /\ j.loopRunning = k.loopRunning
              /\ j.destroyed = k.destroyed /\ j.closed = k.closed /\ j.counted = k.counted
              /\ j.flushed = k.flushed /\ j.mode = k.mode /\ j.allowHalfOpen = k.allowHalfOpen
              /\ j.writeQ = k.preQ /\ j.written = k.written /\ j.rx = k.rx
  <2> DEFINE q == k.preQ
             w == k.endAfterFlush
             e == <<>>
  <2>1. Attached(k, id) = [k EXCEPT !.handle = id, !.connecting = FALSE, !.writeQ = q,
                                    !.preQ = e, !.wantClose = w]
    BY DEF Attached
  <2> HIDE DEF q, w, e
  <2>2. LET j == Attached(k, id) IN
              /\ j.handle = id /\ ~j.connecting /\ j.loopRunning = k.loopRunning
              /\ j.destroyed = k.destroyed /\ j.closed = k.closed /\ j.counted = k.counted
              /\ j.flushed = k.flushed /\ j.mode = k.mode /\ j.allowHalfOpen = k.allowHalfOpen
              /\ j.writeQ = q /\ j.written = k.written /\ j.rx = k.rx
    BY <2>1 DEF SockType
  <2> QED BY <2>2 DEF q
<1>2. LET j == Waiting(k) IN
              /\ Same(j, k) /\ j.writeQ = k.writeQ /\ j.rx = k.rx
              /\ j.written = k.written + 1 /\ j.preQ = Append(k.preQ, k.written + 1)
  BY DEF SockType, Waiting, Same
<1>3. LET j == Queued(k) IN
              /\ Same(j, k) /\ j.preQ = k.preQ /\ j.rx = k.rx
              /\ j.written = k.written + 1 /\ j.writeQ = Append(k.writeQ, k.written + 1)
  BY DEF SockType, Queued, Same
<1> QED
  BY <1>1, <1>2, <1>3

-----------------------------------------------------------------------------
(* Taking a call off the tail, or a turn off the queue, to serve it.       *)
HandOf(op) == IF op \in {"read", "write"} THEN "loop" ELSE op

(* The head of the tail is taken: its socket is being served.              *)
LEMMA CallPops ==
    ASSUME NEW h, HeapInv(h), h.tail # <<>>
    PROVE  LET c == Head(h.tail)  g == [h EXCEPT !.tail = Tail(@)] IN
           /\ c \in CallType /\ c.s \in Socks /\ c.op \in Ops /\ c.id \in Nat /\ c.unit \in Nat
           /\ g.sock = h.sock /\ g.turns = h.turns /\ g.tail = Tail(h.tail) /\ g.openCount = h.openCount
           /\ Range(h.tail) = {c} \cup Range(g.tail)
           /\ c.op \in {"read", "write"} =>
                 /\ c.id = h.sock[c.s].handle /\ c.id # NoHandle /\ ~In(g.tail, Loops(c.s))
           /\ Serving(g, c.s, HandOf(c.op))
<1> DEFINE c == Head(h.tail)
           g == [h EXCEPT !.tail = Tail(@)]
           p == Tail(h.tail)
<1>1. h \in HeapType /\ CountInv(h) /\ \A s \in Socks : SockInv(h, s, "none")
  BY DEF HeapInv
<1>2. h.tail \in Seq(CallType)
  BY <1>1 DEF HeapType
<1>3. /\ c \in CallType /\ p \in Seq(CallType) /\ Range(h.tail) = {c} \cup Range(p)
      /\ \A K : /\ In(h.tail, K) <=> c \in K \/ In(p, K)
                /\ Solo(h.tail, K) => Solo(p, K) /\ ~(c \in K /\ In(p, K))
      /\ \A K, id : Bears(h.tail, K, id) <=> Bears(p, K, id) /\ (c \in K => c.id = id)
  BY <1>2, AfterTail
<1>4. /\ g \in HeapType /\ g.sock = h.sock /\ g.turns = h.turns /\ g.tail = p
      /\ g.openCount = h.openCount
  <2> HIDE DEF p
  <2>1. g = [h EXCEPT !.tail = p]
    BY DEF p
  <2> QED BY <1>1, <1>3, <2>1 DEF HeapType
<1> HIDE DEF c, g, p
<1>5. c.s \in Socks /\ c.op \in Ops /\ c.id \in Nat /\ c.unit \in Nat
  BY <1>3 DEF CallType, Ops
<1>6. CountInv(g)
  BY <1>1, <1>4 DEF CountInv, Counted
<1>7. ASSUME NEW s \in Socks PROVE SockInv(g, s, IF s = c.s THEN HandOf(c.op) ELSE "none")
  <2>1. /\ c \in Opens(s) <=> s = c.s /\ c.op = "open"
        /\ c \in Closes(s) <=> s = c.s /\ c.op = "close"
        /\ c \in Loops(s) <=> s = c.s /\ c.op \in {"read", "write"}
    BY <1>3 DEF Opens, Closes, Loops
  <2>2. /\ In(h.tail, Opens(s)) <=> c \in Opens(s) \/ In(p, Opens(s))
        /\ In(h.tail, Closes(s)) <=> c \in Closes(s) \/ In(p, Closes(s))
        /\ In(h.tail, Loops(s)) <=> c \in Loops(s) \/ In(p, Loops(s))
        /\ Solo(h.tail, Opens(s)) => Solo(p, Opens(s)) /\ ~(c \in Opens(s) /\ In(p, Opens(s)))
        /\ Solo(h.tail, Loops(s)) => Solo(p, Loops(s)) /\ ~(c \in Loops(s) /\ In(p, Loops(s)))
        /\ Bears(h.tail, Loops(s), h.sock[s].handle) => Bears(p, Loops(s), h.sock[s].handle)
    BY <1>3
  <2>3. SockInv(h, s, "none")
    BY <1>1
  <2> DEFINE hand == IF s = c.s THEN HandOf(c.op) ELSE "none"
  <2>4. /\ hand = "open" <=> c \in Opens(s)
        /\ hand = "close" <=> c \in Closes(s)
        /\ hand = "loop" <=> c \in Loops(s)
    BY <1>5, <2>1 DEF HandOf, Ops
  <2> HIDE DEF hand
  <2>5. SockInv(g, s, hand)
    BY <1>4, <2>2, <2>3, <2>4 DEF SockInv, Looping, Alone
  <2> QED BY <2>5 DEF hand
<1>8. ASSUME c.op \in {"read", "write"}
      PROVE  c.id = h.sock[c.s].handle /\ c.id # NoHandle /\ ~In(g.tail, Loops(c.s))
  <2>1. c \in Loops(c.s)
    BY <1>3, <1>8 DEF Loops
  <2>2. In(h.tail, Loops(c.s)) /\ SockInv(h, c.s, "none")
    BY <1>1, <1>3, <1>5, <2>1
  <2>3. Bears(h.tail, Loops(c.s), h.sock[c.s].handle) /\ h.sock[c.s].handle # NoHandle
        /\ Solo(h.tail, Loops(c.s))
    BY <2>2 DEF SockInv, Looping, Alone
  <2> QED BY <1>3, <1>4, <2>1, <2>3
<1>9. Serving(g, c.s, HandOf(c.op))
  BY <1>4, <1>6, <1>7 DEF Serving
<1> QED
  BY <1>3, <1>4, <1>5, <1>8, <1>9 DEF c, g, p

(* The head of the turns is taken: its socket has the loop's hand.         *)
LEMMA TurnPops ==
    ASSUME NEW h, HeapInv(h), h.turns # <<>>
    PROVE  LET t == Head(h.turns)  g == [h EXCEPT !.turns = Tail(@)] IN
           /\ t \in TurnType /\ t.s \in Socks /\ t.id = h.sock[t.s].handle /\ t.id # NoHandle /\ t.id \in Nat
           /\ g.sock = h.sock /\ g.tail = h.tail /\ g.turns = Tail(h.turns) /\ g.openCount = h.openCount
           /\ Range(h.turns) = {t} \cup Range(g.turns)
           /\ ~In(g.tail, Loops(t.s))
           /\ Serving(g, t.s, "loop")
<1> DEFINE t == Head(h.turns)
           g == [h EXCEPT !.turns = Tail(@)]
           p == Tail(h.turns)
<1>1. h \in HeapType /\ CountInv(h) /\ \A s \in Socks : SockInv(h, s, "none")
  BY DEF HeapInv
<1>2. h.turns \in Seq(TurnType)
  BY <1>1 DEF HeapType
<1>3. /\ t \in TurnType /\ p \in Seq(TurnType) /\ Range(h.turns) = {t} \cup Range(p)
      /\ \A K : /\ In(h.turns, K) <=> t \in K \/ In(p, K)
                /\ Solo(h.turns, K) => Solo(p, K) /\ ~(t \in K /\ In(p, K))
      /\ \A K, id : Bears(h.turns, K, id) <=> Bears(p, K, id) /\ (t \in K => t.id = id)
  BY <1>2, AfterTail
<1>4. /\ g \in HeapType /\ g.sock = h.sock /\ g.tail = h.tail /\ g.turns = p
      /\ g.openCount = h.openCount
  <2> HIDE DEF p
  <2>1. g = [h EXCEPT !.turns = p]
    BY DEF p
  <2> QED BY <1>1, <1>3, <2>1 DEF HeapType
<1> HIDE DEF t, g, p
<1>5. t.s \in Socks /\ t.id \in Nat /\ t \in TurnsOf(t.s)
  BY <1>3 DEF TurnType, TurnsOf
<1>6. CountInv(g)
  BY <1>1, <1>4 DEF CountInv, Counted
<1>7. ASSUME NEW s \in Socks PROVE SockInv(g, s, IF s = t.s THEN "loop" ELSE "none")
  <2>1. t \in TurnsOf(s) <=> s = t.s
    BY <1>3 DEF TurnsOf
  <2>2. /\ In(h.turns, TurnsOf(s)) <=> t \in TurnsOf(s) \/ In(p, TurnsOf(s))
        /\ Solo(h.turns, TurnsOf(s)) => Solo(p, TurnsOf(s)) /\ ~(t \in TurnsOf(s) /\ In(p, TurnsOf(s)))
        /\ Bears(h.turns, TurnsOf(s), h.sock[s].handle) => Bears(p, TurnsOf(s), h.sock[s].handle)
    BY <1>3
  <2>3. SockInv(h, s, "none")
    BY <1>1
  <2>4. CASE s = t.s
    <3>1. SockInv(g, s, "loop")
      BY <1>4, <2>1, <2>2, <2>3, <2>4 DEF SockInv, Looping, Alone
    <3> QED BY <2>4, <3>1
  <2>5. CASE s # t.s
    <3>1. SockInv(g, s, "none")
      BY <1>4, <2>1, <2>2, <2>3, <2>5 DEF SockInv, Looping, Alone
    <3> QED BY <2>5, <3>1
  <2> QED BY <2>4, <2>5
<1>8. t.id = h.sock[t.s].handle /\ t.id # NoHandle /\ ~In(g.tail, Loops(t.s))
  <2>2. In(h.turns, TurnsOf(t.s)) /\ SockInv(h, t.s, "none")
    BY <1>1, <1>3, <1>5
  <2>3. Bears(h.turns, TurnsOf(t.s), h.sock[t.s].handle) /\ h.sock[t.s].handle # NoHandle
        /\ ~In(h.tail, Loops(t.s))
    BY <2>2 DEF SockInv, Looping, Alone
  <2> QED BY <1>3, <1>4, <1>5, <2>3
<1>9. Serving(g, t.s, "loop")
  BY <1>4, <1>6, <1>7 DEF Serving
<1> QED
  BY <1>3, <1>4, <1>5, <1>8, <1>9 DEF t, g, p

-----------------------------------------------------------------------------
(* Every step of the shim keeps the invariant of the heap.                 *)

(* A close, or an upgrade, queued to the tail; a call of the loop; an open. *)
LEMMA CloseAdds ==
    ASSUME NEW h \in HeapType, NEW op \in {"close", "startTls"}, NEW s \in Socks, NEW id \in Nat,
           NEW q, q = Append(h.tail, CallOf(op, s, id, 0))
    PROVE  /\ In(q, Opens(s)) <=> In(h.tail, Opens(s))
           /\ In(q, Closes(s)) <=> In(h.tail, Closes(s)) \/ op = "close"
           /\ In(q, Loops(s)) <=> In(h.tail, Loops(s))
           /\ Solo(h.tail, Opens(s)) => Solo(q, Opens(s))
           /\ Solo(h.tail, Loops(s)) => Solo(q, Loops(s))
           /\ \A x : Bears(q, Loops(s), x) <=> Bears(h.tail, Loops(s), x)
<1> DEFINE c == CallOf(op, s, id, 0)
<1>1. c \in CallType /\ c.s = s /\ c.op = op /\ c.id = id
  BY DEF CallOf, CallType
<1> HIDE DEF c
<1>2. c \notin Opens(s) /\ (c \in Closes(s) <=> op = "close") /\ c \notin Loops(s)
  BY <1>1 DEF Opens, Closes, Loops
<1>3. h.tail \in Seq(CallType) /\ q = Append(h.tail, c)
  BY HeapFields DEF c
<1>4. /\ \A K : /\ In(q, K) <=> In(h.tail, K) \/ c \in K
                /\ Solo(h.tail, K) /\ ~(In(h.tail, K) /\ c \in K) => Solo(q, K)
      /\ \A K, x : Bears(q, K, x) <=> Bears(h.tail, K, x) /\ (c \in K => c.id = x)
  BY <1>1, <1>3, AfterAppend
<1> QED
  BY <1>1, <1>2, <1>4

(* A read or a write queued.                                               *)
LEMMA LoopAdds ==
    ASSUME NEW h \in HeapType, NEW op \in {"read", "write"}, NEW s \in Socks, NEW id \in Nat,
           NEW unit \in Nat, NEW q, q = Append(h.tail, CallOf(op, s, id, unit))
    PROVE  /\ In(q, Opens(s)) <=> In(h.tail, Opens(s))
           /\ In(q, Closes(s)) <=> In(h.tail, Closes(s))
           /\ In(q, Loops(s))
           /\ Solo(h.tail, Opens(s)) => Solo(q, Opens(s))
           /\ Solo(h.tail, Loops(s)) /\ ~In(h.tail, Loops(s)) => Solo(q, Loops(s))
           /\ Bears(h.tail, Loops(s), id) => Bears(q, Loops(s), id)
<1> DEFINE c == CallOf(op, s, id, unit)
<1>1. c \in CallType /\ c.s = s /\ c.op = op /\ c.id = id
  BY DEF CallOf, CallType
<1> HIDE DEF c
<1>2. c \notin Opens(s) /\ c \notin Closes(s) /\ c \in Loops(s)
  BY <1>1 DEF Opens, Closes, Loops
<1>3. h.tail \in Seq(CallType) /\ q = Append(h.tail, c)
  BY HeapFields DEF c
<1>4. /\ \A K : /\ In(q, K) <=> In(h.tail, K) \/ c \in K
                /\ Solo(h.tail, K) /\ ~(In(h.tail, K) /\ c \in K) => Solo(q, K)
      /\ \A K, x : Bears(q, K, x) <=> Bears(h.tail, K, x) /\ (c \in K => c.id = x)
  BY <1>1, <1>3, AfterAppend
<1> QED
  BY <1>1, <1>2, <1>4

(* An open queued.                                                         *)
LEMMA OpenAdds ==
    ASSUME NEW h \in HeapType, NEW s \in Socks,
           NEW q, q = Append(h.tail, CallOf("open", s, NoHandle, 0))
    PROVE  /\ In(q, Opens(s))
           /\ In(q, Closes(s)) <=> In(h.tail, Closes(s))
           /\ In(q, Loops(s)) <=> In(h.tail, Loops(s))
           /\ Solo(h.tail, Opens(s)) /\ ~In(h.tail, Opens(s)) => Solo(q, Opens(s))
           /\ Solo(h.tail, Loops(s)) => Solo(q, Loops(s))
           /\ \A x : Bears(q, Loops(s), x) <=> Bears(h.tail, Loops(s), x)
<1> DEFINE c == CallOf("open", s, NoHandle, 0)
<1>1. c \in CallType /\ c.s = s /\ c.op = "open" /\ c.id = NoHandle
  BY DEF CallOf, CallType, NoHandle
<1> HIDE DEF c
<1>2. c \in Opens(s) /\ c \notin Closes(s) /\ c \notin Loops(s)
  BY <1>1 DEF Opens, Closes, Loops
<1>3. h.tail \in Seq(CallType) /\ q = Append(h.tail, c)
  BY HeapFields DEF c
<1>4. /\ \A K : /\ In(q, K) <=> In(h.tail, K) \/ c \in K
                /\ Solo(h.tail, K) /\ ~(In(h.tail, K) /\ c \in K) => Solo(q, K)
      /\ \A K, x : Bears(q, K, x) <=> Bears(h.tail, K, x) /\ (c \in K => c.id = x)
  BY <1>1, <1>3, AfterAppend
<1> QED
  BY <1>1, <1>2, <1>4

(* A call queued is an addition of s.                                      *)
LEMMA AddsCall ==
    ASSUME NEW h \in HeapType, NEW g, NEW s \in Socks, NEW k, NEW n,
           NEW op \in Ops, NEW id \in Nat, NEW unit \in Nat,
           Is(g, h, s, k, n, Append(h.tail, CallOf(op, s, id, unit)), h.turns)
    PROVE  Adds(g, h, s)
<1>1. CallOf(op, s, id, unit) \in CallType /\ CallOf(op, s, id, unit).s = s
  BY CallAdds
<1> QED
  BY <1>1 DEF Is, Adds

(* So is a turn.                                                           *)
LEMMA AddsTurn ==
    ASSUME NEW h \in HeapType, NEW g, NEW s \in Socks, NEW k, NEW n, NEW id \in Nat,
           Is(g, h, s, k, n, h.tail, Append(h.turns, [s |-> s, id |-> id]))
    PROVE  Adds(g, h, s)
<1> DEFINE t == [s |-> s, id |-> id]
<1>1. t \in TurnType /\ t.s = s
  BY DEF TurnType
<1> HIDE DEF t
<1> QED
  BY <1>1 DEF Is, Adds, t

(* The socket that is being served.                                        *)
LEMMA Served1 ==
    ASSUME NEW h, NEW s \in Socks, NEW hand, Serving(h, s, hand)
    PROVE  /\ h \in HeapType /\ h.sock[s] \in SockType /\ SockInv(h, s, hand) /\ Life(h.sock[s])
           /\ h.sock[s].handle \in Nat /\ h.sock[s].destroyed \in BOOLEAN
           /\ h.sock[s].loopRunning \in BOOLEAN
<1>1. h \in HeapType /\ SockInv(h, s, hand)
  BY DEF Serving
<1>2. h.sock[s] \in SockType
  BY <1>1 DEF HeapType
<1> QED
  BY <1>1, <1>2 DEF SockInv, SockType

(* A heap in which nothing is being served.                                *)
LEMMA Idle ==
    ASSUME NEW h, NEW s \in Socks
    PROVE  HeapInv(h) <=> Serving(h, s, "none")
  BY DEF HeapInv, Serving

(* Every helper re-establishes the invariant: a failed open,               *)
LEMMA FailKeeps ==
    ASSUME NEW h, NEW s \in Socks, NEW hand, Serving(h, s, hand),
           hand = "open" \/ (hand = "none" /\ h.sock[s].handle = NoHandle)
    PROVE  HeapInv(Fail(h, s))
<1> DEFINE k == h.sock[s]  j == Failed(k)  g == Fail(h, s)
<1>1. h \in HeapType /\ k \in SockType /\ SockInv(h, s, hand) /\ Life(k)
  BY Served1
<1>2. Is(g, h, s, j, Less(h, s), h.tail, h.turns)
  BY <1>1, FailIs
<1>3. /\ ~j.counted /\ j.handle = k.handle /\ ~j.connecting
      /\ j.destroyed /\ j.closed /\ j.loopRunning = k.loopRunning
      /\ j.flushed = k.flushed /\ j.mode = k.mode /\ j.allowHalfOpen = k.allowHalfOpen
  <2> HIDE DEF k
  <2> QED BY <1>1, ClosingFields
<1> HIDE DEF g, j
<1>4. Adds(g, h, s) /\ CountStep(h, s, j, Less(h, s))
  BY <1>2, <1>3 DEF Is, Adds, CountStep
<1>5. g.sock[s] = j /\ g.tail = h.tail /\ g.turns = h.turns
  BY <1>2 DEF Is
<1>6. SockInv(g, s, "none")
  BY <1>1, <1>3, <1>5 DEF SockInv, Life, Looping, Alone
<1>7. HeapInv(g)
  BY <1>2, <1>4, <1>6, HeapStep
<1> QED
  BY <1>7 DEF g

(* _doClose,                                                               *)
LEMMA DoCloseKeeps ==
    ASSUME NEW h, NEW s \in Socks, HeapInv(h), ~h.sock[s].loopRunning, h.sock[s].handle # NoHandle
    PROVE  HeapInv(DoClose(h, s))
<1> DEFINE k == h.sock[s]  j == Closed(k, k.destroyed)  g == DoClose(h, s)
           c == CallOf("close", s, k.handle, 0)
<1>0. Serving(h, s, "none")
  BY Idle
<1>1. h \in HeapType /\ k \in SockType /\ SockInv(h, s, "none") /\ Life(k) /\ k.handle \in Nat
      /\ k.destroyed \in BOOLEAN
  BY <1>0, Served1
<1>2. CASE k.closed
  BY <1>1, <1>2, DoCloseIs
<1>3. CASE ~k.closed
  <2>1. Is(g, h, s, j, Less(h, s), Append(h.tail, c), h.turns)
    BY <1>1, <1>3, DoCloseIs
  <2>2. /\ ~j.counted /\ j.handle = k.handle /\ j.connecting = k.connecting
        /\ j.destroyed = k.destroyed /\ j.closed /\ ~j.loopRunning
        /\ j.flushed = k.flushed /\ j.mode = k.mode /\ j.allowHalfOpen = k.allowHalfOpen
        /\ SameBytes(j, k)
    <3> HIDE DEF k
    <3> QED BY <1>1, ClosingFields
  <2>3. Adds(g, h, s) /\ CountStep(h, s, j, Less(h, s))
    <3>1. CountStep(h, s, j, Less(h, s))
      BY <2>2 DEF CountStep
    <3> QED BY <1>1, <2>1, <3>1, AddsCall DEF Ops
  <2>4. g.sock[s] = j /\ g.tail = Append(h.tail, c) /\ g.turns = h.turns
    BY <2>1 DEF Is
  <2>5. /\ In(g.tail, Opens(s)) <=> In(h.tail, Opens(s))
        /\ In(g.tail, Closes(s))
        /\ In(g.tail, Loops(s)) <=> In(h.tail, Loops(s))
        /\ Solo(h.tail, Opens(s)) => Solo(g.tail, Opens(s))
        /\ Solo(h.tail, Loops(s)) => Solo(g.tail, Loops(s))
        /\ \A x : Bears(g.tail, Loops(s), x) <=> Bears(h.tail, Loops(s), x)
    BY <1>1, <2>4, CloseAdds
  <2> HIDE DEF g, j, c
  <2>6. SockInv(g, s, "none")
    BY <1>1, <1>3, <2>2, <2>4, <2>5 DEF SockInv, Life, Looping, Alone, SameBytes
  <2>7. HeapInv(g)
    BY <1>0, <2>1, <2>3, <2>6, HeapStep
  <2> QED BY <2>7 DEF g
<1> QED
  BY <1>2, <1>3

(* destroy,                                                                *)
LEMMA DestroyKeeps ==
    ASSUME NEW h, NEW s \in Socks, HeapInv(h)
    PROVE  HeapInv(Destroy(h, s))
<1> DEFINE k == h.sock[s]  j == Destroyed(k)  g == Destroy(h, s)
           c == CallOf("close", s, k.handle, 0)
<1>0. Serving(h, s, "none")
  BY Idle
<1>1. h \in HeapType /\ k \in SockType /\ SockInv(h, s, "none") /\ Life(k) /\ k.handle \in Nat
      /\ k.destroyed \in BOOLEAN
  BY <1>0, Served1
<1>2. CASE k.destroyed
  BY <1>1, <1>2, DestroyIs
<1>3. ASSUME ~k.destroyed PROVE HeapInv(g)
  <2>1. /\ k.handle = NoHandle => Is(g, h, s, j, Less(h, s), h.tail, h.turns)
        /\ k.handle # NoHandle => Is(g, h, s, j, Less(h, s), Append(h.tail, c), h.turns)
    BY <1>1, <1>3, DestroyIs
  <2>2. /\ ~j.counted /\ j.handle = k.handle /\ ~j.connecting
        /\ j.destroyed /\ j.closed /\ ~j.loopRunning
        /\ j.flushed = k.flushed /\ j.mode = k.mode /\ j.allowHalfOpen = k.allowHalfOpen
    <3> HIDE DEF k
    <3> QED BY <1>1, ClosingFields
  <2>3. CountStep(h, s, j, Less(h, s))
    BY <2>2 DEF CountStep
  <2>4. CASE k.handle = NoHandle
    <3>1. g.sock[s] = j /\ g.tail = h.tail /\ g.turns = h.turns /\ Adds(g, h, s)
      BY <2>1, <2>4 DEF Is, Adds
    <3> HIDE DEF g, j, c
    <3>2. SockInv(g, s, "none")
      BY <1>1, <1>3, <2>2, <2>4, <3>1 DEF SockInv, Life, Looping, Alone
    <3> QED BY <1>0, <2>1, <2>3, <2>4, <3>1, <3>2, HeapStep
  <2>5. CASE k.handle # NoHandle
    <3>1. g.sock[s] = j /\ g.tail = Append(h.tail, c) /\ g.turns = h.turns
      BY <2>1, <2>5 DEF Is
    <3>2. Adds(g, h, s)
      BY <1>1, <2>1, <2>5, AddsCall DEF Ops
    <3>3. /\ In(g.tail, Opens(s)) <=> In(h.tail, Opens(s))
          /\ In(g.tail, Closes(s))
          /\ In(g.tail, Loops(s)) <=> In(h.tail, Loops(s))
          /\ Solo(h.tail, Loops(s)) => Solo(g.tail, Loops(s))
          /\ \A x : Bears(g.tail, Loops(s), x) <=> Bears(h.tail, Loops(s), x)
      BY <1>1, <3>1, CloseAdds
    <3> HIDE DEF g, j, c
    <3>4. SockInv(g, s, "none")
      BY <1>1, <1>3, <2>2, <2>5, <3>1, <3>3 DEF SockInv, Life, Looping, Alone
    <3> QED BY <1>0, <2>1, <2>3, <2>5, <3>2, <3>4, HeapStep
  <2> QED BY <2>4, <2>5
<1> QED
  BY <1>2, <1>3

(* the end of a loop,                                                      *)
LEMMA StopKeeps ==
    ASSUME NEW h, NEW s \in Socks, Serving(h, s, "loop"),
           h.sock[s].closed \/ h.sock[s].allowHalfOpen
    PROVE  HeapInv(StopLoop(h, s))
<1> DEFINE k == h.sock[s]  j == Stopped(k)  g == StopLoop(h, s)
<1>1. h \in HeapType /\ k \in SockType /\ SockInv(h, s, "loop") /\ Life(k)
  BY Served1
<1>2. Is(g, h, s, j, h.openCount, h.tail, h.turns)
  BY <1>1, StopLoopIs
<1>3. /\ ~j.loopRunning /\ j.handle = k.handle /\ j.connecting = k.connecting
      /\ j.destroyed = k.destroyed /\ j.closed = k.closed /\ j.counted = k.counted
      /\ j.flushed = k.flushed /\ j.mode = k.mode /\ j.allowHalfOpen = k.allowHalfOpen
      /\ SameBytes(j, k)
  <2> HIDE DEF k
  <2> QED BY <1>1, LoopFields
<1> HIDE DEF g, j
<1>4. Adds(g, h, s) /\ CountStep(h, s, j, h.openCount)
  BY <1>2, <1>3 DEF Is, Adds, CountStep
<1>5. g.sock[s] = j /\ g.tail = h.tail /\ g.turns = h.turns
  BY <1>2 DEF Is
<1>6. SockInv(g, s, "none")
  BY <1>1, <1>3, <1>5 DEF SockInv, Life, Looping, Alone, SameBytes
<1>7. HeapInv(g)
  BY <1>2, <1>4, <1>6, HeapStep
<1> QED
  BY <1>7 DEF g

(* a turn,                                                                 *)
LEMMA TurnKeeps ==
    ASSUME NEW h, NEW s \in Socks, Serving(h, s, "loop")
    PROVE  HeapInv(Turn(h, s, h.sock[s].handle))
<1> DEFINE k == h.sock[s]  id == k.handle  g == Turn(h, s, id)
<1>1. h \in HeapType /\ k \in SockType /\ SockInv(h, s, "loop") /\ Life(k) /\ id \in Nat
      /\ id # NoHandle
  BY Served1 DEF SockInv
<1>2. CASE TurnDead(h, s, id)
  <2>1. g = StopLoop(h, s) /\ k.closed
    BY <1>1, <1>2 DEF Turn, TurnDead, Life
  <2> QED BY <2>1, StopKeeps
<1>3. ASSUME ~TurnDead(h, s, id), NEW op \in {"write", "read"}, NEW unit \in Nat, NEW j,
             Same(j, k), j.rx = k.rx, j.preQ = k.preQ,
             Is(g, h, s, j, h.openCount, Append(h.tail, CallOf(op, s, id, unit)), h.turns)
      PROVE  HeapInv(g)
  <2>1. op \in Ops
    BY <1>3 DEF Ops
  <2>2. Adds(g, h, s)
    BY <1>1, <1>3, <2>1, AddsCall
  <2>3. CountStep(h, s, j, h.openCount)
    BY <1>3 DEF CountStep, Same
  <2>4. g.sock[s] = j /\ g.tail = Append(h.tail, CallOf(op, s, id, unit)) /\ g.turns = h.turns
    BY <1>3 DEF Is
  <2>5. /\ In(g.tail, Opens(s)) <=> In(h.tail, Opens(s))
        /\ In(g.tail, Closes(s)) <=> In(h.tail, Closes(s))
        /\ In(g.tail, Loops(s))
        /\ Solo(h.tail, Opens(s)) => Solo(g.tail, Opens(s))
        /\ Solo(h.tail, Loops(s)) /\ ~In(h.tail, Loops(s)) => Solo(g.tail, Loops(s))
        /\ Bears(h.tail, Loops(s), id) => Bears(g.tail, Loops(s), id)
    BY <1>1, <1>3, <2>4, LoopAdds
  <2>6. ~k.destroyed /\ ~k.closed
    BY <1>3 DEF TurnDead
  <2> HIDE DEF g
  <2>7. SockInv(g, s, "none")
    BY <1>1, <1>3, <2>4, <2>5, <2>6 DEF SockInv, Life, Looping, Alone, Same
  <2> QED BY <1>3, <2>2, <2>3, <2>7, HeapStep
<1>4. CASE ~TurnDead(h, s, id) /\ k.writeQ # <<>>
  <2>1. /\ Is(g, h, s, Popped(k), h.openCount,
              Append(h.tail, CallOf("write", s, id, Head(k.writeQ))), h.turns)
        /\ Head(k.writeQ) \in Nat
    BY <1>1, <1>4, TurnIs, LoopUpdates
  <2>2. Same(Popped(k), k) /\ Popped(k).rx = k.rx /\ Popped(k).preQ = k.preQ
    <3> HIDE DEF k
    <3> QED BY <1>1, LoopFields
  <2> QED BY <1>3, <1>4, <2>1, <2>2
<1>5. CASE ~TurnDead(h, s, id) /\ k.writeQ = <<>> /\ ~k.wantClose
  <2>1. Is(g, h, s, k, h.openCount, Append(h.tail, CallOf("read", s, id, 0)), h.turns)
    BY <1>1, <1>5, TurnIs
  <2>2. Same(k, k)
    BY DEF Same
  <2> QED BY <1>3, <1>5, <2>1, <2>2
<1>6. CASE ~TurnDead(h, s, id) /\ k.writeQ = <<>> /\ k.wantClose
  <2> DEFINE j == Flushed(k)  c == CallOf("close", s, id, 0)
  <2>1. Is(g, h, s, j, Less(h, s), Append(h.tail, c), h.turns)
    BY <1>1, <1>6, TurnIs
  <2>2. /\ ~j.counted /\ j.handle = k.handle /\ j.connecting = k.connecting
        /\ j.destroyed = k.destroyed /\ j.closed /\ ~j.loopRunning
        /\ j.flushed /\ j.mode = k.mode /\ j.allowHalfOpen = k.allowHalfOpen
        /\ SameBytes(j, k)
    <3> HIDE DEF k
    <3> QED BY <1>1, LoopFields
  <2>3. CountStep(h, s, j, Less(h, s))
    BY <2>2 DEF CountStep
  <2>4. g.sock[s] = j /\ g.tail = Append(h.tail, c) /\ g.turns = h.turns
    BY <2>1 DEF Is
  <2>5. Adds(g, h, s)
    BY <1>1, <2>1, AddsCall DEF Ops
  <2>6. /\ In(g.tail, Opens(s)) <=> In(h.tail, Opens(s))
        /\ In(g.tail, Closes(s))
        /\ In(g.tail, Loops(s)) <=> In(h.tail, Loops(s))
        /\ Solo(h.tail, Opens(s)) => Solo(g.tail, Opens(s))
        /\ Solo(h.tail, Loops(s)) => Solo(g.tail, Loops(s))
        /\ \A x : Bears(g.tail, Loops(s), x) <=> Bears(h.tail, Loops(s), x)
    BY <1>1, <2>4, CloseAdds
  <2>7. ~k.destroyed /\ ~k.closed
    BY <1>6 DEF TurnDead
  <2> HIDE DEF g, j, c
  <2>8. SockInv(g, s, "none")
    BY <1>1, <2>2, <2>4, <2>6, <2>7 DEF SockInv, Life, Looping, Alone, SameBytes
  <2>9. HeapInv(g)
    BY <2>1, <2>3, <2>5, <2>8, HeapStep
  <2> QED BY <2>9 DEF g
<1> QED
  BY <1>2, <1>4, <1>5, <1>6

(* A change of a socket that leaves it where it is in its life.            *)
LEMMA EditKeeps ==
    ASSUME NEW h, NEW s \in Socks, NEW hand, Serving(h, s, hand), NEW j \in SockType,
           Same(j, h.sock[s]),
           \/ j.handle # NoHandle
           \/ j.preQ = h.sock[s].preQ /\ j.written = h.sock[s].written /\ j.rx = h.sock[s].rx
           \/ From1(j.preQ, 0) /\ Len(j.preQ) = j.written /\ j.rx = <<>>
    PROVE  Serving([h EXCEPT !.sock[s] = j], s, hand)
<1> DEFINE k == h.sock[s]  g == [h EXCEPT !.sock[s] = j]
<1>1. h \in HeapType /\ k \in SockType /\ SockInv(h, s, hand) /\ Life(k) /\ CountInv(h)
  BY Served1 DEF Serving
<1>2. Is(g, h, s, j, h.openCount, h.tail, h.turns)
  BY <1>1, SetSock
<1> HIDE DEF g
<1>3. Adds(g, h, s) /\ CountStep(h, s, j, h.openCount)
  BY <1>2 DEF Is, Adds, CountStep, Same
<1>4. /\ g \in HeapType /\ g.sock[s] = j /\ g.tail = h.tail /\ g.turns = h.turns
      /\ \A r \in Socks : r # s => g.sock[r] = h.sock[r]
  BY <1>2 DEF Is
<1>5. Life(j)
  BY <1>1 DEF Life, Same
<1>6. SockInv(g, s, hand)
  BY <1>1, <1>4, <1>5 DEF SockInv, Looping, Alone, Same
<1>7. CountInv(g)
  BY <1>1, <1>2, <1>3, CountKeeps
<1>8. \A r \in Socks : r # s => SockInv(g, r, "none")
  <2>1. \A r \in Socks : r # s => SockInv(h, r, "none")
    BY DEF Serving
  <2> QED BY <1>1, <1>3, <1>4, <2>1, OthersKeep
<1>9. Serving(g, s, hand)
  BY <1>4, <1>6, <1>7, <1>8 DEF Serving
<1> QED
  BY <1>9 DEF g

(* The requests that a socket only notes.                                  *)
Noted(k) ==
    {[k EXCEPT !.endAfterFlush = TRUE], [k EXCEPT !.wantClose = TRUE], [k EXCEPT !.upgrade = TRUE]}

(* A request that is only noted changes one flag.                          *)
LEMMA NotedFields ==
    ASSUME NEW k \in SockType, NEW j \in Noted(k)
    PROVE  j \in SockType /\ Same(j, k) /\ SameBytes(j, k)
<1>1. CASE j = [k EXCEPT !.endAfterFlush = TRUE]
  BY <1>1 DEF SockType, Same, SameBytes
<1>2. CASE j = [k EXCEPT !.wantClose = TRUE]
  BY <1>2 DEF SockType, Same, SameBytes
<1>3. CASE j = [k EXCEPT !.upgrade = TRUE]
  BY <1>3 DEF SockType, Same, SameBytes
<1> QED
  BY <1>1, <1>2, <1>3 DEF Noted

(* It keeps the invariant.                                                 *)
LEMMA NoteKeeps ==
    ASSUME NEW h, NEW s \in Socks, HeapInv(h), NEW j \in Noted(h.sock[s])
    PROVE  HeapInv([h EXCEPT !.sock[s] = j])
<1>1. Serving(h, s, "none")
  BY Idle
<1>2. h.sock[s] \in SockType
  BY <1>1, Served1
<1>3. j \in SockType /\ Same(j, h.sock[s]) /\ SameBytes(j, h.sock[s])
  BY <1>2, NotedFields
<1>4. Serving([h EXCEPT !.sock[s] = j], s, "none")
  BY <1>1, <1>3, EditKeeps DEF SameBytes
<1> QED
  BY <1>4, Idle

(* So does a startTls queued.                                              *)
LEMMA CallKeeps ==
    ASSUME NEW h, NEW s \in Socks, HeapInv(h), NEW id \in Nat
    PROVE  HeapInv(HostCall(h, "startTls", s, id, 0))
<1> DEFINE k == h.sock[s]  g == HostCall(h, "startTls", s, id, 0)  c == CallOf("startTls", s, id, 0)
<1>0. Serving(h, s, "none")
  BY Idle
<1>1. h \in HeapType /\ k \in SockType /\ SockInv(h, s, "none")
  BY <1>0, Served1
<1>2. Is(g, h, s, k, h.openCount, Append(h.tail, c), h.turns)
  BY <1>1, HostCallIs
<1>3. Adds(g, h, s)
  BY <1>1, <1>2, AddsCall DEF Ops
<1>4. CountStep(h, s, k, h.openCount)
  BY DEF CountStep
<1>5. g.sock[s] = k /\ g.tail = Append(h.tail, c) /\ g.turns = h.turns
  BY <1>2 DEF Is
<1>6. /\ In(g.tail, Opens(s)) <=> In(h.tail, Opens(s))
      /\ In(g.tail, Closes(s)) <=> In(h.tail, Closes(s))
      /\ In(g.tail, Loops(s)) <=> In(h.tail, Loops(s))
      /\ Solo(h.tail, Opens(s)) => Solo(g.tail, Opens(s))
      /\ Solo(h.tail, Loops(s)) => Solo(g.tail, Loops(s))
      /\ \A x : Bears(g.tail, Loops(s), x) <=> Bears(h.tail, Loops(s), x)
  BY <1>1, <1>5, CloseAdds
<1> HIDE DEF g, c
<1>7. SockInv(g, s, "none")
  BY <1>1, <1>5, <1>6 DEF SockInv, Looping, Alone
<1>8. HeapInv(g)
  BY <1>0, <1>2, <1>3, <1>4, <1>7, HeapStep
<1> QED
  BY <1>8 DEF g

(* The callback of close.                                                  *)
Gone(k) == [k EXCEPT !.destroyed = TRUE]

(* The callback of close.                                                  *)
LEMMA CloseCallKeeps ==
    ASSUME NEW h, NEW s \in Socks, Serving(h, s, "close")
    PROVE  /\ [h EXCEPT !.sock[s].destroyed = TRUE] = [h EXCEPT !.sock[s] = Gone(h.sock[s])]
           /\ Is([h EXCEPT !.sock[s] = Gone(h.sock[s])], h, s, Gone(h.sock[s]), h.openCount, h.tail, h.turns)
           /\ HeapInv([h EXCEPT !.sock[s] = Gone(h.sock[s])])
<1> DEFINE k == h.sock[s]  j == Gone(k)  g == [h EXCEPT !.sock[s] = j]
<1>1. h \in HeapType /\ k \in SockType /\ SockInv(h, s, "close") /\ Life(k)
  BY Served1
<1>2. /\ j \in SockType /\ j.counted = k.counted /\ j.handle = k.handle /\ j.connecting = k.connecting
      /\ j.destroyed /\ j.closed = k.closed /\ j.loopRunning = k.loopRunning
      /\ j.flushed = k.flushed /\ j.mode = k.mode /\ j.allowHalfOpen = k.allowHalfOpen
  BY <1>1 DEF SockType, Gone
<1>3. [h EXCEPT !.sock[s].destroyed = TRUE] = g
  BY <1>1 DEF HeapType, Gone
<1>4. Is(g, h, s, j, h.openCount, h.tail, h.turns)
  BY <1>1, <1>2, SetSock
<1> HIDE DEF g, j
<1>5. Adds(g, h, s) /\ CountStep(h, s, j, h.openCount)
  BY <1>2, <1>4 DEF Is, Adds, CountStep
<1>6. g.sock[s] = j /\ g.tail = h.tail /\ g.turns = h.turns
  BY <1>4 DEF Is
<1>7. SockInv(g, s, "none")
  BY <1>1, <1>2, <1>6 DEF SockInv, Life, Looping, Alone
<1>8. HeapInv(g)
  BY <1>4, <1>5, <1>7, HeapStep
<1> QED
  BY <1>3, <1>4, <1>8 DEF g, j

(* The peer has closed.                                                    *)
Ended(k) == Closed(Stopped(k), k.destroyed)

(* A read that finds the end: the loop stops and the socket closes.        *)
LEMMA EndedIs ==
    ASSUME NEW h \in HeapType, NEW s \in Socks, ~h.sock[s].closed, h.sock[s].handle # NoHandle
    PROVE  Is(DoClose(StopLoop(h, s), s), h, s, Ended(h.sock[s]), Less(h, s),
              Append(h.tail, CallOf("close", s, h.sock[s].handle, 0)), h.turns)
<1> DEFINE k == h.sock[s]  j == Stopped(k)  g == StopLoop(h, s)
<1>1. k \in SockType
  BY HeapFields
<1>2. Is(g, h, s, j, h.openCount, h.tail, h.turns)
  BY StopLoopIs
<1>3. j.closed = k.closed /\ j.handle = k.handle /\ j.destroyed = k.destroyed /\ j.counted = k.counted
  <2> HIDE DEF k
  <2> QED BY <1>1, LoopFields
<1> HIDE DEF g, j
<1>4. g \in HeapType /\ g.sock[s] = j /\ g.openCount = h.openCount /\ g.tail = h.tail /\ g.turns = h.turns
  BY <1>2 DEF Is
<1>5. Is(DoClose(g, s), g, s, Closed(j, j.destroyed), Less(g, s),
         Append(g.tail, CallOf("close", s, j.handle, 0)), g.turns)
  BY <1>3, <1>4, DoCloseIs
<1>6. Less(g, s) = Less(h, s)
  BY <1>3, <1>4 DEF Less
<1>7. Is(DoClose(g, s), g, s, Closed(j, k.destroyed), Less(h, s),
         Append(h.tail, CallOf("close", s, k.handle, 0)), h.turns)
  BY <1>3, <1>4, <1>5, <1>6
<1>8. Is(DoClose(g, s), h, s, Closed(j, k.destroyed), Less(h, s),
         Append(h.tail, CallOf("close", s, k.handle, 0)), h.turns)
  BY <1>2, <1>7, IsThen
<1> QED
  BY <1>8 DEF g, j, Ended

(* What that changes of the socket.                                        *)
LEMMA EndedFields ==
    ASSUME NEW k \in SockType
    PROVE  LET j == Ended(k) IN
              /\ ~j.counted /\ j.handle = k.handle /\ j.connecting = k.connecting
              /\ j.destroyed = k.destroyed /\ j.closed /\ ~j.loopRunning
              /\ j.flushed = k.flushed /\ j.mode = k.mode /\ j.allowHalfOpen = k.allowHalfOpen
              /\ SameBytes(j, k)
<1> DEFINE i == Stopped(k)
<1>1. /\ i \in SockType /\ i.handle = k.handle /\ i.connecting = k.connecting
      /\ i.flushed = k.flushed /\ i.mode = k.mode /\ i.allowHalfOpen = k.allowHalfOpen
      /\ SameBytes(i, k) /\ k.destroyed \in BOOLEAN
  BY LoopFields, LoopUpdates DEF SockType
<1> HIDE DEF i
<1>2. LET j == Closed(i, k.destroyed) IN
              /\ ~j.counted /\ j.handle = i.handle /\ j.connecting = i.connecting
              /\ j.destroyed = k.destroyed /\ j.closed /\ ~j.loopRunning
              /\ j.flushed = i.flushed /\ j.mode = i.mode /\ j.allowHalfOpen = i.allowHalfOpen
              /\ SameBytes(j, i)
  BY <1>1, ClosingFields
<1> QED
  BY <1>1, <1>2 DEF Ended, i, SameBytes

(* It keeps the invariant.                                                 *)
LEMMA EndedKeeps ==
    ASSUME NEW h, NEW s \in Socks, Serving(h, s, "loop"), ~h.sock[s].destroyed
    PROVE  ~h.sock[s].closed /\ HeapInv(DoClose(StopLoop(h, s), s))
<1> DEFINE k == h.sock[s]  j == Ended(k)  g == DoClose(StopLoop(h, s), s)
           c == CallOf("close", s, k.handle, 0)
<1>1. h \in HeapType /\ k \in SockType /\ SockInv(h, s, "loop") /\ Life(k) /\ k.handle \in Nat
  BY Served1
<1>2. ~k.closed /\ k.handle # NoHandle
  BY <1>1 DEF SockInv, Life
<1>3. Is(g, h, s, j, Less(h, s), Append(h.tail, c), h.turns)
  BY <1>1, <1>2, EndedIs
<1>4. /\ ~j.counted /\ j.handle = k.handle /\ j.connecting = k.connecting
      /\ j.destroyed = k.destroyed /\ j.closed /\ ~j.loopRunning
      /\ j.flushed = k.flushed /\ j.mode = k.mode /\ j.allowHalfOpen = k.allowHalfOpen
      /\ SameBytes(j, k)
  <2> HIDE DEF k
  <2> QED BY <1>1, EndedFields
<1>5. CountStep(h, s, j, Less(h, s))
  BY <1>4 DEF CountStep
<1>6. Adds(g, h, s)
  BY <1>1, <1>3, AddsCall DEF Ops
<1>7. g.sock[s] = j /\ g.tail = Append(h.tail, c) /\ g.turns = h.turns
  BY <1>3 DEF Is
<1>8. /\ In(g.tail, Opens(s)) <=> In(h.tail, Opens(s))
      /\ In(g.tail, Closes(s))
      /\ In(g.tail, Loops(s)) <=> In(h.tail, Loops(s))
      /\ Solo(h.tail, Opens(s)) => Solo(g.tail, Opens(s))
      /\ Solo(h.tail, Loops(s)) => Solo(g.tail, Loops(s))
      /\ \A x : Bears(g.tail, Loops(s), x) <=> Bears(h.tail, Loops(s), x)
  BY <1>1, <1>7, CloseAdds
<1> HIDE DEF g, j, c
<1>9. SockInv(g, s, "none")
  BY <1>1, <1>2, <1>4, <1>7, <1>8 DEF SockInv, Life, Looping, Alone, SameBytes
<1>10. HeapInv(g)
  BY <1>3, <1>5, <1>6, <1>9, HeapStep
<1> QED
  BY <1>2, <1>10 DEF g

(* The connection was reset.                                               *)
Dropped(k) == Torn(Stopped(k))

(* A read that fails: the loop stops and the socket is torn down.          *)
LEMMA DroppedIs ==
    ASSUME NEW h \in HeapType, NEW s \in Socks, ~h.sock[s].destroyed
    PROVE  Is(Teardown(StopLoop(h, s), s), h, s, Dropped(h.sock[s]), Less(h, s),
              Append(h.tail, CallOf("close", s, h.sock[s].handle, 0)), h.turns)
<1> DEFINE k == h.sock[s]  j == Stopped(k)  g == StopLoop(h, s)
<1>1. k \in SockType
  BY HeapFields
<1>2. Is(g, h, s, j, h.openCount, h.tail, h.turns)
  BY StopLoopIs
<1>3. j.handle = k.handle /\ j.destroyed = k.destroyed /\ j.counted = k.counted
  <2> HIDE DEF k
  <2> QED BY <1>1, LoopFields
<1> HIDE DEF g, j
<1>4. g \in HeapType /\ g.sock[s] = j /\ g.openCount = h.openCount /\ g.tail = h.tail /\ g.turns = h.turns
  BY <1>2 DEF Is
<1>5. Is(Teardown(g, s), g, s, Torn(j), Less(g, s),
         Append(g.tail, CallOf("close", s, j.handle, 0)), g.turns)
  BY <1>3, <1>4, TeardownIs
<1>6. Less(g, s) = Less(h, s)
  BY <1>3, <1>4 DEF Less
<1>7. Is(Teardown(g, s), g, s, Torn(j), Less(h, s),
         Append(h.tail, CallOf("close", s, k.handle, 0)), h.turns)
  BY <1>3, <1>4, <1>5, <1>6
<1>8. Is(Teardown(g, s), h, s, Torn(j), Less(h, s),
         Append(h.tail, CallOf("close", s, k.handle, 0)), h.turns)
  BY <1>2, <1>7, IsThen
<1> QED
  BY <1>8 DEF g, j, Dropped

(* What that changes of the socket.                                        *)
LEMMA DroppedFields ==
    ASSUME NEW k \in SockType
    PROVE  LET j == Dropped(k) IN
              /\ ~j.counted /\ j.handle = NoHandle /\ j.connecting = k.connecting
              /\ j.destroyed /\ j.closed /\ ~j.loopRunning
              /\ j.flushed = k.flushed /\ j.mode = k.mode /\ j.allowHalfOpen = k.allowHalfOpen
              /\ SameBytes(j, k)
<1> DEFINE i == Stopped(k)
<1>1. /\ i \in SockType /\ i.connecting = k.connecting
      /\ i.flushed = k.flushed /\ i.mode = k.mode /\ i.allowHalfOpen = k.allowHalfOpen
      /\ SameBytes(i, k)
  BY LoopFields, LoopUpdates DEF SockType
<1> HIDE DEF i
<1>2. LET j == Torn(i) IN
              /\ ~j.counted /\ j.handle = NoHandle /\ j.connecting = i.connecting
              /\ j.destroyed /\ j.closed /\ ~j.loopRunning
              /\ j.flushed = i.flushed /\ j.mode = i.mode /\ j.allowHalfOpen = i.allowHalfOpen
              /\ SameBytes(j, i)
  BY <1>1, ClosingFields
<1> QED
  BY <1>1, <1>2 DEF Dropped, i, SameBytes

(* It keeps the invariant.                                                 *)
LEMMA DroppedKeeps ==
    ASSUME NEW h, NEW s \in Socks, Serving(h, s, "loop"), ~h.sock[s].destroyed
    PROVE  HeapInv(Teardown(StopLoop(h, s), s))
<1> DEFINE k == h.sock[s]  j == Dropped(k)  g == Teardown(StopLoop(h, s), s)
           c == CallOf("close", s, k.handle, 0)
<1>1. h \in HeapType /\ k \in SockType /\ SockInv(h, s, "loop") /\ Life(k) /\ k.handle \in Nat
  BY Served1
<1>2. ~k.closed /\ k.handle # NoHandle
  BY <1>1 DEF SockInv, Life
<1>3. Is(g, h, s, j, Less(h, s), Append(h.tail, c), h.turns)
  BY <1>1, <1>2, DroppedIs
<1>4. /\ ~j.counted /\ j.handle = NoHandle /\ j.connecting = k.connecting
      /\ j.destroyed /\ j.closed /\ ~j.loopRunning
      /\ j.flushed = k.flushed /\ j.mode = k.mode /\ j.allowHalfOpen = k.allowHalfOpen
  <2> HIDE DEF k
  <2> QED BY <1>1, DroppedFields
<1>5. CountStep(h, s, j, Less(h, s))
  BY <1>4 DEF CountStep
<1>6. Adds(g, h, s)
  BY <1>1, <1>3, AddsCall DEF Ops
<1>7. g.sock[s] = j /\ g.tail = Append(h.tail, c) /\ g.turns = h.turns
  BY <1>3 DEF Is
<1>8. /\ In(g.tail, Opens(s)) <=> In(h.tail, Opens(s))
      /\ In(g.tail, Closes(s))
      /\ In(g.tail, Loops(s)) <=> In(h.tail, Loops(s))
      /\ Solo(h.tail, Loops(s)) => Solo(g.tail, Loops(s))
  BY <1>1, <1>7, CloseAdds
<1> HIDE DEF g, j, c
<1>9. ~In(h.tail, Loops(s)) /\ ~In(h.turns, TurnsOf(s))
  BY <1>1 DEF SockInv, Looping
<1>10. Bears(g.tail, Loops(s), NoHandle) /\ Bears(g.turns, TurnsOf(s), NoHandle)
  BY <1>7, <1>8, <1>9 DEF Bears, In
<1>11. SockInv(g, s, "none")
  BY <1>1, <1>2, <1>4, <1>7, <1>8, <1>9, <1>10 DEF SockInv, Life, Looping, Alone
<1>12. HeapInv(g)
  BY <1>3, <1>5, <1>6, <1>11, HeapStep
<1> QED
  BY <1>12 DEF g

(* A loop started.                                                         *)
LEMMA StartAdds ==
    ASSUME NEW h \in HeapType, NEW s \in Socks, NEW id \in Nat,
           NEW q, q = Append(h.turns, [s |-> s, id |-> id])
    PROVE  /\ In(q, TurnsOf(s))
           /\ Solo(h.turns, TurnsOf(s)) /\ ~In(h.turns, TurnsOf(s)) => Solo(q, TurnsOf(s))
           /\ Bears(h.turns, TurnsOf(s), id) => Bears(q, TurnsOf(s), id)
<1> DEFINE t == [s |-> s, id |-> id]
<1>1. t \in TurnType /\ t.s = s /\ t.id = id
  BY DEF TurnType
<1> HIDE DEF t
<1>2. t \in TurnsOf(s)
  BY <1>1 DEF TurnsOf
<1>3. h.turns \in Seq(TurnType) /\ q = Append(h.turns, t)
  BY HeapFields DEF t
<1>4. /\ \A K : /\ In(q, K) <=> In(h.turns, K) \/ t \in K
                /\ Solo(h.turns, K) /\ ~(In(h.turns, K) /\ t \in K) => Solo(q, K)
      /\ \A K, x : Bears(q, K, x) <=> Bears(h.turns, K, x) /\ (t \in K => t.id = x)
  BY <1>1, <1>3, AfterAppend
<1> QED
  BY <1>1, <1>2, <1>4

(* The open's callback.                                                    *)
LEMMA OpeningIs ==
    ASSUME NEW h, NEW s \in Socks, Serving(h, s, "open"), ~h.sock[s].destroyed
    PROVE  LET k == h.sock[s] IN
           /\ k.connecting /\ k.handle = NoHandle /\ ~k.closed /\ ~k.loopRunning /\ ~k.flushed
           /\ ~In(h.tail, Opens(s)) /\ ~In(h.tail, Closes(s)) /\ ~Looping(h, s)
           /\ From1(k.preQ, 0) /\ Len(k.preQ) = k.written /\ k.rx = <<>>
<1>1. SockInv(h, s, "open") /\ Life(h.sock[s])
  BY Served1
<1> QED
  BY <1>1 DEF SockInv, Life

(* The callback of the open keeps the invariant.                           *)
LEMMA OpenedKeeps ==
    ASSUME NEW h, NEW s \in Socks, Serving(h, s, "open"), NEW id \in Nat, id # NoHandle
    PROVE  HeapInv(Opened(h, s, id))
<1> DEFINE k == h.sock[s]  g == Opened(h, s, id)
<1>1. h \in HeapType /\ k \in SockType /\ SockInv(h, s, "open") /\ Life(k) /\ k.destroyed \in BOOLEAN
  BY Served1
<1>2. CASE k.destroyed
  <2> DEFINE j == Uncounted(k)  c == CallOf("close", s, id, 0)
  <2>1. Is(g, h, s, j, Less(h, s), Append(h.tail, c), h.turns)
    BY <1>1, <1>2, OpenedIs
  <2>2. /\ ~j.counted /\ j.handle = k.handle /\ j.connecting = k.connecting
        /\ j.destroyed = k.destroyed /\ j.closed = k.closed /\ j.loopRunning = k.loopRunning
        /\ j.flushed = k.flushed /\ j.mode = k.mode /\ j.allowHalfOpen = k.allowHalfOpen
    <3> HIDE DEF k
    <3> QED BY <1>1, ClosingFields
  <2>3. CountStep(h, s, j, Less(h, s))
    BY <2>2 DEF CountStep
  <2>4. Adds(g, h, s)
    BY <1>1, <2>1, AddsCall DEF Ops
  <2>5. g.sock[s] = j /\ g.tail = Append(h.tail, c) /\ g.turns = h.turns
    BY <2>1 DEF Is
  <2>6. /\ In(g.tail, Opens(s)) <=> In(h.tail, Opens(s))
        /\ In(g.tail, Closes(s))
        /\ In(g.tail, Loops(s)) <=> In(h.tail, Loops(s))
        /\ Solo(h.tail, Loops(s)) => Solo(g.tail, Loops(s))
        /\ \A x : Bears(g.tail, Loops(s), x) <=> Bears(h.tail, Loops(s), x)
    BY <1>1, <2>5, CloseAdds
  <2> HIDE DEF g, j, c
  <2>7. SockInv(g, s, "none")
    BY <1>1, <1>2, <2>2, <2>5, <2>6 DEF SockInv, Life, Looping, Alone
  <2>8. HeapInv(g)
    BY <2>1, <2>3, <2>4, <2>7, HeapStep
  <2> QED BY <2>8 DEF g
<1>3. CASE ~k.destroyed
  <2> DEFINE j == Started(Attached(k, id))  t == [s |-> s, id |-> id]
  <2>1. /\ k.connecting /\ k.handle = NoHandle /\ ~k.closed /\ ~k.loopRunning /\ ~k.flushed
        /\ ~In(h.tail, Opens(s)) /\ ~In(h.tail, Closes(s)) /\ ~Looping(h, s)
    BY <1>3, OpeningIs
  <2>2. PICK q \in {h.tail, Append(h.tail, CallOf("startTls", s, id, 0))} :
             Is(g, h, s, j, h.openCount, q, Append(h.turns, t))
    BY <1>1, <1>3, <2>1, OpenedIs
  <2>3. /\ j.handle = id /\ ~j.connecting /\ j.loopRunning
        /\ j.destroyed = k.destroyed /\ j.closed = k.closed /\ j.counted = k.counted
        /\ j.flushed = k.flushed /\ j.mode = k.mode /\ j.allowHalfOpen = k.allowHalfOpen
    <3> DEFINE i == Attached(k, id)
    <3>1. /\ i \in SockType /\ i.handle = id /\ ~i.connecting
          /\ i.destroyed = k.destroyed /\ i.closed = k.closed /\ i.counted = k.counted
          /\ i.flushed = k.flushed /\ i.mode = k.mode /\ i.allowHalfOpen = k.allowHalfOpen
      <4> HIDE DEF k
      <4> QED BY <1>1, OpeningFields, AttachUpdates
    <3> HIDE DEF i
    <3>2. /\ j.loopRunning /\ j.handle = i.handle /\ j.connecting = i.connecting
          /\ j.destroyed = i.destroyed /\ j.closed = i.closed /\ j.counted = i.counted
          /\ j.flushed = i.flushed /\ j.mode = i.mode /\ j.allowHalfOpen = i.allowHalfOpen
      BY <3>1, LoopFields DEF i
    <3> QED BY <3>1, <3>2
  <2>4. CountStep(h, s, j, h.openCount)
    BY <2>3 DEF CountStep
  <2>5. g.sock[s] = j /\ g.tail = q /\ g.turns = Append(h.turns, t)
    BY <2>2 DEF Is
  <2>6. Adds(g, h, s)
    <3>1. t \in TurnType /\ t.s = s
      BY DEF TurnType
    <3> HIDE DEF t
    <3>2. CallOf("startTls", s, id, 0) \in CallType /\ CallOf("startTls", s, id, 0).s = s
      BY DEF CallOf, CallType
    <3> QED BY <2>2, <2>5, <3>1, <3>2 DEF Adds
  <2>7. /\ In(q, Opens(s)) <=> In(h.tail, Opens(s))
        /\ In(q, Closes(s)) <=> In(h.tail, Closes(s))
        /\ In(q, Loops(s)) <=> In(h.tail, Loops(s))
        /\ Solo(h.tail, Opens(s)) => Solo(q, Opens(s))
        /\ Solo(h.tail, Loops(s)) => Solo(q, Loops(s))
    <3>1. CASE q = h.tail
      BY <3>1
    <3>2. CASE q = Append(h.tail, CallOf("startTls", s, id, 0))
      BY <1>1, <3>2, CloseAdds
    <3> QED BY <2>2, <3>1, <3>2
  <2>8. /\ In(g.turns, TurnsOf(s))
        /\ Solo(h.turns, TurnsOf(s)) /\ ~In(h.turns, TurnsOf(s)) => Solo(g.turns, TurnsOf(s))
        /\ Bears(h.turns, TurnsOf(s), id) => Bears(g.turns, TurnsOf(s), id)
    BY <1>1, <2>5, StartAdds
  <2>9. ~In(h.tail, Loops(s)) /\ ~In(h.turns, TurnsOf(s))
    BY <2>1 DEF Looping
  <2>10. Bears(q, Loops(s), id) /\ Bears(h.turns, TurnsOf(s), id)
    BY <2>7, <2>9 DEF Bears, In
  <2> HIDE DEF g, j, t
  <2>11. Life(j)
    BY <1>1, <1>3, <2>1, <2>3 DEF Life
  <2>12. SockInv(g, s, "none")
    BY <1>1, <1>3, <2>1, <2>3, <2>5, <2>7, <2>8, <2>9, <2>10, <2>11 DEF SockInv, Looping, Alone
  <2>13. HeapInv(g)
    BY <2>2, <2>4, <2>6, <2>12, HeapStep
  <2> QED BY <2>13 DEF g
<1> QED
  BY <1>1, <1>2, <1>3

-----------------------------------------------------------------------------
(* write() and end(data).                                                  *)
LEMMA From1Grows ==
    ASSUME NEW q \in Seq(Nat), NEW n \in Nat, NEW m \in Nat, From1(q, n), m = n + Len(q)
    PROVE  From1(Append(q, m + 1), n)
<1> DEFINE p == Append(q, m + 1)  l == Len(q)
<1>1. l \in Nat /\ Len(p) = l + 1 /\ p[l + 1] = m + 1 /\ \A i \in 1..l : p[i] = q[i]
  OBVIOUS
<1> SUFFICES ASSUME NEW i \in 1..(l + 1) PROVE p[i] = n + i
  BY <1>1 DEF From1
<1>2. CASE i = l + 1
  BY <1>1, <1>2
<1>3. CASE i # l + 1
  <2>1. i \in 1..l
    BY <1>1, <1>3
  <2> QED BY <1>1, <2>1 DEF From1
<1> QED
  BY <1>2, <1>3

(* A write keeps the invariant.                                            *)
LEMMA AcceptKeeps ==
    ASSUME NEW h, NEW s \in Socks, HeapInv(h), ~h.sock[s].destroyed, ~h.sock[s].closed
    PROVE  HeapInv(Accept(h, s))
<1> DEFINE k == h.sock[s]  g == Accept(h, s)
<1>0. Serving(h, s, "none")
  BY Idle
<1>1. h \in HeapType /\ k \in SockType /\ SockInv(h, s, "none") /\ Life(k) /\ k.handle \in Nat
      /\ k.loopRunning \in BOOLEAN
  BY <1>0, Served1
<1>2. CASE k.handle = NoHandle
  <2> DEFINE j == Waiting(k)
  <2>1. g = [h EXCEPT !.sock[s] = j] \/ Is(g, h, s, j, h.openCount, h.tail, h.turns)
    BY <1>1, <1>2, AcceptIs
  <2>2. /\ Same(j, k) /\ j.rx = k.rx /\ j.written = k.written + 1
        /\ j.preQ = Append(k.preQ, k.written + 1) /\ j \in SockType
    <3> HIDE DEF k
    <3> QED BY <1>1, OpeningFields, AcceptUpdates
  <2>3. From1(k.preQ, 0) /\ Len(k.preQ) = k.written /\ k.rx = <<>>
    BY <1>1, <1>2 DEF Life
  <2>4. k.preQ \in Seq(Nat) /\ k.written \in Nat
    BY <1>1 DEF SockType
  <2>5. From1(j.preQ, 0) /\ Len(j.preQ) = j.written
    <3> DEFINE p == k.preQ  m == k.written
    <3>1. p \in Seq(Nat) /\ m \in Nat /\ From1(p, 0) /\ m = 0 + Len(p)
      BY <2>3, <2>4
    <3> HIDE DEF p, m
    <3>2. From1(Append(p, m + 1), 0) /\ Len(Append(p, m + 1)) = m + 1
      BY <3>1, From1Grows
    <3> QED BY <2>2, <3>2 DEF p, m
  <2> HIDE DEF j, g
  <2>6. Is(g, h, s, j, h.openCount, h.tail, h.turns)
    BY <1>1, <2>1, <2>2, SetSock
  <2>7. Adds(g, h, s) /\ CountStep(h, s, j, h.openCount)
    BY <2>2, <2>6 DEF Is, Adds, CountStep, Same
  <2>8. g.sock[s] = j /\ g.tail = h.tail /\ g.turns = h.turns
    BY <2>6 DEF Is
  <2>9. Life(j)
    BY <1>1, <2>2, <2>3, <2>5 DEF Life, Same
  <2>10. SockInv(g, s, "none")
    BY <1>1, <2>2, <2>8, <2>9 DEF SockInv, Looping, Alone, Same
  <2>11. HeapInv(g)
    BY <1>0, <2>6, <2>7, <2>10, HeapStep
  <2> QED BY <2>11 DEF g
<1>3. CASE k.handle # NoHandle /\ k.loopRunning
  <2> DEFINE j == Queued(k)
  <2>1. Is(g, h, s, j, h.openCount, h.tail, h.turns)
    BY <1>1, <1>3, AcceptIs
  <2>2. Same(j, k)
    <3> HIDE DEF k
    <3> QED BY <1>1, OpeningFields
  <2> HIDE DEF j, g
  <2>7. Adds(g, h, s) /\ CountStep(h, s, j, h.openCount)
    BY <2>1, <2>2 DEF Is, Adds, CountStep, Same
  <2>8. g.sock[s] = j /\ g.tail = h.tail /\ g.turns = h.turns
    BY <2>1 DEF Is
  <2>9. Life(j)
    BY <1>1, <1>3, <2>2 DEF Life, Same
  <2>10. SockInv(g, s, "none")
    BY <1>1, <2>2, <2>8, <2>9 DEF SockInv, Looping, Alone, Same
  <2>11. HeapInv(g)
    BY <1>0, <2>1, <2>7, <2>10, HeapStep
  <2> QED BY <2>11 DEF g
<1>4. CASE k.handle # NoHandle /\ ~k.loopRunning
  <2> DEFINE j == Started(Queued(k))  id == k.handle  t == [s |-> s, id |-> id]
  <2>1. Is(g, h, s, j, h.openCount, h.tail, Append(h.turns, t))
    BY <1>1, <1>4, AcceptIs
  <2>2. /\ j.loopRunning /\ j.handle = id /\ j.connecting = k.connecting
        /\ j.destroyed = k.destroyed /\ j.closed = k.closed /\ j.counted = k.counted
        /\ j.flushed = k.flushed /\ j.mode = k.mode /\ j.allowHalfOpen = k.allowHalfOpen
    <3> DEFINE i == Queued(k)
    <3>1. Same(i, k) /\ i \in SockType
      <4> HIDE DEF k
      <4> QED BY <1>1, OpeningFields, AcceptUpdates
    <3> HIDE DEF i
    <3>2. /\ j.loopRunning /\ j.handle = i.handle /\ j.connecting = i.connecting
          /\ j.destroyed = i.destroyed /\ j.closed = i.closed /\ j.counted = i.counted
          /\ j.flushed = i.flushed /\ j.mode = i.mode /\ j.allowHalfOpen = i.allowHalfOpen
      BY <3>1, LoopFields DEF i
    <3> QED BY <3>1, <3>2 DEF Same
  <2>3. Adds(g, h, s)
    BY <1>1, <2>1, AddsTurn
  <2>4. CountStep(h, s, j, h.openCount)
    BY <2>2 DEF CountStep
  <2>5. g.sock[s] = j /\ g.tail = h.tail /\ g.turns = Append(h.turns, t)
    BY <2>1 DEF Is
  <2>6. /\ In(g.turns, TurnsOf(s))
        /\ Solo(h.turns, TurnsOf(s)) /\ ~In(h.turns, TurnsOf(s)) => Solo(g.turns, TurnsOf(s))
        /\ Bears(h.turns, TurnsOf(s), id) => Bears(g.turns, TurnsOf(s), id)
    BY <1>1, <2>5, StartAdds
  <2>7. ~In(h.tail, Loops(s)) /\ ~In(h.turns, TurnsOf(s)) /\ ~k.flushed
    BY <1>1, <1>4 DEF SockInv, Looping, Life
  <2> HIDE DEF g, j, t
  <2>8. Life(j)
    BY <1>1, <1>4, <2>2 DEF Life
  <2>9. SockInv(g, s, "none")
    BY <1>1, <1>4, <2>2, <2>5, <2>6, <2>7, <2>8 DEF SockInv, Looping, Alone
  <2>10. HeapInv(g)
    BY <1>0, <2>1, <2>3, <2>4, <2>9, HeapStep
  <2> QED BY <2>10 DEF g
<1> QED
  BY <1>1, <1>2, <1>3, <1>4

-----------------------------------------------------------------------------
(* net.connect.                                                            *)
Configured(k, mode, half) == [k EXCEPT !.mode = mode, !.allowHalfOpen = half]
Connecting(k) == [k EXCEPT !.connecting = TRUE, !.counted = TRUE]
Dialled(h, s) ==
    HostCall([h EXCEPT !.sock[s].connecting = TRUE, !.sock[s].counted = TRUE, !.openCount = @ + 1],
             "open", s, NoHandle, 0)

(* A socket that is given its options.                                     *)
LEMMA ConfiguredFields ==
    ASSUME NEW k \in SockType, NEW mode \in Modes, NEW half \in HalfOpen, HalfOpen \subseteq BOOLEAN
    PROVE  LET j == Configured(k, mode, half) IN
           /\ j \in SockType /\ j.mode = mode /\ j.allowHalfOpen = half
           /\ j.handle = k.handle /\ j.connecting = k.connecting /\ j.destroyed = k.destroyed
           /\ j.closed = k.closed /\ j.counted = k.counted /\ j.loopRunning = k.loopRunning
           /\ j.flushed = k.flushed /\ SameBytes(j, k)
  BY DEF SockType, Configured, SameBytes

(* A socket that takes a slot.                                             *)
LEMMA ConnectingFields ==
    ASSUME NEW k \in SockType
    PROVE  LET j == Connecting(k) IN
           /\ j \in SockType /\ j.connecting /\ j.counted
           /\ j.handle = k.handle /\ j.mode = k.mode /\ j.destroyed = k.destroyed
           /\ j.closed = k.closed /\ j.allowHalfOpen = k.allowHalfOpen /\ j.loopRunning = k.loopRunning
           /\ j.flushed = k.flushed /\ SameBytes(j, k)
  BY DEF SockType, Connecting, SameBytes

(* The open is queued.                                                     *)
LEMMA DialledIs ==
    ASSUME NEW h \in HeapType, NEW s \in Socks
    PROVE  Is(Dialled(h, s), h, s, Connecting(h.sock[s]), h.openCount + 1,
              Append(h.tail, CallOf("open", s, NoHandle, 0)), h.turns)
<1> DEFINE k == h.sock[s]  j == Connecting(k)  n == h.openCount + 1
           g == [h EXCEPT !.sock[s].connecting = TRUE, !.sock[s].counted = TRUE, !.openCount = @ + 1]
<1>1. k \in SockType /\ h.openCount \in Int
  BY HeapFields
<1>2. j \in SockType /\ n \in Int
  BY <1>1, ConnectingFields
<1>3. g = [h EXCEPT !.sock = [h.sock EXCEPT ![s] = j], !.openCount = n]
  BY DEF HeapType, Connecting
<1> HIDE DEF j, n, g
<1>4. Is(g, h, s, j, n, h.tail, h.turns)
  BY <1>2, <1>3 DEF HeapType, Is
<1>5. g \in HeapType /\ g.sock[s] = j /\ g.openCount = n /\ g.tail = h.tail /\ g.turns = h.turns
  BY <1>4 DEF Is
<1>6. Is(HostCall(g, "open", s, NoHandle, 0), g, s, j, n,
         Append(h.tail, CallOf("open", s, NoHandle, 0)), h.turns)
  BY <1>5, HostCallIs DEF NoHandle
<1>7. Dialled(h, s) = HostCall(g, "open", s, NoHandle, 0)
  BY DEF Dialled, g
<1> QED
  BY <1>4, <1>6, <1>7, IsThen DEF j, n

(* It keeps the invariant.                                                 *)
LEMMA DialledKeeps ==
    ASSUME NEW h, NEW s \in Socks, HeapInv(h), ~h.sock[s].connecting, h.sock[s].handle = NoHandle
    PROVE  HeapInv(Dialled(h, s))
<1> DEFINE k == h.sock[s]  j == Connecting(k)  g == Dialled(h, s)
           c == CallOf("open", s, NoHandle, 0)
<1>0. Serving(h, s, "none")
  BY Idle
<1>1. h \in HeapType /\ k \in SockType /\ SockInv(h, s, "none") /\ Life(k) /\ CountInv(h)
  BY <1>0, Served1 DEF Serving
<1>2. Is(g, h, s, j, h.openCount + 1, Append(h.tail, c), h.turns)
  BY <1>1, DialledIs
<1>3. /\ j.connecting /\ j.counted
      /\ j.handle = k.handle /\ j.mode = k.mode /\ j.destroyed = k.destroyed
      /\ j.closed = k.closed /\ j.allowHalfOpen = k.allowHalfOpen /\ j.loopRunning = k.loopRunning
      /\ j.flushed = k.flushed /\ SameBytes(j, k)
  <2> HIDE DEF k
  <2> QED BY <1>1, ConnectingFields
<1>4. /\ g \in HeapType /\ g.sock[s] = j /\ g.tail = Append(h.tail, c) /\ g.turns = h.turns
      /\ g.openCount = h.openCount + 1 /\ \A r \in Socks : r # s => g.sock[r] = h.sock[r]
  BY <1>2 DEF Is
<1>5. Adds(g, h, s)
  <2>1. "open" \in Ops /\ NoHandle \in Nat /\ 0 \in Nat
    BY DEF Ops, NoHandle
  <2>2. c \in CallType /\ c.s = s
    BY <2>1 DEF CallOf, CallType
  <2> QED BY <1>4, <2>2 DEF Adds
<1>6. /\ In(g.tail, Opens(s))
      /\ In(g.tail, Closes(s)) <=> In(h.tail, Closes(s))
      /\ In(g.tail, Loops(s)) <=> In(h.tail, Loops(s))
      /\ Solo(h.tail, Opens(s)) /\ ~In(h.tail, Opens(s)) => Solo(g.tail, Opens(s))
      /\ Solo(h.tail, Loops(s)) => Solo(g.tail, Loops(s))
      /\ \A x : Bears(g.tail, Loops(s), x) <=> Bears(h.tail, Loops(s), x)
  BY <1>1, <1>4, OpenAdds
<1> HIDE DEF g, j, c
<1>7. Life(j)
  BY <1>1, <1>3 DEF Life, SameBytes
<1>8. SockInv(g, s, "none")
  BY <1>1, <1>3, <1>4, <1>6, <1>7 DEF SockInv, Life, Looping, Alone
<1>9. CountInv(g)
  <2>1. ~k.counted
    BY <1>1 DEF Life
  <2>2. Counted(g) = Counted(h) \cup {s} /\ s \notin Counted(h)
    BY <1>3, <1>4, <2>1 DEF Counted
  <2>3. IsFiniteSet(Counted(h)) /\ h.openCount = Cardinality(Counted(h))
    BY <1>1 DEF CountInv
  <2>4. IsFiniteSet(Counted(h) \cup {s}) /\ Cardinality(Counted(h) \cup {s}) = Cardinality(Counted(h)) + 1
    BY <2>2, <2>3, FS_AddElement
  <2> QED BY <1>4, <2>2, <2>3, <2>4 DEF CountInv
<1>10. \A r \in Socks : SockInv(g, r, "none")
  <2>1. \A r \in Socks : SockInv(h, r, "none")
    BY DEF HeapInv
  <2> QED BY <1>1, <1>4, <1>5, <1>8, <2>1, OthersKeep
<1>11. HeapInv(g)
  BY <1>4, <1>9, <1>10 DEF HeapInv
<1> QED
  BY <1>11 DEF g

(* So do the options.                                                      *)
LEMMA ConfigureKeeps ==
    ASSUME NEW h, NEW s \in Socks, HeapInv(h), ~h.sock[s].connecting, h.sock[s].handle = NoHandle,
           NEW mode \in Modes, mode # "starttls", NEW half \in HalfOpen, HalfOpen \subseteq BOOLEAN
    PROVE  LET g == [h EXCEPT !.sock[s].mode = mode, !.sock[s].allowHalfOpen = half]
               k == h.sock[s] IN
           /\ Is(g, h, s, Configured(k, mode, half), h.openCount, h.tail, h.turns)
           /\ HeapInv(g)
<1> DEFINE k == h.sock[s]  j == Configured(k, mode, half)
           g == [h EXCEPT !.sock[s].mode = mode, !.sock[s].allowHalfOpen = half]
<1>0. Serving(h, s, "none")
  BY Idle
<1>1. h \in HeapType /\ k \in SockType /\ SockInv(h, s, "none") /\ Life(k)
  BY <1>0, Served1
<1>2. /\ j \in SockType /\ j.mode = mode /\ j.allowHalfOpen = half
      /\ j.handle = k.handle /\ j.connecting = k.connecting /\ j.destroyed = k.destroyed
      /\ j.closed = k.closed /\ j.counted = k.counted /\ j.loopRunning = k.loopRunning
      /\ j.flushed = k.flushed /\ SameBytes(j, k)
  <2> HIDE DEF k
  <2> QED BY <1>1, ConfiguredFields
<1>3. g = [h EXCEPT !.sock[s] = j]
  BY <1>1 DEF HeapType, Configured
<1> HIDE DEF g, j
<1>4. Is(g, h, s, j, h.openCount, h.tail, h.turns)
  BY <1>1, <1>2, <1>3, SetSock
<1>5. g.sock[s] = j /\ g.tail = h.tail /\ g.turns = h.turns
  BY <1>4 DEF Is
<1>6. Adds(g, h, s) /\ CountStep(h, s, j, h.openCount)
  BY <1>2, <1>5 DEF Adds, CountStep
<1>7. Life(j)
  BY <1>1, <1>2 DEF Life, SameBytes
<1>8. SockInv(g, s, "none")
  BY <1>1, <1>2, <1>5, <1>7 DEF SockInv, Looping, Alone
<1>9. HeapInv(g)
  BY <1>0, <1>4, <1>6, <1>8, HeapStep
<1> QED
  BY <1>4, <1>9 DEF g, j

-----------------------------------------------------------------------------
(* A handle is in reach of a heap: it is the handle of a socket that has   *)
(* not closed, or a close of it is queued.                                 *)
Reach(h, id) ==
    \/ \E s \in Socks : h.sock[s].handle = id /\ ~h.sock[s].closed
    \/ \E c \in Range(h.tail) : c.op = "close" /\ c.id = id
Reaches(g, h) == \A id : id # NoHandle /\ Reach(h, id) => Reach(g, id)
Frees(q, id) == \E c \in Range(q) : c.op = "close" /\ c.id = id

(* A call queued is in the tail, with those before it.                     *)
LEMMA AppendedIn ==
    ASSUME NEW h \in HeapType, NEW op \in Ops, NEW s \in Socks, NEW id \in Nat, NEW unit \in Nat,
           NEW q, q = Append(h.tail, CallOf(op, s, id, unit))
    PROVE  /\ Range(h.tail) \subseteq Range(q) /\ CallOf(op, s, id, unit) \in Range(q)
           /\ Range(q) = Range(h.tail) \cup {CallOf(op, s, id, unit)}
           /\ op = "close" => Frees(q, id)
<1> DEFINE c == CallOf(op, s, id, unit)
<1>1. c \in CallType /\ c.op = op /\ c.id = id
  BY DEF CallOf, CallType, Ops
<1> HIDE DEF c
<1>2. h.tail \in Seq(CallType) /\ q = Append(h.tail, c)
  BY HeapFields DEF c
<1>3. Range(q) = Range(h.tail) \cup {c}
  BY <1>1, <1>2, AfterAppend
<1> QED
  BY <1>1, <1>3 DEF Frees, c

(* A step of s keeps every handle in reach, if it keeps its own or queues  *)
(* its close.                                                              *)
LEMMA ReachStep ==
    ASSUME NEW h, NEW g, NEW s \in Socks, NEW k, NEW n, NEW q, NEW t, Is(g, h, s, k, n, q, t),
           Range(h.tail) \subseteq Range(q),
           \/ k.handle = h.sock[s].handle /\ k.closed = h.sock[s].closed
           \/ h.sock[s].closed \/ h.sock[s].handle = NoHandle
           \/ Frees(q, h.sock[s].handle)
    PROVE  Reaches(g, h)
<1>1. g.sock[s] = k /\ g.tail = q /\ \A r \in Socks : r # s => g.sock[r] = h.sock[r]
  BY DEF Is
<1> SUFFICES ASSUME NEW id, id # NoHandle, Reach(h, id) PROVE Reach(g, id)
  BY DEF Reaches
<1>2. CASE \E c \in Range(h.tail) : c.op = "close" /\ c.id = id
  BY <1>1, <1>2 DEF Reach
<1>3. ASSUME NEW r \in Socks, h.sock[r].handle = id, ~h.sock[r].closed PROVE Reach(g, id)
  <2>1. CASE r # s
    BY <1>1, <1>3, <2>1 DEF Reach
  <2>2. CASE r = s
    BY <1>1, <1>3, <2>2 DEF Reach, Frees
  <2> QED BY <2>1, <2>2
<1> QED
  BY <1>2, <1>3 DEF Reach

(* Nothing queued on the tail.                                             *)
LEMMA ReachSame ==
    ASSUME NEW h, NEW g, NEW s \in Socks, NEW k, NEW n, NEW t, Is(g, h, s, k, n, h.tail, t),
           \/ k.handle = h.sock[s].handle /\ k.closed = h.sock[s].closed
           \/ h.sock[s].closed \/ h.sock[s].handle = NoHandle
    PROVE  Reaches(g, h)
  BY ReachStep

(* One call queued.                                                        *)
LEMMA ReachCall ==
    ASSUME NEW h \in HeapType, NEW g, NEW s \in Socks, NEW k, NEW n, NEW t,
           NEW op \in Ops, NEW id \in Nat, NEW unit \in Nat,
           Is(g, h, s, k, n, Append(h.tail, CallOf(op, s, id, unit)), t),
           \/ k.handle = h.sock[s].handle /\ k.closed = h.sock[s].closed
           \/ h.sock[s].closed \/ h.sock[s].handle = NoHandle
           \/ op = "close" /\ id = h.sock[s].handle
    PROVE  Reaches(g, h) /\ (op = "close" => Reach(g, id))
<1> DEFINE q == Append(h.tail, CallOf(op, s, id, unit))
<1>0. q = Append(h.tail, CallOf(op, s, id, unit))
  OBVIOUS
<1>2. g.tail = q
  BY DEF Is
<1>3. Is(g, h, s, k, n, q, t)
  OBVIOUS
<1> HIDE DEF q
<1>1. Range(h.tail) \subseteq Range(q) /\ (op = "close" => Frees(q, id))
  BY <1>0, AppendedIn, Zenon
<1>4. Reaches(g, h)
  BY <1>1, <1>3, ReachStep
<1> QED
  BY <1>1, <1>2, <1>4 DEF Reach, Frees

(* Every helper keeps the handles in reach: a failed open,                 *)
LEMMA FailReach ==
    ASSUME NEW h, NEW s \in Socks, NEW hand, Serving(h, s, hand),
           hand = "open" \/ (hand = "none" /\ h.sock[s].handle = NoHandle)
    PROVE  Reaches(Fail(h, s), h)
<1>1. h \in HeapType /\ SockInv(h, s, hand) /\ Life(h.sock[s])
  BY Served1
<1>2. Is(Fail(h, s), h, s, Failed(h.sock[s]), Less(h, s), h.tail, h.turns)
  BY <1>1, FailIs
<1>3. h.sock[s].closed \/ h.sock[s].handle = NoHandle
  BY <1>1 DEF SockInv, Life
<1> QED
  BY <1>2, <1>3, ReachSame

(* _doClose,                                                               *)
LEMMA DoCloseReach ==
    ASSUME NEW h, NEW s \in Socks, HeapInv(h), h.sock[s].handle # NoHandle
    PROVE  Reaches(DoClose(h, s), h)
<1>1. h \in HeapType /\ h.sock[s].handle \in Nat
  BY Idle, Served1
<1>2. CASE h.sock[s].closed
  BY <1>1, <1>2, DoCloseIs DEF Reaches
<1>3. CASE ~h.sock[s].closed
  <2>1. Is(DoClose(h, s), h, s, Closed(h.sock[s], h.sock[s].destroyed), Less(h, s),
           Append(h.tail, CallOf("close", s, h.sock[s].handle, 0)), h.turns)
    BY <1>1, <1>3, DoCloseIs
  <2>2. "close" \in Ops /\ 0 \in Nat
    BY DEF Ops
  <2> QED BY <1>1, <2>1, <2>2, ReachCall
<1> QED
  BY <1>2, <1>3

(* destroy,                                                                *)
LEMMA DestroyReach ==
    ASSUME NEW h, NEW s \in Socks, HeapInv(h)
    PROVE  Reaches(Destroy(h, s), h)
<1> DEFINE k == h.sock[s]
<1>1. h \in HeapType /\ k.handle \in Nat
  BY Idle, Served1
<1>2. CASE k.destroyed
  BY <1>1, <1>2, DestroyIs DEF Reaches
<1>3. CASE ~k.destroyed /\ k.handle = NoHandle
  <2>1. Is(Destroy(h, s), h, s, Destroyed(k), Less(h, s), h.tail, h.turns)
    BY <1>1, <1>3, DestroyIs
  <2> QED BY <1>3, <2>1, ReachSame
<1>4. CASE ~k.destroyed /\ k.handle # NoHandle
  <2>1. Is(Destroy(h, s), h, s, Destroyed(k), Less(h, s),
           Append(h.tail, CallOf("close", s, k.handle, 0)), h.turns)
    BY <1>1, <1>4, DestroyIs
  <2>2. "close" \in Ops /\ 0 \in Nat
    BY DEF Ops
  <2> QED BY <1>1, <2>1, <2>2, ReachCall
<1> QED
  BY <1>2, <1>3, <1>4

(* the end of a loop,                                                      *)
LEMMA StopReach ==
    ASSUME NEW h \in HeapType, NEW s \in Socks
    PROVE  Reaches(StopLoop(h, s), h)
<1> DEFINE k == h.sock[s]
<1>1. k \in SockType
  BY HeapFields
<1>2. Stopped(k).handle = k.handle /\ Stopped(k).closed = k.closed
  <2> HIDE DEF k
  <2> QED BY <1>1, LoopFields
<1>3. Is(StopLoop(h, s), h, s, Stopped(k), h.openCount, h.tail, h.turns)
  BY StopLoopIs
<1> QED
  BY <1>2, <1>3, ReachSame

(* a turn,                                                                 *)
LEMMA TurnReach ==
    ASSUME NEW h, NEW s \in Socks, Serving(h, s, "loop")
    PROVE  Reaches(Turn(h, s, h.sock[s].handle), h)
<1> DEFINE k == h.sock[s]  id == k.handle  g == Turn(h, s, id)
<1>1. h \in HeapType /\ k \in SockType /\ id \in Nat /\ id # NoHandle
  BY Served1 DEF SockInv
<1>2. {"write", "read", "close"} \subseteq Ops /\ 0 \in Nat
  BY DEF Ops
<1>3. CASE TurnDead(h, s, id)
  <2>1. g = StopLoop(h, s)
    BY <1>3 DEF Turn, TurnDead
  <2> QED BY <1>1, <2>1, StopReach
<1>4. CASE ~TurnDead(h, s, id) /\ k.writeQ # <<>>
  <2>1. /\ Is(g, h, s, Popped(k), h.openCount,
              Append(h.tail, CallOf("write", s, id, Head(k.writeQ))), h.turns)
        /\ Head(k.writeQ) \in Nat
    BY <1>1, <1>4, TurnIs, LoopUpdates
  <2>2. Popped(k).handle = k.handle /\ Popped(k).closed = k.closed
    <3> HIDE DEF k
    <3> QED BY <1>1, LoopFields DEF Same
  <2> QED BY <1>1, <1>2, <2>1, <2>2, ReachCall
<1>5. CASE ~TurnDead(h, s, id) /\ k.writeQ = <<>> /\ ~k.wantClose
  <2>1. Is(g, h, s, k, h.openCount, Append(h.tail, CallOf("read", s, id, 0)), h.turns)
    BY <1>1, <1>5, TurnIs
  <2> QED BY <1>1, <1>2, <2>1, ReachCall
<1>6. CASE ~TurnDead(h, s, id) /\ k.writeQ = <<>> /\ k.wantClose
  <2>1. Is(g, h, s, Flushed(k), Less(h, s), Append(h.tail, CallOf("close", s, id, 0)), h.turns)
    BY <1>1, <1>6, TurnIs
  <2> QED BY <1>1, <1>2, <2>1, ReachCall
<1> QED
  BY <1>3, <1>4, <1>5, <1>6

(* the end of the peer's bytes,                                            *)
LEMMA EndedReach ==
    ASSUME NEW h, NEW s \in Socks, Serving(h, s, "loop"), ~h.sock[s].destroyed
    PROVE  Reaches(DoClose(StopLoop(h, s), s), h)
<1>1. h \in HeapType /\ h.sock[s].handle \in Nat /\ h.sock[s].handle # NoHandle
  BY Served1 DEF SockInv
<1>2. ~h.sock[s].closed
  BY EndedKeeps
<1>3. Is(DoClose(StopLoop(h, s), s), h, s, Ended(h.sock[s]), Less(h, s),
              Append(h.tail, CallOf("close", s, h.sock[s].handle, 0)), h.turns)
  BY <1>1, <1>2, EndedIs
<1>4. "close" \in Ops /\ 0 \in Nat
  BY DEF Ops
<1> QED
  BY <1>1, <1>3, <1>4, ReachCall

(* a failed read,                                                          *)
LEMMA DroppedReach ==
    ASSUME NEW h, NEW s \in Socks, Serving(h, s, "loop"), ~h.sock[s].destroyed
    PROVE  Reaches(Teardown(StopLoop(h, s), s), h)
<1>1. h \in HeapType /\ h.sock[s].handle \in Nat
  BY Served1
<1>3. Is(Teardown(StopLoop(h, s), s), h, s, Dropped(h.sock[s]), Less(h, s),
              Append(h.tail, CallOf("close", s, h.sock[s].handle, 0)), h.turns)
  BY <1>1, DroppedIs
<1>4. "close" \in Ops /\ 0 \in Nat
  BY DEF Ops
<1> QED
  BY <1>1, <1>3, <1>4, ReachCall

(* the callback of the open, with the new handle,                          *)
LEMMA OpenedReach ==
    ASSUME NEW h, NEW s \in Socks, Serving(h, s, "open"), NEW id \in Nat, id # NoHandle
    PROVE  Reaches(Opened(h, s, id), h) /\ Reach(Opened(h, s, id), id)
<1> DEFINE k == h.sock[s]  g == Opened(h, s, id)
<1>1. h \in HeapType /\ k \in SockType /\ SockInv(h, s, "open") /\ Life(k)
  BY Served1
<1>2. "close" \in Ops /\ "startTls" \in Ops /\ 0 \in Nat
  BY DEF Ops
<1>3. CASE k.destroyed
  <2>1. Is(g, h, s, Uncounted(k), Less(h, s), Append(h.tail, CallOf("close", s, id, 0)), h.turns)
    BY <1>1, <1>3, OpenedIs
  <2>2. k.closed
    BY <1>1, <1>3 DEF Life
  <2> QED BY <1>1, <1>2, <2>1, <2>2, ReachCall
<1>4. CASE ~k.destroyed
  <2> DEFINE j == Started(Attached(k, id))  t == Append(h.turns, [s |-> s, id |-> id])
  <2>1. k.handle = NoHandle /\ ~k.closed /\ ~k.loopRunning
    BY <1>4, OpeningIs
  <2>2. PICK q \in {h.tail, Append(h.tail, CallOf("startTls", s, id, 0))} :
             Is(g, h, s, j, h.openCount, q, t)
    BY <1>1, <1>4, <2>1, OpenedIs
  <2>3. Range(h.tail) \subseteq Range(q)
    <3>1. CASE q = h.tail
      BY <3>1
    <3>2. CASE q = Append(h.tail, CallOf("startTls", s, id, 0))
      BY <1>1, <1>2, <3>2, AppendedIn, Zenon
    <3> QED BY <2>2, <3>1, <3>2
  <2>4. j.handle = id /\ j.closed = k.closed
    <3> DEFINE i == Attached(k, id)
    <3>1. i \in SockType /\ i.handle = id /\ i.closed = k.closed
      <4> HIDE DEF k
      <4> QED BY <1>1, AttachUpdates
    <3> HIDE DEF i
    <3>2. j.handle = i.handle /\ j.closed = i.closed
      BY <3>1, LoopFields DEF i
    <3> QED BY <3>1, <3>2
  <2> HIDE DEF j, t, g
  <2>5. Reaches(g, h)
    BY <2>1, <2>2, <2>3, ReachStep
  <2>6. g.sock[s] = j
    BY <2>2 DEF Is
  <2>7. Reach(g, id)
    BY <2>1, <2>4, <2>6 DEF Reach
  <2> QED BY <2>5, <2>7 DEF g
<1> QED
  BY <1>3, <1>4

(* a write,                                                                *)
LEMMA AcceptReach ==
    ASSUME NEW h, NEW s \in Socks, HeapInv(h), ~h.sock[s].destroyed, ~h.sock[s].closed
    PROVE  Reaches(Accept(h, s), h)
<1> DEFINE k == h.sock[s]  g == Accept(h, s)
<1>1. h \in HeapType /\ k \in SockType /\ k.handle \in Nat /\ k.loopRunning \in BOOLEAN
  BY Idle, Served1
<1>2. /\ Waiting(k).handle = k.handle /\ Waiting(k).closed = k.closed
      /\ Queued(k).handle = k.handle /\ Queued(k).closed = k.closed /\ Queued(k) \in SockType
  <2> HIDE DEF k
  <2> QED BY <1>1, OpeningFields, AcceptUpdates DEF Same
<1>3. Started(Queued(k)).handle = k.handle /\ Started(Queued(k)).closed = k.closed
  <2> DEFINE i == Queued(k)
  <2> HIDE DEF i
  <2>1. i \in SockType /\ i.handle = k.handle /\ i.closed = k.closed
    BY <1>2 DEF i
  <2>2. Started(i).handle = i.handle /\ Started(i).closed = i.closed
    BY <2>1, LoopFields
  <2> QED BY <2>1, <2>2 DEF i
<1>4. \E j, t : Is(g, h, s, j, h.openCount, h.tail, t) /\ j.handle = k.handle /\ j.closed = k.closed
  BY <1>1, <1>2, <1>3, AcceptIs
<1> QED
  BY <1>4, ReachSame

(* a request noted,                                                        *)
LEMMA NoteReach ==
    ASSUME NEW h, NEW s \in Socks, HeapInv(h), NEW j \in Noted(h.sock[s])
    PROVE  Reaches([h EXCEPT !.sock[s] = j], h)
<1>1. h \in HeapType /\ h.sock[s] \in SockType
  BY Idle, Served1
<1>2. j \in SockType /\ Same(j, h.sock[s])
  BY <1>1, NotedFields
<1>3. Is([h EXCEPT !.sock[s] = j], h, s, j, h.openCount, h.tail, h.turns)
  BY <1>1, <1>2, SetSock
<1> QED
  BY <1>2, <1>3, ReachSame DEF Same

(* a startTls,                                                             *)
LEMMA CallReach ==
    ASSUME NEW h, NEW s \in Socks, HeapInv(h), NEW id \in Nat
    PROVE  Reaches(HostCall(h, "startTls", s, id, 0), h)
<1>1. h \in HeapType
  BY DEF HeapInv
<1>2. Is(HostCall(h, "startTls", s, id, 0), h, s, h.sock[s], h.openCount,
         Append(h.tail, CallOf("startTls", s, id, 0)), h.turns)
  BY <1>1, HostCallIs
<1>3. "startTls" \in Ops /\ 0 \in Nat
  BY DEF Ops
<1> QED
  BY <1>1, <1>2, <1>3, ReachCall

(* the callback of close,                                                  *)
LEMMA CloseCallReach ==
    ASSUME NEW h, NEW s \in Socks, Serving(h, s, "close")
    PROVE  Reaches([h EXCEPT !.sock[s] = Gone(h.sock[s])], h)
<1>1. Is([h EXCEPT !.sock[s] = Gone(h.sock[s])], h, s, Gone(h.sock[s]), h.openCount, h.tail, h.turns)
  BY CloseCallKeeps
<1>2. h.sock[s].closed
  BY Served1 DEF SockInv
<1> QED
  BY <1>1, <1>2, ReachSame

(* and an open queued.                                                     *)
LEMMA ConnectReach ==
    ASSUME NEW h, NEW s \in Socks, h \in HeapType, h.sock[s].handle = NoHandle
    PROVE  Reaches(Dialled(h, s), h)
<1>1. Is(Dialled(h, s), h, s, Connecting(h.sock[s]), h.openCount + 1,
              Append(h.tail, CallOf("open", s, NoHandle, 0)), h.turns)
  BY DialledIs
<1>2. "open" \in Ops /\ NoHandle \in Nat /\ 0 \in Nat
  BY DEF Ops, NoHandle
<1> QED
  BY <1>1, <1>2, ReachCall

(* Two steps.                                                              *)
LEMMA ReachesTrans ==
    ASSUME NEW f, NEW g, NEW h, Reaches(f, g), Reaches(g, h)
    PROVE  Reaches(f, h)
  BY DEF Reaches

-----------------------------------------------------------------------------
(* Without upgrades a host socket never gets out of reach.                 *)
Conns ==
    /\ conn \in Seq(ConnType)
    /\ \A id \in DOMAIN table : table[id].c \in 1..Len(conn)
ReachInv ==
    /\ Conns
    /\ HeapInv(net) /\ HeapInv(netSaved)
    /\ parked => net.tail # <<>>
    /\ nextId \in Nat \ {NoHandle}
    /\ \A id \in DOMAIN table : id # NoHandle /\ table[id].mode # "starttls" /\ Reach(net, id)

(* The socket before it is connected.                                      *)
LEMMA BlankSocket ==
    /\ Socket \in SockType
    /\ Socket.handle = NoHandle /\ ~Socket.connecting /\ ~Socket.destroyed /\ ~Socket.closed
    /\ ~Socket.counted /\ ~Socket.loopRunning /\ ~Socket.flushed /\ Socket.mode = "off"
    /\ ~Socket.allowHalfOpen /\ Socket.preQ = <<>> /\ Socket.written = 0 /\ Socket.rx = <<>>
  BY DEF Socket, SockType, NoHandle

(* The first heap.                                                         *)
LEMMA FirstHeap ==
    ASSUME SocketsInit
    PROVE  HeapInv(net)
<1> DEFINE f == [s \in Socks |-> Socket]
<1>1. net = [sock |-> f, openCount |-> 0, tail |-> <<>>, turns |-> <<>>]
  BY DEF SocketsInit
<1>2. f \in [Socks -> SockType]
  BY BlankSocket
<1>3. \A s \in Socks : f[s] = Socket
  OBVIOUS
<1> HIDE DEF f
<1>4. net \in HeapType /\ net.sock = f /\ net.openCount = 0 /\ net.tail = <<>> /\ net.turns = <<>>
  BY <1>1, <1>2 DEF HeapType
<1>5. CountInv(net)
  <2>1. Counted(net) = {}
    BY <1>3, <1>4, BlankSocket DEF Counted
  <2> QED BY <1>4, <2>1, FS_EmptySet DEF CountInv
<1>6. \A K : ~In(<<>>, K) /\ Solo(<<>>, K) /\ \A id : Bears(<<>>, K, id)
  BY DEF In, Solo, Bears, Range
<1>7. Life(Socket)
  <2>1. From1(<<>>, 0) /\ Len(<<>>) = 0
    BY DEF From1
  <2> HIDE DEF f
  <2> DEFINE k == Socket
  <2>2. /\ k.handle = NoHandle /\ ~k.connecting /\ ~k.destroyed /\ ~k.closed
        /\ ~k.counted /\ ~k.loopRunning /\ ~k.flushed /\ k.mode = "off"
        /\ ~k.allowHalfOpen /\ k.preQ = <<>> /\ k.written = 0 /\ k.rx = <<>>
    BY BlankSocket
  <2> HIDE DEF k
  <2>3. Life(k)
    BY <2>1, <2>2 DEF Life
  <2> QED BY <2>3 DEF k
<1>8. ASSUME NEW s \in Socks PROVE SockInv(net, s, "none")
  BY <1>3, <1>4, <1>6, <1>7, BlankSocket DEF SockInv, Looping, Alone
<1> QED
  BY <1>4, <1>5, <1>8 DEF HeapInv

(* The invariant holds at the start.                                       *)
LEMMA ReachBegins ==
    ASSUME SocketsInit
    PROVE  ReachInv
<1>1. HeapInv(net) /\ netSaved = net /\ ~parked /\ nextId = 1 /\ table = NoTable
      /\ conn = <<>>
  BY FirstHeap DEF SocketsInit
<1>2. DOMAIN table = {}
  BY <1>1 DEF NoTable
<1> QED
  BY <1>1, <1>2 DEF ReachInv, NoHandle, Conns

(* Steps of the VM, and answers of the host.                               *)
LEMMA VmKeepsReach ==
    ASSUME ReachInv, HeapInv(net'), Reaches(net', net), parked' => net'.tail # <<>>,
           UNCHANGED <<table, nextId, conn, netSaved>>
    PROVE  ReachInv'
  BY DEF ReachInv, Conns, Reaches, Reach

(* The call under way, by its kind.                                        *)
LEMMA ServingCall ==
    ASSUME HeapInv(net), net.tail # <<>>
    PROVE  /\ Call \in CallType /\ Call.s \in Socks /\ Call.id \in Nat /\ Call.unit \in Nat
           /\ Resumed.sock = net.sock /\ Resumed.turns = net.turns
           /\ Range(net.tail) = {Call} \cup Range(Resumed.tail)
           /\ Call.op = "open" => Serving(Resumed, Call.s, "open")
           /\ Call.op = "close" => Serving(Resumed, Call.s, "close")
           /\ Call.op = "startTls" => HeapInv(Resumed)
           /\ Call.op \in {"read", "write"} =>
                 /\ Serving(Resumed, Call.s, "loop") /\ ~In(Resumed.tail, Loops(Call.s))
                 /\ Call.id = Resumed.sock[Call.s].handle /\ Call.id # NoHandle
<1>1. /\ Call \in CallType /\ Call.s \in Socks /\ Call.id \in Nat /\ Call.unit \in Nat
      /\ Resumed.sock = net.sock /\ Resumed.turns = net.turns
      /\ Range(net.tail) = {Call} \cup Range(Resumed.tail)
      /\ Call.op \in {"read", "write"} =>
            Call.id = net.sock[Call.s].handle /\ Call.id # NoHandle /\ ~In(Resumed.tail, Loops(Call.s))
      /\ Serving(Resumed, Call.s, HandOf(Call.op))
  BY CallPops DEF Call, Resumed
<1>2. ASSUME Call.op = "startTls" PROVE HeapInv(Resumed)
  <2>1. HeapInv(Resumed) <=> \A s \in Socks : SockInv(Resumed, s, "none") /\ Resumed \in HeapType /\ CountInv(Resumed)
    BY <1>1 DEF HeapInv
  <2>2. \A s \in Socks : SockInv(Resumed, s, IF s = Call.s THEN "startTls" ELSE "none")
        /\ Resumed \in HeapType /\ CountInv(Resumed)
    BY <1>1, <1>2 DEF Serving, HandOf
  <2>3. \A s \in Socks : SockInv(Resumed, s, "startTls") => SockInv(Resumed, s, "none")
    BY DEF SockInv
  <2> QED BY <2>1, <2>2, <2>3
<1> QED
  BY <1>1, <1>2 DEF HandOf

(* A step of the host that drops a handle only with its close, or adds one *)
(* in reach.                                                               *)
LEMMA ServeKeepsReach ==
    ASSUME ReachInv, Conns', parked, ~parked', netSaved' = netSaved, HeapInv(net'), Reaches(net', Resumed),
           nextId' \in Nat \ {NoHandle},
           \A id \in DOMAIN table' :
              \/ id \in DOMAIN table /\ table'[id].mode = table[id].mode
                 /\ (Call.op = "close" => id # Call.id)
              \/ id # NoHandle /\ table'[id].mode # "starttls" /\ Reach(net', id)
    PROVE  ReachInv'
<1>1. HeapInv(net) /\ net.tail # <<>>
  BY DEF ReachInv
<1>2. Resumed.sock = net.sock /\ Range(net.tail) = {Call} \cup Range(Resumed.tail)
  BY <1>1, ServingCall
<1>3. \A id \in DOMAIN table : (Call.op = "close" => id # Call.id) => Reach(Resumed, id)
  BY <1>2 DEF ReachInv, Reach
<1>4. \A id \in DOMAIN table' : id # NoHandle /\ table'[id].mode # "starttls" /\ Reach(net', id)
  BY <1>3 DEF ReachInv, Reaches
<1> QED
  BY <1>4 DEF ReachInv, Reach

(* What a cell does.                                                       *)
LEMMA EditKeepsReach ==
    ASSUME ReachInv, NEW h, Edit(h), HeapInv(h), Reaches(h, net)
    PROVE  ReachInv'
  BY VmKeepsReach DEF Edit

(* net.connect.                                                            *)
LEMMA ConnectKeepsReach ==
    ASSUME ReachInv, "starttls" \notin Modes,
           NEW s \in Socks, NEW m \in Modes, NEW half \in HalfOpen, Connect(s, m, half)
    PROVE  ReachInv'
<1> DEFINE h == [net EXCEPT !.sock[s].mode = m, !.sock[s].allowHalfOpen = half]
           k == net.sock[s]
<1>1. HeapInv(net) /\ ~k.connecting /\ k.handle = NoHandle /\ m # "starttls"
      /\ HalfOpen \subseteq BOOLEAN /\ k \in SockType
  BY Idle, Served1, SocketsAssumption DEF ReachInv, Connect, Created
<1>2. HeapInv(h) /\ Is(h, net, s, Configured(k, m, half), net.openCount, net.tail, net.turns)
  BY <1>1, ConfigureKeeps
<1>3. Edit(IF h.openCount >= MAX_SOCKETS THEN Fail(h, s) ELSE Dialled(h, s))
  BY DEF Connect, Dialled
<1>4. /\ Configured(k, m, half).handle = NoHandle
      /\ Configured(k, m, half).connecting = k.connecting
      /\ Configured(k, m, half).closed = k.closed
  <2> HIDE DEF k
  <2> QED BY <1>1, ConfiguredFields
<1> HIDE DEF h
<1>5. h \in HeapType /\ h.sock[s].handle = NoHandle /\ ~h.sock[s].connecting
  BY <1>1, <1>2, <1>4 DEF Is
<1>6. Reaches(h, net)
  BY <1>1, <1>2, ReachSame
<1>7. CASE h.openCount >= MAX_SOCKETS
  <2>1. HeapInv(Fail(h, s)) /\ Reaches(Fail(h, s), h)
    BY <1>2, <1>5, Idle, FailKeeps, FailReach
  <2> QED BY <1>3, <1>6, <1>7, <2>1, ReachesTrans, EditKeepsReach
<1>8. CASE ~(h.openCount >= MAX_SOCKETS)
  <2>1. HeapInv(Dialled(h, s)) /\ Reaches(Dialled(h, s), h)
    BY <1>2, <1>5, DialledKeeps, ConnectReach
  <2> QED BY <1>3, <1>6, <1>8, <2>1, ReachesTrans, EditKeepsReach
<1> QED
  BY <1>7, <1>8

(* A request that is only noted, as the code writes it.                    *)
Notes(h, s) ==
    {[h EXCEPT !.sock[s].endAfterFlush = TRUE], [h EXCEPT !.sock[s].wantClose = TRUE],
     [h EXCEPT !.sock[s].upgrade = TRUE]}

(* Both ways to write the request down.                                    *)
LEMMA NoteIs ==
    ASSUME NEW h, NEW s \in Socks, HeapInv(h), NEW g \in Notes(h, s)
    PROVE  \E j \in Noted(h.sock[s]) : g = [h EXCEPT !.sock[s] = j]
<1> DEFINE k == h.sock[s]
<1>1. /\ [h EXCEPT !.sock[s].endAfterFlush = TRUE] = [h EXCEPT !.sock[s] = [k EXCEPT !.endAfterFlush = TRUE]]
      /\ [h EXCEPT !.sock[s].wantClose = TRUE] = [h EXCEPT !.sock[s] = [k EXCEPT !.wantClose = TRUE]]
      /\ [h EXCEPT !.sock[s].upgrade = TRUE] = [h EXCEPT !.sock[s] = [k EXCEPT !.upgrade = TRUE]]
  BY DEF HeapInv, HeapType
<1> QED
  BY <1>1 DEF Noted, Notes

(* A request noted.                                                        *)
LEMMA NoteSafe ==
    ASSUME NEW h, NEW s \in Socks, HeapInv(h),
           NEW g \in Notes(h, s)
    PROVE  HeapInv(g) /\ Reaches(g, h)
<1>1. PICK j \in Noted(h.sock[s]) : g = [h EXCEPT !.sock[s] = j]
  BY NoteIs
<1> QED
  BY <1>1, NoteKeeps, NoteReach

(* write, end, destroy and tls.connect.                                    *)
LEMMA CellKeepsReach ==
    ASSUME ReachInv, NEW s \in Socks,
           Write(s) \/ End(s) \/ EndWith(s) \/ DestroySocket(s) \/ TlsConnect(s)
    PROVE  ReachInv'
<1> DEFINE k == net.sock[s]
<1>1. HeapInv(net) /\ k.handle \in Nat /\ k \in SockType
  BY Idle, Served1 DEF ReachInv
<1>2. CASE Write(s)
  <2>1. Edit(Accept(net, s)) /\ ~k.destroyed /\ ~k.closed
    BY <1>2 DEF Write, Writable
  <2> QED BY <1>1, <2>1, AcceptKeeps, AcceptReach, EditKeepsReach
<1>3. CASE End(s)
  <2>1. Edit(IF k.connecting THEN [net EXCEPT !.sock[s].endAfterFlush = TRUE]
             ELSE IF k.loopRunning THEN [net EXCEPT !.sock[s].wantClose = TRUE]
             ELSE DoClose(net, s))
    BY <1>3 DEF End
  <2>2. k.connecting \/ k.handle # NoHandle
    BY <1>3 DEF End, Created
  <2>3. CASE k.connecting \/ k.loopRunning
    <3>1. PICK g \in Notes(net, s) : Edit(g)
      BY <2>1, <2>3 DEF Notes
    <3> QED BY <1>1, <3>1, NoteSafe, EditKeepsReach
  <2>4. CASE ~k.connecting /\ ~k.loopRunning
    BY <1>1, <2>1, <2>2, <2>4, DoCloseKeeps, DoCloseReach, EditKeepsReach
  <2> QED BY <2>3, <2>4
<1>4. CASE EndWith(s)
  <2> DEFINE h == Accept(net, s)
  <2>1. ~k.destroyed /\ ~k.closed
    BY <1>4 DEF EndWith, Writable
  <2>2. HeapInv(h) /\ Reaches(h, net)
    BY <1>1, <2>1, AcceptKeeps, AcceptReach
  <2>3. \E g \in Notes(h, s) : Edit(g)
    BY <1>4 DEF EndWith, Notes
  <2> HIDE DEF h
  <2>4. PICK g \in Notes(h, s) : Edit(g)
    BY <2>3
  <2> QED BY <2>2, <2>4, NoteSafe, ReachesTrans, EditKeepsReach
<1>5. CASE DestroySocket(s)
  BY <1>1, <1>5, DestroyKeeps, DestroyReach, EditKeepsReach DEF DestroySocket
<1>6. CASE TlsConnect(s)
  <2>1. Edit(IF k.handle # NoHandle THEN HostCall(net, "startTls", s, k.handle, 0)
             ELSE [net EXCEPT !.sock[s].upgrade = TRUE])
    BY <1>6 DEF TlsConnect
  <2>2. CASE k.handle # NoHandle
    BY <1>1, <2>1, <2>2, CallKeeps, CallReach, EditKeepsReach
  <2>3. CASE k.handle = NoHandle
    <3>1. PICK g \in Notes(net, s) : Edit(g)
      BY <2>1, <2>3 DEF Notes
    <3> QED BY <1>1, <3>1, NoteSafe, EditKeepsReach
  <2> QED BY <2>2, <2>3
<1> QED
  BY <1>2, <1>3, <1>4, <1>5, <1>6

(* A turn, and the engine's slot.                                          *)
LEMMA LoopKeepsReach ==
    ASSUME ReachInv, LoopTurn \/ Park
    PROVE  ReachInv'
<1>1. CASE LoopTurn
  <2> DEFINE t == Head(net.turns)  h == [net EXCEPT !.turns = Tail(@)]
  <2>1. /\ net.turns # <<>> /\ net' = Turn(h, t.s, t.id) /\ ~parked'
        /\ UNCHANGED <<table, nextId, conn, netSaved>>
    BY <1>1 DEF LoopTurn
  <2>2. /\ t.s \in Socks /\ t.id = h.sock[t.s].handle /\ Serving(h, t.s, "loop")
        /\ h.sock = net.sock /\ h.tail = net.tail
    BY <2>1, TurnPops DEF ReachInv
  <2> HIDE DEF t, h
  <2>3. HeapInv(net') /\ Reaches(net', h)
    BY <2>1, <2>2, TurnKeeps, TurnReach
  <2>4. Reaches(net', net)
    BY <2>2, <2>3 DEF Reaches, Reach
  <2> QED BY <2>1, <2>3, <2>4, VmKeepsReach
<1>2. CASE Park
  <2>1. HeapInv(net') /\ Reaches(net', net) /\ net'.tail # <<>> /\ UNCHANGED <<table, nextId, conn, netSaved>>
    BY <1>2 DEF Park, ReachInv, Reaches, HeapInv
  <2> QED BY <2>1, VmKeepsReach
<1> QED
  BY <1>1, <1>2

(* What serving a call entails.                                            *)
LEMMA ServeIs ==
    ASSUME ReachInv, NEW op, Serve(op)
    PROVE  parked /\ ~parked' /\ Call.op = op /\ netSaved' = netSaved /\ HeapInv(net) /\ net.tail # <<>>
           /\ nextId \in Nat \ {NoHandle}
  BY DEF ReachInv, Serve

(* The table without a handle.                                             *)
LEMMA WithoutIs ==
    ASSUME NEW id
    PROVE  /\ DOMAIN Without(id) = DOMAIN table \ {id}
           /\ \A i \in DOMAIN Without(id) : Without(id)[i] = table[i]
  BY DEF Without

(* What the host does to its connections.                                  *)
LEMMA ConnsSame ==
    ASSUME Conns, UNCHANGED conn, DOMAIN table' \subseteq DOMAIN table,
           \A id \in DOMAIN table' : table'[id] = table[id]
    PROVE  Conns'
  BY DEF Conns

(* One of them changes.                                                    *)
LEMMA ConnsUpdate ==
    ASSUME Conns, NEW c \in 1..Len(conn), NEW k \in ConnType, conn' = [conn EXCEPT ![c] = k],
           DOMAIN table' \subseteq DOMAIN table,
           \A id \in DOMAIN table' : table'[id] = table[id]
    PROVE  /\ Conns' /\ Len(conn') = Len(conn) /\ conn'[c] = k
           /\ \A i \in 1..Len(conn) : i # c => conn'[i] = conn[i]
<1>1. conn \in Seq(ConnType)
  BY DEF Conns
<1>2. /\ conn' \in Seq(ConnType) /\ Len(conn') = Len(conn) /\ conn'[c] = k
      /\ \A i \in 1..Len(conn) : i # c => conn'[i] = conn[i]
  BY <1>1
<1> QED
  BY <1>2 DEF Conns

Fresh(s) == [owner |-> s, got |-> <<>>, inbox |-> <<>>, pending |-> 0, read |-> 0, sends |-> 0,
             fin |-> FALSE, up |-> TRUE]

(* One more.                                                               *)
LEMMA ConnsOpen ==
    ASSUME Conns, NEW s \in Socks, conn' = Append(conn, Fresh(s)), NEW e,
           e.c = Len(conn) + 1, DOMAIN table' = DOMAIN table \cup {nextId},
           \A id \in DOMAIN table : id # nextId => table'[id] = table[id], table'[nextId] = e
    PROVE  /\ Conns' /\ Len(conn') = Len(conn) + 1 /\ Len(conn) \in Nat
           /\ conn'[Len(conn) + 1] = Fresh(s)
           /\ \A i \in 1..Len(conn) : conn'[i] = conn[i]
<1> DEFINE k == Fresh(s)  n == Len(conn)
<1>1. k \in ConnType
  BY DEF Fresh, ConnType
<1> HIDE DEF k
<1>2. conn \in Seq(ConnType) /\ conn' = Append(conn, k)
  BY DEF Conns, k
<1>3. /\ conn' \in Seq(ConnType) /\ Len(conn') = n + 1 /\ n \in Nat /\ conn'[n + 1] = k
      /\ \A i \in 1..n : conn'[i] = conn[i]
  BY <1>1, <1>2
<1> HIDE DEF n
<1>4. \A id \in DOMAIN table : table[id].c \in 1..n
  BY DEF Conns, n
<1>5. \A id \in DOMAIN table' : table'[id].c \in 1..(n + 1)
  <2>1. 1..n \subseteq 1..(n + 1) /\ n + 1 \in 1..(n + 1)
    BY <1>3
  <2>2. e.c = n + 1
    BY DEF n
  <2> QED BY <1>4, <2>1, <2>2
<1> QED
  BY <1>3, <1>5 DEF Conns, k, n

Read1(k) == [k EXCEPT !.inbox = IF k.pending > 0 THEN @ ELSE Tail(@),
                      !.pending = IF k.pending > 0 THEN @ - 1 ELSE Head(k.inbox) - 1,
                      !.read = @ + 1]
(* A unit read.                                                            *)
LEMMA Read1Is ==
    ASSUME NEW k \in ConnType, k.pending > 0 \/ k.inbox # <<>>
    PROVE  LET j == Read1(k) IN
           /\ j \in ConnType /\ j.read = k.read + 1 /\ j.got = k.got /\ j.owner = k.owner /\ j.up = k.up
<1> DEFINE q == IF k.pending > 0 THEN k.inbox ELSE Tail(k.inbox)
           p == IF k.pending > 0 THEN k.pending - 1 ELSE Head(k.inbox) - 1
           r == k.read + 1
<1>1. q \in Seq(Nat \ {0}) /\ p \in Nat /\ r \in Nat
  <2>1. k.inbox \in Seq(Nat \ {0}) /\ k.pending \in Nat /\ k.read \in Nat
    BY DEF ConnType
  <2>2. CASE k.pending > 0
    BY <2>1, <2>2
  <2>3. CASE ~(k.pending > 0)
    <3>1. Head(k.inbox) \in Nat \ {0} /\ Tail(k.inbox) \in Seq(Nat \ {0})
      BY <2>1, <2>3
    <3> QED BY <2>1, <2>3, <3>1
  <2> QED BY <2>2, <2>3
<1>2. Read1(k) = [k EXCEPT !.inbox = q, !.pending = p, !.read = r]
  BY DEF Read1
<1> DEFINE j == Read1(k)
<1> HIDE DEF q, p, r, j
<1>3. j = [k EXCEPT !.inbox = q, !.pending = p, !.read = r]
  BY <1>2 DEF j
<1>4. j \in ConnType /\ j.read = r /\ j.got = k.got /\ j.owner = k.owner /\ j.up = k.up
  BY <1>1, <1>3 DEF ConnType
<1> QED
  BY <1>4 DEF j, r

(* The host's read changes one connection.                                 *)
LEMMA ChunkIs ==
    ASSUME conn \in Seq(ConnType), NEW c \in 1..Len(conn)
    PROVE  Chunk(c) = [conn EXCEPT ![c] = Read1(conn[c])]
<1> DEFINE k == conn[c]
<1>1. k \in ConnType
  OBVIOUS
<1> QED
  BY <1>1 DEF Chunk, Read1, ConnType

(* The host opens, or fails to.                                            *)
LEMMA OpenKeepsReach ==
    ASSUME ReachInv, OpenFails \/ Open
    PROVE  ReachInv'
<1> DEFINE s == Call.s  h == Resumed
<1>1. Serve("open")
  BY DEF OpenFails, Open
<1>2. /\ parked /\ ~parked' /\ Call.op = "open" /\ netSaved' = netSaved /\ HeapInv(net)
      /\ net.tail # <<>> /\ nextId \in Nat \ {NoHandle} /\ Conns
  BY <1>1, ServeIs DEF ReachInv
<1>3. s \in Socks /\ Serving(h, s, "open") /\ h.sock = net.sock
  BY <1>2, ServingCall
<1> HIDE DEF s, h
<1>4. CASE net' = Fail(h, s) /\ UNCHANGED <<table, nextId, conn>>
  <2>1. HeapInv(net') /\ Reaches(net', h)
    BY <1>3, <1>4, FailKeeps, FailReach
  <2>2. \A id \in DOMAIN table' : id \in DOMAIN table /\ table'[id].mode = table[id].mode
    BY <1>4
  <2>3. Conns'
    BY <1>2, <1>4, ConnsSame
  <2> QED BY <1>2, <1>4, <2>1, <2>2, <2>3, ServeKeepsReach DEF h
<1>5. CASE /\ table' = WithEntry(table, nextId, [c |-> Len(conn) + 1, mode |-> net.sock[s].mode])
           /\ nextId' = nextId + 1
           /\ conn' = Append(conn, Fresh(s))
           /\ net' = Opened(h, s, nextId)
  <2>1. HeapInv(net') /\ Reaches(net', h) /\ Reach(net', nextId)
    BY <1>2, <1>3, <1>5, OpenedKeeps, OpenedReach
  <2>2. net.sock[s].mode # "starttls"
    BY <1>3, Served1 DEF Life
  <2> DEFINE e == [c |-> Len(conn) + 1, mode |-> net.sock[s].mode]
  <2>3. e.mode # "starttls" /\ e.c = Len(conn) + 1
    BY <2>2
  <2> HIDE DEF e
  <2>4. /\ DOMAIN table' = DOMAIN table \cup {nextId}
        /\ \A id \in DOMAIN table : id # nextId => table'[id] = table[id]
        /\ table'[nextId] = e
    BY <1>5 DEF e, WithEntry
  <2>5. \A id \in DOMAIN table' :
              \/ id \in DOMAIN table /\ table'[id].mode = table[id].mode
              \/ id # NoHandle /\ table'[id].mode # "starttls" /\ Reach(net', id)
    BY <1>2, <2>1, <2>3, <2>4
  <2>6. nextId' \in Nat \ {NoHandle}
    BY <1>2, <1>5 DEF NoHandle
  <2>7. Conns'
    BY <1>2, <1>3, <1>5, <2>3, <2>4, ConnsOpen
  <2>8. Call.op # "close"
    BY <1>2
  <2> QED BY <1>2, <2>1, <2>5, <2>6, <2>7, <2>8, ServeKeepsReach DEF h
<1> QED
  BY <1>4, <1>5 DEF OpenFails, Open, s, h, Fresh

(* What a write or a read does to the connection.                          *)
LEMMA TransferConns ==
    ASSUME ReachInv, WriteCall \/ ReadData
    PROVE  Conns'
<1> DEFINE s == Call.s  id == Call.id  c == table[id].c
<1>1. Serve("write") \/ Serve("read")
  BY DEF WriteCall, ReadData
<1>2. Conns /\ HeapInv(net) /\ net.tail # <<>> /\ conn \in Seq(ConnType)
  BY <1>1, ServeIs DEF ReachInv, Conns
<1>3. s \in Socks /\ Call.unit \in Nat
  BY <1>2, ServingCall
<1>4. UNCHANGED table
  BY DEF WriteCall, ReadData
<1>5. CASE conn' = conn
  BY <1>2, <1>4, <1>5, ConnsSame
<1>6. CASE WriteCall /\ Live(id)
  <2>1. c \in 1..Len(conn)
    BY <1>2, <1>6 DEF Conns, Live
  <2> DEFINE k == conn[c]  u == <<s, Call.unit>>  j == [k EXCEPT !.got = Append(k.got, u)]
  <2>2. k \in ConnType
    BY <1>2, <2>1
  <2>3. u \in Nat \X Nat
    BY <1>3, SocketsAssumption
  <2>4. j \in ConnType
    <3> HIDE DEF u, k
    <3>1. k.got \in Seq(Nat \X Nat)
      BY <2>2 DEF ConnType
    <3>2. Append(k.got, u) \in Seq(Nat \X Nat)
      BY <2>3, <3>1
    <3> DEFINE q == Append(k.got, u)
    <3> HIDE DEF q
    <3>3. [k EXCEPT !.got = q] \in ConnType
      BY <2>2, <3>2 DEF ConnType, q
    <3> QED BY <3>3 DEF q
  <2>5. CASE conn' = [conn EXCEPT ![c] = j]
    BY <1>2, <1>4, <2>1, <2>4, <2>5, ConnsUpdate
  <2>6. conn' = conn \/ conn' = [conn EXCEPT ![c] = j]
    BY <1>6 DEF WriteCall
  <2> QED BY <1>5, <2>5, <2>6
<1>7. CASE WriteCall /\ ~Live(id)
  BY <1>5, <1>7 DEF WriteCall
<1>8. CASE ReadData
  <2>1. c \in 1..Len(conn)
    BY <1>2, <1>8 DEF Conns, Live, ReadData
  <2> DEFINE k == conn[c]
  <2>2. k \in ConnType /\ (k.pending > 0 \/ k.inbox # <<>>)
    BY <1>2, <1>8, <2>1 DEF ReadData, ConnOf
  <2>3. Read1(k) \in ConnType
    BY <2>2, Read1Is
  <2>4. conn' = [conn EXCEPT ![c] = Read1(k)]
    BY <1>2, <1>8, <2>1, ChunkIs DEF ReadData
  <2> QED BY <1>2, <1>4, <2>1, <2>3, <2>4, ConnsUpdate
<1> QED
  BY <1>6, <1>7, <1>8

(* The host writes or reads a unit.                                        *)
LEMMA TransferKeepsReach ==
    ASSUME ReachInv, WriteCall \/ ReadData
    PROVE  ReachInv'
<1> DEFINE s == Call.s  h == Resumed  id == Call.id
<1>1. Serve("write") \/ Serve("read")
  BY DEF WriteCall, ReadData
<1>2. /\ parked /\ ~parked' /\ Call.op \in {"read", "write"} /\ netSaved' = netSaved /\ HeapInv(net)
      /\ net.tail # <<>> /\ nextId \in Nat \ {NoHandle} /\ Call.op # "close" /\ Conns
  BY <1>1, ServeIs DEF ReachInv
<1>3. s \in Socks /\ Serving(h, s, "loop") /\ id = h.sock[s].handle /\ id # NoHandle
  BY <1>2, ServingCall
<1>4. UNCHANGED <<table, nextId>>
  BY DEF WriteCall, ReadData
<1>5. \A i \in DOMAIN table' : i \in DOMAIN table /\ table'[i].mode = table[i].mode
  BY <1>4
<1>6. h \in HeapType /\ h.sock[s] \in SockType /\ Life(h.sock[s])
  BY <1>3, Served1
<1>0. Conns'
  BY TransferConns
<1> SUFFICES HeapInv(net') /\ Reaches(net', h)
  BY <1>0, <1>2, <1>4, <1>5, ServeKeepsReach
<1>7. CASE ~Bound(h, s, id)
  <2>1. h.sock[s].destroyed /\ h.sock[s].closed
    BY <1>3, <1>6, <1>7 DEF Bound, Life
  <2>2. net' = StopLoop(h, s)
    BY <1>7 DEF WriteCall, ReadData
  <2> QED BY <1>3, <1>6, <2>1, <2>2, StopKeeps, StopReach
<1>8. CASE Bound(h, s, id) /\ WriteCall
  <2>1. net' = Turn(h, s, id)
    BY <1>8 DEF WriteCall
  <2> QED BY <1>3, <2>1, TurnKeeps, TurnReach
<1>9. CASE Bound(h, s, id) /\ ReadData
  <2> DEFINE k == h.sock[s]  c == table[id].c
             u == <<c, conn'[c].read>>
             g == [h EXCEPT !.sock[s].rx = Append(@, u)]
             q == Append(k.rx, u)
             j == [k EXCEPT !.rx = q]
  <2>1. net' = Turn(g, s, id)
    BY <1>9 DEF ReadData
  <2>2. g = [h EXCEPT !.sock[s] = j]
    BY <1>6 DEF HeapType
  <2>3. u \in Nat \X Nat
    <3>1. c \in 1..Len(conn) /\ c \in Nat /\ conn'[c] \in ConnType
      BY <1>0, <1>2, <1>4, <1>9 DEF ReadData, Live, Conns
    <3> QED BY <3>1 DEF ConnType
  <2> HIDE DEF k, u, g
  <2>4. q \in Seq(Nat \X Nat)
    BY <1>6, <2>3 DEF SockType, k
  <2> HIDE DEF q
  <2>5. j \in SockType /\ Same(j, k) /\ j.handle = id
    BY <1>3, <1>6, <2>4 DEF SockType, Same, k
  <2> HIDE DEF j
  <2>6. Serving(g, s, "loop")
    BY <1>3, <2>2, <2>5, EditKeeps DEF k
  <2>7. Is(g, h, s, j, h.openCount, h.tail, h.turns)
    BY <1>6, <2>2, <2>5, SetSock, <1>3
  <2>8. Reaches(g, h) /\ g.sock[s].handle = id
    BY <1>3, <2>5, <2>7, ReachSame DEF Same, k, Is
  <2>9. HeapInv(net') /\ Reaches(net', g)
    BY <1>3, <2>1, <2>6, <2>8, TurnKeeps, TurnReach
  <2> QED BY <2>8, <2>9, ReachesTrans
<1> QED
  BY <1>7, <1>8, <1>9

(* The host's read ends or fails.                                          *)
LEMMA ReadEndKeepsReach ==
    ASSUME ReachInv, ReadDone \/ ReadFails
    PROVE  ReachInv'
<1> DEFINE s == Call.s  h == Resumed  id == Call.id
<1>1. Serve("read")
  BY DEF ReadDone, ReadFails
<1>2. /\ parked /\ ~parked' /\ Call.op = "read" /\ netSaved' = netSaved /\ HeapInv(net)
      /\ net.tail # <<>> /\ nextId \in Nat \ {NoHandle} /\ Conns
  BY <1>1, ServeIs DEF ReachInv
<1>3. s \in Socks /\ Serving(h, s, "loop") /\ id = h.sock[s].handle /\ id # NoHandle
  BY <1>2, ServingCall
<1>4. nextId' = nextId /\ table' = Without(id)
  BY DEF ReadDone, ReadFails
<1>5. DOMAIN table' \subseteq DOMAIN table /\ \A i \in DOMAIN table' : table'[i] = table[i]
  BY <1>4, WithoutIs
<1>6. h \in HeapType /\ h.sock[s] \in SockType /\ Life(h.sock[s])
  BY <1>3, Served1
<1>7. Conns'
  <2>1. CASE UNCHANGED conn
    BY <1>2, <1>5, <2>1, ConnsSame
  <2>2. CASE ReadDone
    <3> DEFINE c == table[id].c  k == conn[c]
    <3>1. c \in 1..Len(conn) /\ k \in ConnType
      BY <1>2, <2>2 DEF Conns, Live, ReadDone
    <3>2. [k EXCEPT !.up = FALSE] \in ConnType
      BY <3>1 DEF ConnType
    <3>3. conn' = [conn EXCEPT ![c] = [k EXCEPT !.up = FALSE]]
      BY <2>2 DEF ReadDone
    <3> QED BY <1>2, <1>5, <3>1, <3>2, <3>3, ConnsUpdate
  <2> QED BY <2>1, <2>2 DEF ReadFails
<1> SUFFICES HeapInv(net') /\ Reaches(net', h)
  <2>1. \A i \in DOMAIN table' : i \in DOMAIN table /\ table'[i].mode = table[i].mode
    BY <1>5
  <2>2. Call.op # "close"
    BY <1>2
  <2> QED BY <1>2, <1>4, <1>7, <2>1, <2>2, ServeKeepsReach
<1>8. CASE ~Bound(h, s, id)
  <2>1. h.sock[s].destroyed /\ h.sock[s].closed
    BY <1>3, <1>6, <1>8 DEF Bound, Life
  <2>2. net' = StopLoop(h, s)
    BY <1>8 DEF ReadDone, ReadFails
  <2> QED BY <1>3, <1>6, <2>1, <2>2, StopKeeps, StopReach
<1>9. CASE Bound(h, s, id) /\ ReadFails
  <2>1. net' = Teardown(StopLoop(h, s), s) /\ ~h.sock[s].destroyed
    BY <1>9 DEF ReadFails, Bound
  <2> QED BY <1>3, <2>1, DroppedKeeps, DroppedReach
<1>10. CASE Bound(h, s, id) /\ ReadDone
  <2>0. ~h.sock[s].destroyed
    BY <1>10 DEF Bound
  <2>1. StopLoop(h, s).sock[s].allowHalfOpen = h.sock[s].allowHalfOpen
    <3>1. StopLoop(h, s).sock[s] = Stopped(h.sock[s])
      BY <1>3, <1>6, StopLoopIs DEF Is
    <3> QED BY <1>6, <3>1, LoopFields
  <2>2. CASE h.sock[s].allowHalfOpen
    <3>1. net' = StopLoop(h, s)
      BY <1>10, <2>1, <2>2 DEF ReadDone
    <3> QED BY <1>3, <1>6, <2>2, <3>1, StopKeeps, StopReach
  <2>3. CASE ~h.sock[s].allowHalfOpen
    <3>1. net' = DoClose(StopLoop(h, s), s)
      BY <1>10, <2>1, <2>3 DEF ReadDone
    <3> QED BY <1>3, <2>0, <3>1, EndedKeeps, EndedReach
  <2> QED BY <2>2, <2>3
<1> QED
  BY <1>8, <1>9, <1>10

(* startTls on a socket that is not waiting for it destroys it.            *)
LEMMA TlsKeepsReach ==
    ASSUME ReachInv, StartTls
    PROVE  ReachInv'
<1> DEFINE s == Call.s  h == Resumed  id == Call.id
<1>1. Serve("startTls") /\ UNCHANGED conn
  BY DEF StartTls
<1>2. /\ parked /\ ~parked' /\ Call.op = "startTls" /\ netSaved' = netSaved /\ HeapInv(net)
      /\ net.tail # <<>> /\ nextId \in Nat \ {NoHandle} /\ Conns
  BY <1>1, ServeIs DEF ReachInv
<1>3. s \in Socks /\ HeapInv(h)
  BY <1>2, ServingCall
<1>4. Live(id) => table[id].mode # "starttls"
  BY DEF ReachInv, Live
<1>5. net' = Destroy(h, s) /\ UNCHANGED <<table, nextId>>
  BY <1>4 DEF StartTls
<1>6. HeapInv(net') /\ Reaches(net', h)
  BY <1>3, <1>5, DestroyKeeps, DestroyReach
<1>7. Conns'
  BY <1>1, <1>2, <1>5, ConnsSame
<1>8. \A i \in DOMAIN table' : i \in DOMAIN table /\ table'[i].mode = table[i].mode
  BY <1>5
<1>9. Call.op # "close"
  BY <1>2
<1> QED
  BY <1>2, <1>5, <1>6, <1>7, <1>8, <1>9, ServeKeepsReach

(* The host closes.                                                        *)
LEMMA CloseKeepsReach ==
    ASSUME ReachInv, CloseCall
    PROVE  ReachInv'
<1> DEFINE s == Call.s  h == Resumed  id == Call.id
<1>1. Serve("close") /\ UNCHANGED <<nextId, conn>> /\ table' = Without(id)
      /\ net' = [h EXCEPT !.sock[s].destroyed = TRUE]
  BY DEF CloseCall
<1>2. /\ parked /\ ~parked' /\ Call.op = "close" /\ netSaved' = netSaved /\ HeapInv(net)
      /\ net.tail # <<>> /\ nextId \in Nat \ {NoHandle} /\ Conns
  BY <1>1, ServeIs DEF ReachInv
<1>3. s \in Socks /\ Serving(h, s, "close")
  BY <1>2, ServingCall
<1>4. net' = [h EXCEPT !.sock[s] = Gone(h.sock[s])]
  BY <1>1, <1>3, CloseCallKeeps
<1>5. HeapInv(net') /\ Reaches(net', h)
  BY <1>3, <1>4, CloseCallKeeps, CloseCallReach
<1>6. DOMAIN table' = DOMAIN table \ {id} /\ \A i \in DOMAIN table' : table'[i] = table[i]
  BY <1>1, WithoutIs
<1>7. Conns'
  BY <1>1, <1>2, <1>6, ConnsSame
<1>8. \A i \in DOMAIN table' : i \in DOMAIN table /\ table'[i].mode = table[i].mode /\ i # Call.id
  BY <1>6
<1> QED
  BY <1>1, <1>2, <1>5, <1>7, <1>8, ServeKeepsReach

(* The peer moves.                                                         *)
LEMMA PeerKeepsReach ==
    ASSUME ReachInv, NEW c \in DOMAIN conn,
           (\E n \in ChunkSizes : PeerSends(c, n)) \/ PeerCloses(c) \/ PeerResets(c)
    PROVE  ReachInv'
<1> DEFINE k == conn[c]
<1>1. Conns /\ conn \in Seq(ConnType)
  BY DEF ReachInv, Conns
<1>2. c \in 1..Len(conn) /\ k \in ConnType
  BY <1>1
<1>3. \E j \in ConnType : Peer(c, j)
  <2>1. ASSUME NEW n \in ChunkSizes, PeerSends(c, n) PROVE \E j \in ConnType : Peer(c, j)
    <3> DEFINE q == Append(k.inbox, n)  i == k.sends + 1
    <3>1. q \in Seq(Nat \ {0}) /\ i \in Nat
      <4>1. k.inbox \in Seq(Nat \ {0}) /\ n \in Nat \ {0} /\ k.sends \in Nat
        BY <1>2, SocketsAssumption DEF ConnType
      <4> HIDE DEF k
      <4> QED BY <4>1
    <3>2. Peer(c, [k EXCEPT !.inbox = q, !.sends = i])
      BY <2>1 DEF PeerSends
    <3> HIDE DEF q, i
    <3>3. [k EXCEPT !.inbox = q, !.sends = i] \in ConnType
      BY <1>2, <3>1 DEF ConnType
    <3> QED BY <3>2, <3>3
  <2>2. CASE PeerCloses(c)
    <3>1. [k EXCEPT !.fin = TRUE] \in ConnType
      BY <1>2 DEF ConnType
    <3> QED BY <2>2, <3>1 DEF PeerCloses
  <2>3. CASE PeerResets(c)
    <3>1. [k EXCEPT !.up = FALSE] \in ConnType
      BY <1>2 DEF ConnType
    <3> QED BY <2>3, <3>1 DEF PeerResets
  <2> QED BY <2>1, <2>2, <2>3
<1>4. PICK j \in ConnType : Peer(c, j)
  BY <1>3
<1>5. conn' = [conn EXCEPT ![c] = j] /\ UNCHANGED <<net, parked, table, nextId, netSaved>>
  BY <1>4 DEF Peer
<1>6. Conns'
  BY <1>1, <1>2, <1>5, ConnsUpdate
<1> QED
  BY <1>5, <1>6 DEF ReachInv, Reach

(* A cell ends, or the instance is lost.                                   *)
LEMMA LossKeepsReach ==
    ASSUME ReachInv, CellEnds \/ Evict
    PROVE  ReachInv'
<1>1. CASE CellEnds
  BY <1>1 DEF CellEnds, ReachInv, Conns, Reach
<1>2. CASE Evict
  <2>1. HeapInv(net') /\ HeapInv(netSaved') /\ ~parked' /\ nextId' = 1 /\ table' = NoTable
        /\ conn' = [c \in DOMAIN conn |-> [conn[c] EXCEPT !.up = FALSE]]
    BY <1>2 DEF Evict, ReachInv
  <2>2. DOMAIN table' = {}
    BY <2>1 DEF NoTable
  <2>3. conn \in Seq(ConnType)
    BY DEF ReachInv, Conns
  <2>4. \A c \in DOMAIN conn : [conn[c] EXCEPT !.up = FALSE] \in ConnType
    <3>1. ASSUME NEW k \in ConnType PROVE [k EXCEPT !.up = FALSE] \in ConnType
      BY DEF ConnType
    <3>2. \A c \in DOMAIN conn : conn[c] \in ConnType
      BY <2>3
    <3> QED BY <3>1, <3>2
  <2>5. conn' \in Seq(ConnType)
    <3> DEFINE f == [c \in DOMAIN conn |-> [conn[c] EXCEPT !.up = FALSE]]
    <3>1. DOMAIN conn = 1..Len(conn) /\ Len(conn) \in Nat
      BY <2>3
    <3>2. f \in [1..Len(conn) -> ConnType]
      BY <2>4, <3>1
    <3> HIDE DEF f
    <3>3. f \in Seq(ConnType)
      BY <3>1, <3>2
    <3> QED BY <2>1, <3>3 DEF f
  <2> QED BY <2>1, <2>2, <2>5 DEF ReachInv, Conns, NoHandle
<1> QED
  BY <1>1, <1>2

(* Every step preserves the invariant.                                     *)
LEMMA ReachKept ==
    ASSUME ReachInv, [SocketsNext]_socketsVars, "starttls" \notin Modes
    PROVE  ReachInv'
<1>1. CASE UNCHANGED socketsVars
  BY <1>1 DEF socketsVars, ReachInv, Conns, Reach
<1>2. ASSUME NEW s \in Socks, NEW m \in Modes, NEW half \in HalfOpen, Connect(s, m, half)
      PROVE  ReachInv'
  BY <1>2, ConnectKeepsReach
<1>3. ASSUME NEW s \in Socks, Write(s) \/ End(s) \/ EndWith(s) \/ DestroySocket(s) \/ TlsConnect(s)
      PROVE  ReachInv'
  BY <1>3, CellKeepsReach
<1>4. CASE LoopTurn \/ Park
  BY <1>4, LoopKeepsReach
<1>5. CASE OpenFails \/ Open
  BY <1>5, OpenKeepsReach
<1>6. CASE WriteCall \/ ReadData
  BY <1>6, TransferKeepsReach
<1>7. CASE ReadDone \/ ReadFails
  BY <1>7, ReadEndKeepsReach
<1>8. CASE StartTls
  BY <1>8, TlsKeepsReach
<1>9. CASE CloseCall
  BY <1>9, CloseKeepsReach
<1>10. ASSUME NEW c \in DOMAIN conn,
             (\E n \in ChunkSizes : PeerSends(c, n)) \/ PeerCloses(c) \/ PeerResets(c)
      PROVE  ReachInv'
  BY <1>10, PeerKeepsReach
<1>11. CASE CellEnds \/ Evict
  BY <1>11, LossKeepsReach
<1> QED
  BY <1>1, <1>2, <1>3, <1>4, <1>5, <1>6, <1>7, <1>8, <1>9, <1>10, <1>11 DEF SocketsNext

(* It implies the property.                                                *)
LEMMA ReachMeansNoLeak ==
    ASSUME ReachInv
    PROVE  NoHandleLeak
<1>1. net.openCount = Cardinality({s \in Socks : net.sock[s].counted})
  BY DEF ReachInv, HeapInv, CountInv, Counted
<1>2. \A c \in Range(net.tail) : \E i \in DOMAIN net.tail : c = net.tail[i]
  BY DEF Range
<1>3. ASSUME NEW id \in DOMAIN table
      PROVE  \/ \E s \in Socks : net.sock[s].handle = id /\ ~net.sock[s].closed
             \/ \E i \in DOMAIN net.tail : net.tail[i].op = "close" /\ net.tail[i].id = id
  <2>1. Reach(net, id)
    BY DEF ReachInv
  <2> QED BY <1>2, <2>1 DEF Reach
<1> QED
  BY <1>1, <1>3 DEF NoHandleLeak

(* Every entry of the host's socket table is the handle of a socket that   *)
(* has not closed, or its close is on the tail, and _openCount is the      *)
(* number of sockets that hold a slot: net.js and host-sockets.mjs leak no *)
(* handle, for any number of sockets, calls, resets and evictions, as long *)
(* as no socket asks for startTls (which opens a second handle; see the    *)
(* README for what TLC shows of it).                                       *)
THEOREM NoHandleEverLeaks ==
    ASSUME "starttls" \notin Modes
    PROVE  SocketsSpec => []NoHandleLeak
<1>1. SocketsInit => ReachInv
  BY ReachBegins
<1>2. ReachInv /\ [SocketsNext]_socketsVars => ReachInv'
  BY ReachKept
<1>3. ReachInv => NoHandleLeak
  BY ReachMeansNoLeak
<1> QED
  BY <1>1, <1>2, <1>3, PTL DEF SocketsSpec

-----------------------------------------------------------------------------
(* The bytes on their way: the handles of a socket are its own, and what   *)
(* it has written is on its connection, in the call under way or queued.   *)

Owned(s, id, T, C, N) ==
    id \in Nat /\ id # NoHandle /\ id < N /\ (id \in DOMAIN T => C[T[id].c].owner = s)
Up(id, T, C) == id \in DOMAIN T /\ C[T[id].c].up

(* A call of socket s: its handle, and the unit it writes.                 *)
CallOk(c, s, T, C, N) ==
    /\ c \in Loops(s) \cup Closes(s) => Owned(s, c.id, T, C, N)
    /\ c \in Writes(s) /\ Up(c.id, T, C) => c.unit = Len(C[T[c.id].c].got) + 1
TurnOk(t, s, T, C, N) == t \in TurnsOf(s) => Owned(s, t.id, T, C, N)

(* Socket k on connection e, the c-th, with p units in a call under way.   *)
Carries(k, e, c, p) ==
    /\ From1(k.writeQ, Len(e.got) + p) /\ k.written = Len(e.got) + p + Len(k.writeQ)
    /\ Len(k.rx) = e.read /\ \A i \in 1..Len(k.rx) : k.rx[i] = <<c, i>>
Linked(k, T, C, p) ==
    ~k.destroyed /\ k.handle # NoHandle /\ Up(k.handle, T, C) =>
       Carries(k, C[T[k.handle].c], T[k.handle].c, p)

(* The connections of socket s that are up: one at most, until it is       *)
(* destroyed; all of them have everything once it has flushed.             *)
Owns(k, s, T, C) ==
    \A c \in 1..Len(C) : C[c].up /\ C[c].owner = s =>
       /\ ~k.destroyed => k.handle # NoHandle /\ k.handle \in DOMAIN T /\ T[k.handle].c = c
       /\ k.flushed => Len(C[c].got) = k.written

(* What socket s delivered came on one connection of its own.              *)
RxOk(k, s, C) ==
    \A i \in 1..Len(k.rx) :
       k.rx[i] = <<k.rx[1][1], i>> /\ k.rx[i][1] \in 1..Len(C) /\ C[k.rx[i][1]].owner = s

Plugged(k, s, T, C, N, p) ==
    /\ k.handle # NoHandle /\ ~k.destroyed => Owned(s, k.handle, T, C, N)
    /\ Linked(k, T, C, p) /\ Owns(k, s, T, C) /\ RxOk(k, s, C)

Wire(h, s, T, C, N, p) ==
    /\ \A c \in Range(h.tail) : CallOk(c, s, T, C, N)
    /\ \A t \in Range(h.turns) : TurnOk(t, s, T, C, N)
    /\ Plugged(h.sock[s], s, T, C, N, p)

Pend(h, s) == IF In(h.tail, Writes(s)) THEN 1 ELSE 0
(* All sockets; all but s, of which only the calls and the turns queued.   *)
Wires(h, T, C, N) == \A r \in Socks : Wire(h, r, T, C, N, Pend(h, r))
Wiring(h, s, T, C, N) ==
    /\ \A c \in Range(h.tail) : CallOk(c, s, T, C, N)
    /\ \A t \in Range(h.turns) : TurnOk(t, s, T, C, N)
    /\ \A r \in Socks : r # s => Wire(h, r, T, C, N, Pend(h, r))

(* A step of s that queues calls and turns of its own.                     *)
LEMMA WireStep ==
    ASSUME NEW h, NEW s \in Socks, NEW T, NEW C, NEW N, Wiring(h, s, T, C, N),
           NEW g, NEW j, NEW n, NEW q, NEW t, Is(g, h, s, j, n, q, t),
           Range(h.tail) \subseteq Range(q),
           \A c \in Range(q) : c \in Range(h.tail) \/ (c.s = s /\ CallOk(c, s, T, C, N)),
           \A x \in Range(t) : x \in Range(h.turns) \/ (x.s = s /\ TurnOk(x, s, T, C, N)),
           Plugged(j, s, T, C, N, Pend(g, s))
    PROVE  Wires(g, T, C, N)
<1>1. g.sock[s] = j /\ g.tail = q /\ g.turns = t /\ \A r \in Socks : r # s => g.sock[r] = h.sock[r]
  BY DEF Is
<1>2. Wire(g, s, T, C, N, Pend(g, s))
  BY <1>1 DEF Wiring, Wire
<1>3. ASSUME NEW r \in Socks, r # s PROVE Wire(g, r, T, C, N, Pend(g, r))
  <2>1. Wire(h, r, T, C, N, Pend(h, r))
    BY <1>3 DEF Wiring
  <2>2. \A c : c.s = s => c \notin Loops(r) /\ c \notin Closes(r) /\ c \notin Writes(r) /\ c \notin TurnsOf(r)
    BY <1>3 DEF Loops, Closes, Writes, TurnsOf
  <2>3. In(g.tail, Writes(r)) <=> In(h.tail, Writes(r))
    BY <1>1, <2>2 DEF In
  <2>4. Pend(g, r) = Pend(h, r)
    BY <2>3 DEF Pend
  <2>5. \A c \in Range(g.tail) : CallOk(c, r, T, C, N)
    BY <1>1, <2>1, <2>2 DEF Wire, CallOk
  <2>6. \A x \in Range(g.turns) : TurnOk(x, r, T, C, N)
    BY <1>1, <2>1, <2>2 DEF Wire, TurnOk
  <2> QED BY <1>1, <1>3, <2>1, <2>4, <2>5, <2>6 DEF Wire
<1> QED
  BY <1>2, <1>3 DEF Wires

(* The forms a step takes: nothing queued, a call queued, a turn queued.   *)
LEMMA WireSame ==
    ASSUME NEW h, NEW s \in Socks, NEW T, NEW C, NEW N, Wiring(h, s, T, C, N),
           NEW g, NEW j, NEW n, Is(g, h, s, j, n, h.tail, h.turns),
           Plugged(j, s, T, C, N, Pend(g, s))
    PROVE  Wires(g, T, C, N)
  BY WireStep

(* One call queued.                                                        *)
LEMMA WireCall ==
    ASSUME NEW h \in HeapType, NEW s \in Socks, NEW T, NEW C, NEW N, Wiring(h, s, T, C, N),
           NEW g, NEW j, NEW n, NEW op \in Ops, NEW id \in Nat, NEW unit \in Nat,
           Is(g, h, s, j, n, Append(h.tail, CallOf(op, s, id, unit)), h.turns),
           op \in {"read", "write", "close"} => Owned(s, id, T, C, N),
           op = "write" /\ Up(id, T, C) => unit = Len(C[T[id].c].got) + 1,
           Plugged(j, s, T, C, N, Pend(g, s))
    PROVE  Wires(g, T, C, N)
<1> DEFINE c == CallOf(op, s, id, unit)  q == Append(h.tail, c)
<1>1. c \in CallType /\ c.op = op /\ c.id = id /\ c.s = s /\ c.unit = unit
  BY DEF CallOf, CallType, Ops
<1>2. Is(g, h, s, j, n, q, h.turns)
  OBVIOUS
<1> HIDE DEF c
<1>3. h.tail \in Seq(CallType)
  BY HeapFields
<1>4. Range(q) = Range(h.tail) \cup {c}
  BY <1>1, <1>3, AfterAppend
<1>5. CallOk(c, s, T, C, N)
  BY <1>1 DEF CallOk, Loops, Closes, Writes
<1> HIDE DEF q
<1> QED
  BY <1>1, <1>2, <1>4, <1>5, WireStep

(* Writes in the tail after a call has been queued.                        *)
LEMMA PendCall ==
    ASSUME NEW h \in HeapType, NEW s \in Socks, NEW g, NEW j, NEW n,
           NEW op \in Ops, NEW id \in Nat, NEW unit \in Nat, NEW t,
           Is(g, h, s, j, n, Append(h.tail, CallOf(op, s, id, unit)), t)
    PROVE  Pend(g, s) = IF op = "write" THEN 1 ELSE Pend(h, s)
<1> DEFINE c == CallOf(op, s, id, unit)  q == Append(h.tail, c)
<1>1. c \in CallType /\ c.op = op /\ c.s = s
  BY DEF CallOf, CallType, Ops
<1>2. g.tail = q
  BY DEF Is
<1> HIDE DEF c
<1>3. h.tail \in Seq(CallType)
  BY HeapFields
<1>4. Range(q) = Range(h.tail) \cup {c}
  BY <1>1, <1>3, AfterAppend
<1>5. c \in Writes(s) <=> op = "write"
  BY <1>1 DEF Writes
<1> HIDE DEF q
<1>6. In(g.tail, Writes(s)) <=> In(h.tail, Writes(s)) \/ op = "write"
  BY <1>2, <1>4, <1>5 DEF In
<1> QED
  BY <1>6 DEF Pend

(* No call of the loop, so no write.                                       *)
LEMMA PendNone ==
    ASSUME NEW h, NEW s \in Socks, ~In(h.tail, Loops(s))
    PROVE  Pend(h, s) = 0
  BY DEF Pend, In, Loops, Writes

(* A socket that is destroyed, or that keeps its handle and its bytes.     *)
LEMMA PluggedGone ==
    ASSUME NEW k, NEW j, NEW s, NEW T, NEW C, NEW N, NEW p, NEW i, Plugged(k, s, T, C, N, p),
           j.destroyed, j.flushed = k.flushed, j.written = k.written, j.rx = k.rx
    PROVE  Plugged(j, s, T, C, N, i)
  BY DEF Plugged, Linked, Owns, RxOk

(* A socket that keeps its handle and its bytes.                           *)
LEMMA PluggedSame ==
    ASSUME NEW k, NEW j, NEW s, NEW T, NEW C, NEW N, NEW p, Plugged(k, s, T, C, N, p),
           j.destroyed = k.destroyed, j.handle = k.handle, j.flushed = k.flushed,
           j.writeQ = k.writeQ, j.written = k.written, j.rx = k.rx
    PROVE  Plugged(j, s, T, C, N, p)
  BY DEF Plugged, Linked, Owns, Carries, RxOk

(* Every handle of the table names a connection.                           *)
ConnsOk(T, C) == C \in Seq(ConnType) /\ \A id \in DOMAIN T : T[id].c \in 1..Len(C)

(* Every helper preserves it: a failed open,                               *)
LEMMA FailWires ==
    ASSUME NEW h, NEW s \in Socks, NEW hand, Serving(h, s, hand),
           NEW T, NEW C, NEW N, Wires(h, T, C, N)
    PROVE  Wires(Fail(h, s), T, C, N)
<1> DEFINE k == h.sock[s]  j == Failed(k)  g == Fail(h, s)
<1>1. h \in HeapType /\ k \in SockType /\ Wiring(h, s, T, C, N)
      /\ Plugged(k, s, T, C, N, Pend(h, s))
  BY Served1 DEF Wires, Wiring, Wire
<1>2. Is(g, h, s, j, Less(h, s), h.tail, h.turns)
  BY <1>1, FailIs
<1>3. j.destroyed /\ j.flushed = k.flushed /\ j.written = k.written /\ j.rx = k.rx
  <2> HIDE DEF k
  <2> QED BY <1>1, ClosingFields DEF SameBytes
<1> HIDE DEF g, j, k
<1>4. Plugged(j, s, T, C, N, Pend(g, s))
  BY <1>1, <1>3, PluggedGone
<1>5. Wires(g, T, C, N)
  BY <1>1, <1>2, <1>4, WireSame
<1> QED
  BY <1>5 DEF g

(* the end of a loop,                                                      *)
LEMMA StopWires ==
    ASSUME NEW h, NEW s \in Socks, NEW hand, Serving(h, s, hand),
           NEW T, NEW C, NEW N, Wires(h, T, C, N)
    PROVE  Wires(StopLoop(h, s), T, C, N)
<1> DEFINE k == h.sock[s]  j == Stopped(k)  g == StopLoop(h, s)
<1>1. h \in HeapType /\ k \in SockType /\ Wiring(h, s, T, C, N)
      /\ Plugged(k, s, T, C, N, Pend(h, s))
  BY Served1 DEF Wires, Wiring, Wire
<1>2. Is(g, h, s, j, h.openCount, h.tail, h.turns)
  BY <1>1, StopLoopIs
<1>3. j.destroyed = k.destroyed /\ j.handle = k.handle /\ j.flushed = k.flushed /\ SameBytes(j, k)
  <2> HIDE DEF k
  <2> QED BY <1>1, LoopFields
<1> HIDE DEF g, j, k
<1>4. g.tail = h.tail
  BY <1>2 DEF Is
<1>5. Plugged(j, s, T, C, N, Pend(g, s))
  BY <1>1, <1>3, <1>4, PluggedSame DEF SameBytes, Pend
<1>6. Wires(g, T, C, N)
  BY <1>1, <1>2, <1>5, WireSame
<1> QED
  BY <1>6 DEF g

(* A socket that closes, and queues the close of its handle.               *)
LEMMA CloseWires ==
    ASSUME NEW h, NEW s \in Socks, NEW hand, Serving(h, s, hand),
           NEW T, NEW C, NEW N, Wires(h, T, C, N), NEW g, NEW j, NEW n,
           ~h.sock[s].destroyed, h.sock[s].handle # NoHandle,
           Is(g, h, s, j, n, Append(h.tail, CallOf("close", s, h.sock[s].handle, 0)), h.turns),
           j.flushed = h.sock[s].flushed, SameBytes(j, h.sock[s]),
           j.destroyed \/ (~j.destroyed /\ j.handle = h.sock[s].handle)
    PROVE  Wires(g, T, C, N)
<1> DEFINE k == h.sock[s]
<1>1. h \in HeapType /\ k \in SockType /\ Wiring(h, s, T, C, N) /\ k.handle \in Nat
      /\ Plugged(k, s, T, C, N, Pend(h, s))
  BY Served1 DEF Wires, Wiring, Wire
<1>2. "close" \in Ops /\ 0 \in Nat /\ Owned(s, k.handle, T, C, N)
  BY <1>1 DEF Ops, Plugged
<1>3. Pend(g, s) = Pend(h, s)
  BY <1>1, <1>2, PendCall
<1>4. Plugged(j, s, T, C, N, Pend(g, s))
  <2>1. CASE j.destroyed
    BY <1>1, <2>1, PluggedGone DEF SameBytes
  <2>2. CASE ~j.destroyed /\ j.handle = k.handle
    BY <1>1, <1>3, <2>2 DEF SameBytes, Plugged, Linked, Owns, Carries, RxOk
  <2> QED BY <2>1, <2>2
<1> QED
  BY <1>1, <1>2, <1>4, WireCall

(* _doClose,                                                               *)
LEMMA DoCloseWires ==
    ASSUME NEW h, NEW s \in Socks, HeapInv(h), h.sock[s].handle # NoHandle,
           NEW T, NEW C, NEW N, Wires(h, T, C, N)
    PROVE  Wires(DoClose(h, s), T, C, N)
<1> DEFINE k == h.sock[s]  j == Closed(k, k.destroyed)
<1>1. h \in HeapType /\ k \in SockType /\ k.destroyed \in BOOLEAN /\ Life(k) /\ Serving(h, s, "none")
  BY Idle, Served1
<1>2. CASE k.closed
  BY <1>1, <1>2, DoCloseIs
<1>3. CASE ~k.closed
  <2>1. Is(DoClose(h, s), h, s, j, Less(h, s), Append(h.tail, CallOf("close", s, k.handle, 0)), h.turns)
    BY <1>1, <1>3, DoCloseIs
  <2>2. j.destroyed = k.destroyed /\ j.handle = k.handle /\ j.flushed = k.flushed /\ SameBytes(j, k)
    <3> HIDE DEF k
    <3> QED BY <1>1, ClosingFields
  <2>3. ~k.destroyed
    BY <1>1, <1>3 DEF Life
  <2> HIDE DEF j
  <2> QED BY <1>1, <2>1, <2>2, <2>3, CloseWires
<1> QED
  BY <1>2, <1>3

(* destroy,                                                                *)
LEMMA DestroyWires ==
    ASSUME NEW h, NEW s \in Socks, HeapInv(h), NEW T, NEW C, NEW N, Wires(h, T, C, N)
    PROVE  Wires(Destroy(h, s), T, C, N)
<1> DEFINE k == h.sock[s]  j == Destroyed(k)  g == Destroy(h, s)
<1>1. h \in HeapType /\ k \in SockType /\ Serving(h, s, "none")
      /\ Wiring(h, s, T, C, N) /\ Plugged(k, s, T, C, N, Pend(h, s))
  BY Idle, Served1 DEF Wires, Wiring, Wire
<1>2. j.destroyed /\ j.flushed = k.flushed /\ SameBytes(j, k)
  <2> HIDE DEF k
  <2> QED BY <1>1, ClosingFields
<1>3. CASE k.destroyed
  BY <1>1, <1>3, DestroyIs
<1>4. CASE ~k.destroyed /\ k.handle = NoHandle
  <2>1. Is(g, h, s, j, Less(h, s), h.tail, h.turns)
    BY <1>1, <1>4, DestroyIs
  <2> HIDE DEF j, g
  <2>2. Plugged(j, s, T, C, N, Pend(g, s))
    BY <1>1, <1>2, PluggedGone DEF SameBytes
  <2>3. Wires(g, T, C, N)
    BY <1>1, <2>1, <2>2, WireSame
  <2> QED BY <2>3 DEF g
<1>5. CASE ~k.destroyed /\ k.handle # NoHandle
  <2>1. Is(g, h, s, j, Less(h, s), Append(h.tail, CallOf("close", s, k.handle, 0)), h.turns)
    BY <1>1, <1>5, DestroyIs
  <2> HIDE DEF j
  <2> QED BY <1>1, <1>2, <1>5, <2>1, CloseWires
<1> QED
  BY <1>3, <1>4, <1>5

(* the end of the peer's bytes,                                            *)
LEMMA EndedWires ==
    ASSUME NEW h, NEW s \in Socks, Serving(h, s, "loop"), ~h.sock[s].destroyed,
           NEW T, NEW C, NEW N, Wires(h, T, C, N)
    PROVE  Wires(DoClose(StopLoop(h, s), s), T, C, N)
<1> DEFINE k == h.sock[s]  j == Ended(k)
<1>1. h \in HeapType /\ k \in SockType /\ k.handle # NoHandle
  BY Served1 DEF SockInv
<1>2. Is(DoClose(StopLoop(h, s), s), h, s, j, Less(h, s),
              Append(h.tail, CallOf("close", s, k.handle, 0)), h.turns)
  BY <1>1, EndedIs, EndedKeeps
<1>3. j.destroyed = k.destroyed /\ j.handle = k.handle /\ j.flushed = k.flushed /\ SameBytes(j, k)
  <2> HIDE DEF k
  <2> QED BY <1>1, EndedFields
<1> HIDE DEF j
<1> QED
  BY <1>1, <1>2, <1>3, CloseWires

(* a failed read,                                                          *)
LEMMA DroppedWires ==
    ASSUME NEW h, NEW s \in Socks, Serving(h, s, "loop"), ~h.sock[s].destroyed,
           NEW T, NEW C, NEW N, Wires(h, T, C, N)
    PROVE  Wires(Teardown(StopLoop(h, s), s), T, C, N)
<1> DEFINE k == h.sock[s]  j == Dropped(k)
<1>1. h \in HeapType /\ k \in SockType /\ k.handle # NoHandle
  BY Served1 DEF SockInv
<1>2. Is(Teardown(StopLoop(h, s), s), h, s, j, Less(h, s),
              Append(h.tail, CallOf("close", s, k.handle, 0)), h.turns)
  BY <1>1, DroppedIs
<1>3. j.destroyed /\ j.flushed = k.flushed /\ SameBytes(j, k)
  <2> HIDE DEF k
  <2> QED BY <1>1, DroppedFields
<1> HIDE DEF j
<1> QED
  BY <1>1, <1>2, <1>3, CloseWires

(* a request noted,                                                        *)
LEMMA NoteWires ==
    ASSUME NEW h, NEW s \in Socks, HeapInv(h), NEW g \in Notes(h, s), NEW T, NEW C, NEW N, Wires(h, T, C, N)
    PROVE  Wires(g, T, C, N)
<1> DEFINE k == h.sock[s]
<1>1. PICK j \in Noted(k) : g = [h EXCEPT !.sock[s] = j]
  BY NoteIs
<1>2. h \in HeapType /\ k \in SockType /\ Serving(h, s, "none")
      /\ Wiring(h, s, T, C, N) /\ Plugged(k, s, T, C, N, Pend(h, s))
  BY Idle, Served1 DEF Wires, Wiring, Wire
<1> HIDE DEF k
<1>3. j \in SockType /\ Same(j, k) /\ SameBytes(j, k)
  BY <1>2, NotedFields
<1>4. Is(g, h, s, j, h.openCount, h.tail, h.turns)
  BY <1>1, <1>2, <1>3, SetSock
<1>5. g.tail = h.tail
  BY <1>4 DEF Is
<1>6. Plugged(j, s, T, C, N, Pend(g, s))
  BY <1>2, <1>3, <1>5, PluggedSame DEF Same, SameBytes, Pend
<1> QED
  BY <1>2, <1>4, <1>6, WireSame

(* a startTls,                                                             *)
LEMMA TlsCallWires ==
    ASSUME NEW h, NEW s \in Socks, HeapInv(h), NEW id \in Nat, NEW T, NEW C, NEW N, Wires(h, T, C, N)
    PROVE  Wires(HostCall(h, "startTls", s, id, 0), T, C, N)
<1> DEFINE k == h.sock[s]  g == HostCall(h, "startTls", s, id, 0)
<1>1. h \in HeapType /\ Wiring(h, s, T, C, N) /\ Plugged(k, s, T, C, N, Pend(h, s))
  BY Idle, Served1 DEF Wires, Wiring, Wire
<1>2. Is(g, h, s, k, h.openCount, Append(h.tail, CallOf("startTls", s, id, 0)), h.turns)
  BY <1>1, HostCallIs
<1>3. "startTls" \in Ops /\ 0 \in Nat
  BY DEF Ops
<1>4. Pend(g, s) = Pend(h, s)
  BY <1>1, <1>2, <1>3, PendCall
<1> HIDE DEF g, k
<1>5. Wires(g, T, C, N)
  BY <1>1, <1>2, <1>3, <1>4, WireCall
<1> QED
  BY <1>5 DEF g

(* the options,                                                            *)
LEMMA ConfigureWires ==
    ASSUME NEW h, NEW s \in Socks, HeapInv(h), NEW g, NEW mode \in Modes, NEW half \in HalfOpen,
           HalfOpen \subseteq BOOLEAN,
           Is(g, h, s, Configured(h.sock[s], mode, half), h.openCount, h.tail, h.turns),
           NEW T, NEW C, NEW N, Wires(h, T, C, N)
    PROVE  Wires(g, T, C, N)
<1> DEFINE k == h.sock[s]  j == Configured(k, mode, half)
<1>1. h \in HeapType /\ k \in SockType /\ Wiring(h, s, T, C, N)
      /\ Plugged(k, s, T, C, N, Pend(h, s))
  BY Idle, Served1 DEF Wires, Wiring, Wire
<1>2. j.destroyed = k.destroyed /\ j.handle = k.handle /\ j.flushed = k.flushed /\ SameBytes(j, k)
  <2> HIDE DEF k
  <2> QED BY <1>1, ConfiguredFields
<1>3. Is(g, h, s, j, h.openCount, h.tail, h.turns)
  OBVIOUS
<1> HIDE DEF j, k
<1>4. g.tail = h.tail
  BY <1>3 DEF Is
<1>5. Plugged(j, s, T, C, N, Pend(g, s))
  BY <1>1, <1>2, <1>4, PluggedSame DEF SameBytes, Pend
<1> QED
  BY <1>1, <1>3, <1>5, WireSame

(* and an open queued.                                                     *)
LEMMA DialledWires ==
    ASSUME NEW h, NEW s \in Socks, HeapInv(h), NEW T, NEW C, NEW N, Wires(h, T, C, N)
    PROVE  Wires(Dialled(h, s), T, C, N)
<1> DEFINE k == h.sock[s]  j == Connecting(k)  g == Dialled(h, s)
<1>1. h \in HeapType /\ k \in SockType /\ Wiring(h, s, T, C, N)
      /\ Plugged(k, s, T, C, N, Pend(h, s))
  BY Idle, Served1 DEF Wires, Wiring, Wire
<1>2. j.destroyed = k.destroyed /\ j.handle = k.handle /\ j.flushed = k.flushed /\ SameBytes(j, k)
  <2> HIDE DEF k
  <2> QED BY <1>1, ConnectingFields
<1>3. Is(g, h, s, j, h.openCount + 1, Append(h.tail, CallOf("open", s, NoHandle, 0)), h.turns)
  BY <1>1, DialledIs
<1>4. "open" \in Ops /\ NoHandle \in Nat /\ 0 \in Nat
  BY DEF Ops, NoHandle
<1>5. Pend(g, s) = Pend(h, s)
  BY <1>1, <1>3, <1>4, PendCall
<1> HIDE DEF j, k, g
<1>6. Plugged(j, s, T, C, N, Pend(g, s))
  BY <1>1, <1>2, <1>5, PluggedSame DEF SameBytes
<1>7. Wires(g, T, C, N)
  BY <1>1, <1>3, <1>4, <1>6, WireCall
<1> QED
  BY <1>7 DEF g

(* The connection a live handle names.                                     *)
LEMMA UpConn ==
    ASSUME NEW T, NEW C, ConnsOk(T, C), NEW id \in DOMAIN T
    PROVE  /\ T[id].c \in 1..Len(C) /\ C[T[id].c] \in ConnType
           /\ Len(C[T[id].c].got) \in Nat /\ C[T[id].c].read \in Nat
<1>1. T[id].c \in 1..Len(C) /\ C[T[id].c] \in ConnType
  BY DEF ConnsOk
<1> DEFINE e == C[T[id].c]
<1> HIDE DEF e
<1>2. e \in ConnType
  BY <1>1 DEF e
<1>3. e.got \in Seq(Nat \X Nat) /\ e.read \in Nat
  BY <1>2 DEF ConnType
<1>4. Len(e.got) \in Nat
  BY <1>3
<1> QED
  BY <1>1, <1>3, <1>4 DEF e

(* The next unit of a queue numbered from n + 1.                           *)
LEMMA From1Pops ==
    ASSUME NEW q \in Seq(Nat), q # <<>>, NEW n \in Nat, From1(q, n)
    PROVE  Head(q) = n + 1 /\ From1(Tail(q), n + 1) /\ Len(q) = Len(Tail(q)) + 1 /\ Len(Tail(q)) \in Nat
<1>1. Len(q) \in Nat /\ Len(q) > 0 /\ Len(Tail(q)) = Len(q) - 1
  OBVIOUS
<1>2. \A i \in 1..Len(Tail(q)) : Tail(q)[i] = q[i + 1] /\ i + 1 \in 1..Len(q)
  BY <1>1
<1>3. \A i \in 1..Len(Tail(q)) : Tail(q)[i] = n + 1 + i
  BY <1>1, <1>2 DEF From1
<1>4. Head(q) = q[1] /\ q[1] = n + 1
  BY <1>1 DEF From1
<1> QED
  BY <1>1, <1>3, <1>4 DEF From1

(* A unit moves from the queue into a call.                                *)
LEMMA PoppedPlugs ==
    ASSUME NEW k \in SockType, k.writeQ # <<>>, NEW T, NEW C, ConnsOk(T, C), NEW s, NEW N,
           Plugged(k, s, T, C, N, 0), NEW j, Same(j, k), j.writeQ = Tail(k.writeQ),
           j.written = k.written, j.rx = k.rx
    PROVE  /\ Plugged(j, s, T, C, N, 1)
           /\ ~k.destroyed /\ k.handle # NoHandle /\ Up(k.handle, T, C) =>
                 Head(k.writeQ) = Len(C[T[k.handle].c].got) + 1
<1>1. k.writeQ \in Seq(Nat) /\ k.written \in Nat
  BY DEF SockType
<1>2. ASSUME ~k.destroyed, k.handle # NoHandle, Up(k.handle, T, C)
      PROVE  Carries(j, C[T[k.handle].c], T[k.handle].c, 1) /\ Head(k.writeQ) = Len(C[T[k.handle].c].got) + 1
  <2> DEFINE e == C[T[k.handle].c]  n == Len(e.got)
  <2>1. Carries(k, e, T[k.handle].c, 0)
    BY <1>2 DEF Plugged, Linked
  <2>2. n \in Nat
    BY <1>2, UpConn DEF Up
  <2>3. From1(k.writeQ, n + 0) /\ k.written = n + 0 + Len(k.writeQ)
    BY <2>1 DEF Carries
  <2> HIDE DEF n
  <2> DEFINE q == k.writeQ
  <2>0. q \in Seq(Nat) /\ q # <<>> /\ From1(q, n)
    <3>1. n + 0 = n
      BY <2>2
    <3> QED BY <1>1, <2>3, <3>1
  <2> HIDE DEF q
  <2>4. Head(q) = n + 1 /\ From1(Tail(q), n + 1) /\ Len(q) = Len(Tail(q)) + 1 /\ Len(Tail(q)) \in Nat
    BY <2>0, <2>2, From1Pops
  <2>5. j.writeQ = Tail(q) /\ j.written = n + 1 + Len(j.writeQ)
    <3> DEFINE m == Len(Tail(q))  w == Len(q)
    <3>1. k.written = n + 0 + w /\ w = m + 1 /\ m \in Nat
      BY <2>3, <2>4 DEF q
    <3> HIDE DEF m, w
    <3>2. k.written = n + 1 + m
      BY <2>2, <3>1
    <3> QED BY <3>2 DEF q, m
  <2> QED BY <2>1, <2>4, <2>5 DEF Carries, n, q
<1>3. Linked(j, T, C, 1)
  BY <1>2 DEF Linked, Same
<1>4. j.destroyed = k.destroyed /\ j.handle = k.handle /\ j.flushed = k.flushed
  BY DEF Same
<1> QED
  BY <1>2, <1>3, <1>4 DEF Plugged, Owns, RxOk

(* With the queue empty and no call under way, all was written.            *)
LEMMA FlushedPlugs ==
    ASSUME NEW k \in SockType, k.writeQ = <<>>, ~k.destroyed, NEW T, NEW C, ConnsOk(T, C), NEW s, NEW N,
           Plugged(k, s, T, C, N, 0), NEW j, j.handle = k.handle, j.destroyed = k.destroyed,
           SameBytes(j, k)
    PROVE  Plugged(j, s, T, C, N, 0)
<1>1. Linked(j, T, C, 0)
  BY DEF Plugged, Linked, Carries, SameBytes
<1>2. ASSUME NEW c \in 1..Len(C), C[c].up, C[c].owner = s PROVE Len(C[c].got) = k.written
  <2>1. k.handle # NoHandle /\ k.handle \in DOMAIN T /\ T[k.handle].c = c
    BY <1>2 DEF Plugged, Owns
  <2>2. Carries(k, C[c], c, 0)
    BY <1>2, <2>1 DEF Plugged, Linked, Up
  <2>3. Len(C[c].got) \in Nat
    BY <2>1, UpConn
  <2> DEFINE n == Len(C[c].got)
  <2>4. k.written = n + 0 + Len(k.writeQ) /\ Len(k.writeQ) = 0
    BY <2>2 DEF Carries
  <2> HIDE DEF n
  <2>5. k.written = n
    BY <2>3, <2>4 DEF n
  <2> QED BY <2>5 DEF n
<1> QED
  BY <1>1, <1>2 DEF Plugged, Owns, SameBytes, RxOk

(* A turn of the loop.                                                     *)
LEMMA TurnWires ==
    ASSUME NEW h, NEW s \in Socks, Serving(h, s, "loop"), ~In(h.tail, Loops(s)),
           NEW T, NEW C, NEW N, ConnsOk(T, C), Wires(h, T, C, N)
    PROVE  Wires(Turn(h, s, h.sock[s].handle), T, C, N)
<1> DEFINE k == h.sock[s]  id == k.handle  g == Turn(h, s, id)
<1>1. /\ h \in HeapType /\ k \in SockType /\ id \in Nat /\ Wiring(h, s, T, C, N)
      /\ Plugged(k, s, T, C, N, Pend(h, s)) /\ id # NoHandle
  BY Served1 DEF Wires, Wiring, Wire, SockInv
<1>2. Pend(h, s) = 0
  BY PendNone
<1>3. "write" \in Ops /\ "read" \in Ops /\ "close" \in Ops /\ 0 \in Nat
  BY DEF Ops
<1>4. CASE k.destroyed \/ k.closed
  <2>1. g = StopLoop(h, s)
    BY <1>4 DEF Turn
  <2> QED BY <2>1, StopWires
<1>5. ASSUME ~k.destroyed, ~k.closed PROVE ~TurnDead(h, s, id) /\ Owned(s, id, T, C, N)
  BY <1>1, <1>5 DEF TurnDead, Plugged
<1>6. CASE ~k.destroyed /\ ~k.closed /\ k.writeQ # <<>>
  <2> DEFINE j == Popped(k)  u == Head(k.writeQ)
  <2>1. Is(g, h, s, j, h.openCount, Append(h.tail, CallOf("write", s, id, u)), h.turns)
    BY <1>1, <1>5, <1>6, TurnIs
  <2>2. u \in Nat /\ Same(j, k) /\ j.writeQ = Tail(k.writeQ) /\ j.written = k.written /\ j.rx = k.rx
    <3> HIDE DEF k
    <3> QED BY <1>1, <1>6, LoopUpdates, LoopFields
  <2> HIDE DEF j, u
  <2>3. Plugged(j, s, T, C, N, 1) /\ (Up(id, T, C) => u = Len(C[T[id].c].got) + 1)
    <3> HIDE DEF k
    <3> QED BY <1>1, <1>2, <1>6, <2>2, PoppedPlugs DEF u
  <2>4. Pend(g, s) = 1
    BY <1>1, <1>3, <2>1, <2>2, PendCall
  <2> HIDE DEF g, k
  <2>5. Wires(g, T, C, N)
    BY <1>1, <1>3, <1>5, <1>6, <2>1, <2>2, <2>3, <2>4, WireCall
  <2> QED BY <2>5 DEF g, k
<1>7. CASE ~k.destroyed /\ ~k.closed /\ k.writeQ = <<>> /\ k.wantClose
  <2> DEFINE j == Flushed(k)
  <2>1. Is(g, h, s, j, Less(h, s), Append(h.tail, CallOf("close", s, id, 0)), h.turns)
    BY <1>1, <1>5, <1>7, TurnIs
  <2>2. j.handle = k.handle /\ j.destroyed = k.destroyed /\ SameBytes(j, k)
    <3> HIDE DEF k
    <3> QED BY <1>1, LoopFields
  <2> HIDE DEF j
  <2>3. Pend(g, s) = 0
    BY <1>1, <1>2, <1>3, <2>1, PendCall
  <2> HIDE DEF g, k
  <2>4. Plugged(j, s, T, C, N, Pend(g, s))
    BY <1>1, <1>2, <1>7, <2>2, <2>3, FlushedPlugs
  <2>5. Wires(g, T, C, N)
    BY <1>1, <1>3, <1>5, <1>7, <2>1, <2>4, WireCall
  <2> QED BY <2>5 DEF g, k
<1>8. CASE ~k.destroyed /\ ~k.closed /\ k.writeQ = <<>> /\ ~k.wantClose
  <2>1. Is(g, h, s, k, h.openCount, Append(h.tail, CallOf("read", s, id, 0)), h.turns)
    BY <1>1, <1>5, <1>8, TurnIs
  <2>2. Pend(g, s) = Pend(h, s)
    BY <1>1, <1>3, <2>1, PendCall
  <2> HIDE DEF g, k
  <2>3. Wires(g, T, C, N)
    BY <1>1, <1>3, <1>5, <1>8, <2>1, <2>2, WireCall
  <2> QED BY <2>3 DEF g, k
<1> QED
  BY <1>4, <1>6, <1>7, <1>8

(* A turn queued for a socket that has its handle.                         *)
LEMMA WireTurn ==
    ASSUME NEW h \in HeapType, NEW s \in Socks, NEW T, NEW C, NEW N, Wiring(h, s, T, C, N),
           NEW g, NEW j, NEW n, NEW id \in Nat,
           Is(g, h, s, j, n, h.tail, Append(h.turns, [s |-> s, id |-> id])),
           Owned(s, id, T, C, N), Plugged(j, s, T, C, N, Pend(g, s))
    PROVE  Wires(g, T, C, N)
<1> DEFINE x == [s |-> s, id |-> id]  t == Append(h.turns, x)
<1>1. x.s = s /\ x.id = id /\ Range(t) = Range(h.turns) \cup {x}
  BY TurnAdds
<1>2. Is(g, h, s, j, n, h.tail, t)
  OBVIOUS
<1> HIDE DEF x, t
<1>3. TurnOk(x, s, T, C, N)
  BY <1>1 DEF TurnOk
<1> QED
  BY <1>1, <1>2, <1>3, WireStep

(* A unit accepted.                                                        *)
LEMMA QueuedPlugs ==
    ASSUME NEW k \in SockType, ~k.flushed, NEW T, NEW C, ConnsOk(T, C), NEW s, NEW N, NEW p \in Nat,
           Plugged(k, s, T, C, N, p), NEW j, j.handle = k.handle, j.destroyed = k.destroyed,
           j.flushed = k.flushed, j.rx = k.rx, j.written = k.written + 1,
           j.writeQ = Append(k.writeQ, k.written + 1)
    PROVE  Plugged(j, s, T, C, N, p)
<1>1. k.writeQ \in Seq(Nat) /\ k.written \in Nat
  BY DEF SockType
<1>2. ASSUME ~k.destroyed, k.handle # NoHandle, Up(k.handle, T, C)
      PROVE  Carries(j, C[T[k.handle].c], T[k.handle].c, p)
  <2> DEFINE e == C[T[k.handle].c]  n == Len(e.got)  m == n + p
  <2>1. Carries(k, e, T[k.handle].c, p)
    BY <1>2 DEF Plugged, Linked
  <2>2. n \in Nat
    BY <1>2, UpConn DEF Up
  <2>3. From1(k.writeQ, m) /\ k.written = m + Len(k.writeQ)
    BY <2>1 DEF Carries
  <2> HIDE DEF n
  <2>4. m \in Nat
    BY <2>2
  <2> HIDE DEF m
  <2>5. From1(j.writeQ, m)
    BY <1>1, <2>3, <2>4, From1Grows
  <2>6. Len(j.writeQ) = Len(k.writeQ) + 1 /\ Len(k.writeQ) \in Nat
    BY <1>1
  <2>7. j.written = m + Len(j.writeQ)
    BY <2>3, <2>4, <2>6
  <2> QED BY <2>1, <2>5, <2>7 DEF Carries, n, m
<1>3. Linked(j, T, C, p)
  BY <1>2 DEF Linked
<1> QED
  BY <1>3 DEF Plugged, Owns, RxOk

(* A write.                                                                *)
LEMMA AcceptWires ==
    ASSUME NEW h, NEW s \in Socks, HeapInv(h), ~h.sock[s].destroyed, ~h.sock[s].closed,
           NEW T, NEW C, NEW N, ConnsOk(T, C), Wires(h, T, C, N)
    PROVE  Wires(Accept(h, s), T, C, N)
<1> DEFINE k == h.sock[s]  g == Accept(h, s)
<1>1. /\ h \in HeapType /\ k \in SockType /\ k.handle \in Nat /\ Wiring(h, s, T, C, N)
      /\ Plugged(k, s, T, C, N, Pend(h, s)) /\ Pend(h, s) \in Nat /\ ~k.flushed
  BY Idle, Served1 DEF Wires, Wiring, Wire, Pend, Life
<1>2. CASE k.handle = NoHandle
  <2> DEFINE j == Waiting(k)
  <2>1. Is(g, h, s, j, h.openCount, h.tail, h.turns)
    BY <1>1, <1>2, AcceptIs
  <2>2. j.handle = k.handle /\ j.destroyed = k.destroyed /\ j.flushed = k.flushed /\ j.rx = k.rx
    <3> HIDE DEF k
    <3> QED BY <1>1, OpeningFields DEF Same
  <2> HIDE DEF j, g, k
  <2>3. Plugged(j, s, T, C, N, Pend(g, s))
    BY <1>1, <1>2, <2>2 DEF Plugged, Linked, Owns, RxOk
  <2>4. Wires(g, T, C, N)
    BY <1>1, <2>1, <2>3, WireSame
  <2> QED BY <2>4 DEF g
<1>3. ASSUME k.handle # NoHandle
      PROVE  Plugged(Queued(k), s, T, C, N, Pend(h, s)) /\ Plugged(Started(Queued(k)), s, T, C, N, Pend(h, s))
  <2> HIDE DEF k
  <2>1. LET j == Queued(k) IN
        /\ j \in SockType /\ j.handle = k.handle /\ j.destroyed = k.destroyed /\ j.flushed = k.flushed
        /\ j.rx = k.rx /\ j.written = k.written + 1 /\ j.writeQ = Append(k.writeQ, k.written + 1)
    BY <1>1, OpeningFields, AcceptUpdates DEF Same
  <2> DEFINE j == Queued(k)
  <2> HIDE DEF j
  <2>2. Plugged(j, s, T, C, N, Pend(h, s))
    BY <1>1, <2>1, QueuedPlugs DEF j
  <2>3. LET i == Started(j) IN
        i.handle = j.handle /\ i.destroyed = j.destroyed /\ i.flushed = j.flushed /\ SameBytes(i, j)
    BY <2>1, LoopFields DEF j
  <2> DEFINE i == Started(j)
  <2> HIDE DEF i
  <2>4. Plugged(i, s, T, C, N, Pend(h, s))
    BY <2>2, <2>3, PluggedSame DEF i, SameBytes
  <2> QED BY <2>2, <2>4 DEF i, j
<1>4. CASE k.handle # NoHandle /\ k.loopRunning
  <2>1. Is(g, h, s, Queued(k), h.openCount, h.tail, h.turns)
    BY <1>1, <1>4, AcceptIs
  <2> HIDE DEF g, k
  <2>2. Pend(g, s) = Pend(h, s)
    BY <2>1 DEF Is, Pend
  <2>3. Wires(g, T, C, N)
    BY <1>1, <1>3, <1>4, <2>1, <2>2, WireSame
  <2> QED BY <2>3 DEF g
<1>5. CASE k.handle # NoHandle /\ ~k.loopRunning
  <2>1. Is(g, h, s, Started(Queued(k)), h.openCount, h.tail, Append(h.turns, [s |-> s, id |-> k.handle]))
    BY <1>1, <1>5, AcceptIs
  <2> HIDE DEF g
  <2>2. Pend(g, s) = Pend(h, s)
    BY <2>1 DEF Is, Pend
  <2>3. Owned(s, k.handle, T, C, N)
    BY <1>1, <1>5 DEF Plugged
  <2> HIDE DEF k
  <2>4. Wires(g, T, C, N)
    BY <1>1, <1>3, <1>5, <2>1, <2>2, <2>3, WireTurn
  <2> QED BY <2>4 DEF g
<1>6. k.loopRunning \in BOOLEAN
  BY <1>1 DEF SockType
<1> QED
  BY <1>2, <1>4, <1>5, <1>6

(* The host's table and connections move from T, C, N to U, D, M, and what *)
(* socket r sees of them does not: its handles, and its live connections.  *)
Holds(r, T, C, N, U, D, M) ==
    \A i : Owned(r, i, T, C, N) =>
       /\ Owned(r, i, U, D, M)
       /\ Up(i, U, D) => /\ Up(i, T, C) /\ U[i].c = T[i].c
                         /\ D[U[i].c].got = C[T[i].c].got /\ D[U[i].c].read = C[T[i].c].read
Lives(r, T, C, U, D) ==
    \A c \in 1..Len(D) : D[c].up /\ D[c].owner = r =>
       /\ c \in 1..Len(C) /\ C[c].up /\ C[c].owner = r /\ D[c].got = C[c].got
       /\ \A i \in DOMAIN T : T[i].c = c => i \in DOMAIN U /\ U[i].c = c
Grows(C, D) == \A c \in 1..Len(C) : c \in 1..Len(D) /\ D[c].owner = C[c].owner
Steady(r, T, C, N, U, D, M) == Holds(r, T, C, N, U, D, M) /\ Lives(r, T, C, U, D)

(* What was delivered stays delivered.                                     *)
LEMMA RxGrows ==
    ASSUME NEW k, NEW s, NEW C, NEW D, Grows(C, D), RxOk(k, s, C)
    PROVE  RxOk(k, s, D)
  BY DEF Grows, RxOk

(* The calls and turns of a socket that holds its handles.                 *)
LEMMA HoldsCalls ==
    ASSUME NEW h, NEW r, NEW T, NEW C, NEW N, NEW U, NEW D, NEW M, Holds(r, T, C, N, U, D, M)
    PROVE  /\ \A c : CallOk(c, r, T, C, N) => CallOk(c, r, U, D, M)
           /\ \A t : TurnOk(t, r, T, C, N) => TurnOk(t, r, U, D, M)
<1>1. ASSUME NEW c, CallOk(c, r, T, C, N) PROVE CallOk(c, r, U, D, M)
  <2>1. c \in Writes(r) => c \in Loops(r)
    BY DEF Writes, Loops
  <2> QED BY <1>1, <2>1 DEF CallOk, Holds
<1>2. ASSUME NEW t, TurnOk(t, r, T, C, N) PROVE TurnOk(t, r, U, D, M)
  BY <1>2 DEF TurnOk, Holds
<1> QED
  BY <1>1, <1>2

(* So is the socket itself,                                                *)
LEMMA SteadyPlugs ==
    ASSUME NEW k, NEW r, NEW T, NEW C, NEW N, NEW U, NEW D, NEW M, NEW p,
           Steady(r, T, C, N, U, D, M), Grows(C, D), Plugged(k, r, T, C, N, p)
    PROVE  Plugged(k, r, U, D, M, p)
<1>1. k.handle # NoHandle /\ ~k.destroyed => Owned(r, k.handle, T, C, N) /\ Owned(r, k.handle, U, D, M)
  BY DEF Plugged, Steady, Holds
<1>2. Linked(k, U, D, p)
  <2> SUFFICES ASSUME ~k.destroyed, k.handle # NoHandle, Up(k.handle, U, D)
               PROVE  Carries(k, D[U[k.handle].c], U[k.handle].c, p)
    BY DEF Linked
  <2> DEFINE e == D[U[k.handle].c]  f == C[T[k.handle].c]
  <2>1. Up(k.handle, T, C) /\ U[k.handle].c = T[k.handle].c /\ e.got = f.got /\ e.read = f.read
    BY <1>1 DEF Steady, Holds
  <2>2. Carries(k, f, T[k.handle].c, p)
    BY <2>1 DEF Plugged, Linked
  <2> HIDE DEF e, f
  <2>3. Carries(k, e, U[k.handle].c, p)
    BY <2>1, <2>2 DEF Carries
  <2> QED BY <2>3 DEF e
<1>3. Owns(k, r, U, D)
  BY DEF Owns, Plugged, Steady, Lives
<1>4. RxOk(k, r, D)
  BY RxGrows DEF Plugged
<1> QED
  BY <1>1, <1>2, <1>3, <1>4 DEF Plugged

(* and all of it,                                                          *)
LEMMA SteadyWire ==
    ASSUME NEW h, NEW r, NEW T, NEW C, NEW N, NEW U, NEW D, NEW M, NEW p,
           Steady(r, T, C, N, U, D, M), Grows(C, D), Wire(h, r, T, C, N, p)
    PROVE  Wire(h, r, U, D, M, p)
<1>1. Holds(r, T, C, N, U, D, M)
  BY DEF Steady
<1>2. Plugged(h.sock[r], r, U, D, M, p)
  BY SteadyPlugs DEF Wire
<1> QED
  BY <1>1, <1>2, HoldsCalls DEF Wire

(* for every socket.                                                       *)
LEMMA SteadyWires ==
    ASSUME NEW h, NEW T, NEW C, NEW N, NEW U, NEW D, NEW M, Grows(C, D),
           \A r \in Socks : Steady(r, T, C, N, U, D, M), Wires(h, T, C, N)
    PROVE  Wires(h, U, D, M)
  BY SteadyWire DEF Wires

(* All sockets but s, whose handles stay its own.                          *)
LEMMA SteadyWiring ==
    ASSUME NEW h, NEW s \in Socks, NEW T, NEW C, NEW N, NEW U, NEW D, NEW M, Grows(C, D),
           \A r \in Socks : r # s => Steady(r, T, C, N, U, D, M), Wiring(h, s, T, C, N),
           \/ Holds(s, T, C, N, U, D, M)
           \/ /\ ~In(h.tail, Writes(s))
              /\ \A i : Owned(s, i, T, C, N) => Owned(s, i, U, D, M)
    PROVE  Wiring(h, s, U, D, M)
<1>1. \A r \in Socks : r # s => Wire(h, r, U, D, M, Pend(h, r))
  BY SteadyWire DEF Wiring
<1>2. CASE Holds(s, T, C, N, U, D, M)
  BY <1>1, <1>2, HoldsCalls DEF Wiring
<1>3. CASE ~In(h.tail, Writes(s)) /\ \A i : Owned(s, i, T, C, N) => Owned(s, i, U, D, M)
  BY <1>1, <1>3 DEF Wiring, CallOk, TurnOk, In
<1> QED
  BY <1>2, <1>3

(* All sockets are all but s, and s.                                       *)
LEMMA WiresOf ==
    ASSUME NEW h, NEW s \in Socks, NEW T, NEW C, NEW N
    PROVE  Wires(h, T, C, N) <=> Wiring(h, s, T, C, N) /\ Plugged(h.sock[s], s, T, C, N, Pend(h, s))
  BY DEF Wires, Wiring, Wire

(* The call that is served, taken off the tail.                            *)
LEMMA CallWires ==
    ASSUME NEW h, HeapInv(h), h.tail # <<>>, NEW T, NEW C, NEW N, Wires(h, T, C, N)
    PROVE  LET c == Head(h.tail)  s == c.s  g == [h EXCEPT !.tail = Tail(@)] IN
           /\ CallOk(c, s, T, C, N) /\ Wiring(g, s, T, C, N)
           /\ c.op # "write" => Wires(g, T, C, N)
           /\ c.op = "write" => Plugged(g.sock[s], s, T, C, N, 1) /\ Pend(g, s) = 0
<1> DEFINE c == Head(h.tail)  s == c.s  g == [h EXCEPT !.tail = Tail(@)]
<1>1. /\ c \in CallType /\ s \in Socks /\ g.sock = h.sock /\ g.turns = h.turns
      /\ Range(h.tail) = {c} \cup Range(g.tail)
      /\ c.op = "write" => ~In(g.tail, Loops(s))
  BY CallPops
<1> HIDE DEF c, g
<1>2. \A r \in Socks : Wire(h, r, T, C, N, Pend(h, r))
  BY DEF Wires
<1>3. \A r \in Socks : ~(r = s /\ c.op = "write") => Pend(g, r) = Pend(h, r)
  <2> SUFFICES ASSUME NEW r \in Socks, ~(r = s /\ c.op = "write")
               PROVE  Pend(g, r) = Pend(h, r)
    OBVIOUS
  <2>1. c \notin Writes(r)
    BY DEF Writes
  <2> QED BY <1>1, <2>1 DEF Pend, In
<1>4. \A r \in Socks : /\ \A x \in Range(g.tail) : CallOk(x, r, T, C, N)
                       /\ \A x \in Range(g.turns) : TurnOk(x, r, T, C, N)
                       /\ Plugged(g.sock[r], r, T, C, N, Pend(h, r))
  BY <1>1, <1>2 DEF Wire
<1>5. CallOk(c, s, T, C, N)
  BY <1>1, <1>2 DEF Wire
<1>6. Wiring(g, s, T, C, N)
  BY <1>1, <1>3, <1>4 DEF Wiring, Wire
<1>7. c.op # "write" => Wires(g, T, C, N)
  BY <1>3, <1>4 DEF Wires, Wire
<1>8. ASSUME c.op = "write" PROVE Plugged(g.sock[s], s, T, C, N, 1) /\ Pend(g, s) = 0
  <2>1. c \in Writes(s)
    BY <1>1, <1>8 DEF Writes
  <2>2. Pend(h, s) = 1
    BY <1>1, <2>1 DEF Pend, In
  <2> QED BY <1>1, <1>4, <1>8, <2>2, PendNone
<1> QED
  BY <1>5, <1>6, <1>7, <1>8 DEF c, g

(* A turn is taken.                                                        *)
LEMMA TurnPopWires ==
    ASSUME NEW h, HeapInv(h), h.turns # <<>>, NEW T, NEW C, NEW N, Wires(h, T, C, N)
    PROVE  Wires([h EXCEPT !.turns = Tail(@)], T, C, N)
<1> DEFINE g == [h EXCEPT !.turns = Tail(@)]
<1>1. g.sock = h.sock /\ g.tail = h.tail /\ Range(g.turns) \subseteq Range(h.turns)
  BY TurnPops
<1> HIDE DEF g
<1>2. Wires(g, T, C, N)
  BY <1>1 DEF Wires, Wire, Pend
<1> QED
  BY <1>2 DEF g

(* One connection changes, or a handle is dropped, without r noticing.     *)
Apart(r, T, C, U, D, c0) ==
    /\ DOMAIN U \subseteq DOMAIN T /\ \A i \in DOMAIN U : U[i] = T[i]
    /\ Len(D) = Len(C) /\ \A c \in 1..Len(C) : c # c0 => D[c] = C[c]
    /\ D[c0].owner = C[c0].owner
    /\ \/ C[c0].owner # r
       \/ D[c0].up => C[c0].up /\ D[c0].got = C[c0].got /\ D[c0].read = C[c0].read
    /\ \A i \in DOMAIN T : i \in DOMAIN U \/ D[T[i].c].owner # r \/ ~D[T[i].c].up

(* r sees the same.                                                        *)
LEMMA UpdateSteady ==
    ASSUME NEW r, NEW T, NEW C, NEW N, ConnsOk(T, C), NEW U, NEW D, NEW c0, Apart(r, T, C, U, D, c0)
    PROVE  Steady(r, T, C, N, U, D, N) /\ Grows(C, D)
<1>1. Grows(C, D)
  BY DEF Grows, Apart
<1>2. Lives(r, T, C, U, D)
  BY DEF Lives, Apart
<1>3. ASSUME NEW i, Owned(r, i, T, C, N), i \in DOMAIN U
      PROVE  /\ D[U[i].c].owner = r
             /\ D[U[i].c].up => /\ C[T[i].c].up /\ U[i].c = T[i].c
                                /\ D[U[i].c].got = C[T[i].c].got /\ D[U[i].c].read = C[T[i].c].read
  <2>1. i \in DOMAIN T /\ U[i] = T[i] /\ T[i].c \in 1..Len(C) /\ C[T[i].c].owner = r
    BY <1>3 DEF Owned, ConnsOk, Apart
  <2>2. CASE T[i].c = c0
    BY <2>1, <2>2 DEF Apart
  <2>3. CASE T[i].c # c0
    BY <2>1, <2>3 DEF Apart
  <2> QED BY <2>2, <2>3
<1>4. Holds(r, T, C, N, U, D, N)
  BY <1>3 DEF Holds, Owned, Up, Apart
<1> QED
  BY <1>1, <1>2, <1>4 DEF Steady

(* A connection that was just opened.                                      *)
LEMMA FreshIs ==
    ASSUME NEW s, NEW e, e = Fresh(s)
    PROVE  e.owner = s /\ e.got = <<>> /\ e.read = 0 /\ e.up
  BY DEF Fresh

(* A new connection for s under the next handle.                           *)
Adding(T, C, N, s, U, D) ==
    /\ N \in Nat \ {NoHandle} /\ N \notin DOMAIN T
    /\ DOMAIN U = DOMAIN T \cup {N} /\ \A i \in DOMAIN T : U[i] = T[i]
    /\ U[N].c = Len(C) + 1 /\ Len(D) = Len(C) + 1
    /\ \A c \in 1..Len(C) : D[c] = C[c]
    /\ D[Len(C) + 1] = Fresh(s)

(* The other sockets see the same, and the handle is the socket's own.     *)
LEMMA AddedHolds ==
    ASSUME NEW r, NEW T, NEW C, NEW N, ConnsOk(T, C), NEW U, NEW D, NEW s,
           Adding(T, C, N, s, U, D)
    PROVE  /\ Holds(r, T, C, N, U, D, N + 1) /\ Grows(C, D)
           /\ r # s => Steady(r, T, C, N, U, D, N + 1)
           /\ Owned(s, N, U, D, N + 1)
<1> DEFINE n == Len(C)  e == Fresh(s)
<1>1. n \in Nat /\ e.owner = s /\ e.got = <<>> /\ e.read = 0 /\ e.up
  BY FreshIs DEF ConnsOk
<1> HIDE DEF e
<1>2. /\ N \in Nat /\ N # NoHandle /\ N \notin DOMAIN T /\ DOMAIN U = DOMAIN T \cup {N}
      /\ \A i \in DOMAIN T : U[i] = T[i]
      /\ U[N].c = n + 1 /\ Len(D) = n + 1 /\ (\A c \in 1..n : D[c] = C[c]) /\ D[n + 1] = e
  BY DEF Adding, e
<1>3. \A i \in DOMAIN T : T[i].c \in 1..n
  BY DEF ConnsOk
<1>4. Grows(C, D)
  <2>1. 1..n \subseteq 1..(n + 1)
    BY <1>1
  <2> QED BY <1>2, <2>1 DEF Grows
<1> HIDE DEF n
<1>5. Holds(r, T, C, N, U, D, N + 1)
  <2> SUFFICES ASSUME NEW i, Owned(r, i, T, C, N)
               PROVE  /\ Owned(r, i, U, D, N + 1)
                      /\ Up(i, U, D) => /\ Up(i, T, C) /\ U[i].c = T[i].c
                            /\ D[U[i].c].got = C[T[i].c].got /\ D[U[i].c].read = C[T[i].c].read
    BY DEF Holds
  <2>1. i \in Nat /\ i # NoHandle /\ i < N /\ (i \in DOMAIN T => C[T[i].c].owner = r)
    BY DEF Owned
  <2>2. i # N /\ i < N + 1
    BY <1>2, <2>1
  <2>3. i \in DOMAIN U => i \in DOMAIN T /\ U[i] = T[i] /\ D[U[i].c] = C[T[i].c]
    BY <1>2, <1>3, <2>2
  <2> QED BY <2>1, <2>2, <2>3 DEF Owned, Up
<1>6. ASSUME r # s PROVE Lives(r, T, C, U, D)
  <2> SUFFICES ASSUME NEW c \in 1..Len(D), D[c].up, D[c].owner = r
               PROVE  /\ c \in 1..n /\ C[c].up /\ C[c].owner = r /\ D[c].got = C[c].got
                      /\ \A i \in DOMAIN T : T[i].c = c => i \in DOMAIN U /\ U[i].c = c
    BY DEF Lives, n
  <2>1. c # n + 1
    BY <1>1, <1>2, <1>6
  <2>2. c \in 1..n
    BY <1>1, <1>2, <2>1
  <2> QED BY <1>2, <2>2
<1>7. Owned(s, N, U, D, N + 1)
  <2>1. N < N + 1
    BY <1>2
  <2> QED BY <1>1, <1>2, <2>1 DEF Owned
<1> QED
  BY <1>4, <1>5, <1>6, <1>7 DEF Steady

(* The socket that asked for it.                                           *)
LEMMA AddedPlugs ==
    ASSUME NEW k \in SockType, NEW s, NEW T, NEW C, NEW N, NEW p, ConnsOk(T, C), Plugged(k, s, T, C, N, p),
           NEW U, NEW D, Adding(T, C, N, s, U, D), ~k.flushed
    PROVE  /\ k.destroyed => Plugged(k, s, U, D, N + 1, p)
           /\ ~k.destroyed /\ k.handle = NoHandle /\ From1(k.preQ, 0) /\ Len(k.preQ) = k.written =>
                 \A j : j.handle = N /\ ~j.flushed /\ j.writeQ = k.preQ /\ j.written = k.written /\ j.rx = <<>>
                        => Plugged(j, s, U, D, N + 1, 0)
<1> DEFINE n == Len(C)  e == Fresh(s)
<1>1. n \in Nat /\ e.owner = s /\ e.got = <<>> /\ e.read = 0 /\ e.up /\ k.written \in Nat
  BY FreshIs DEF ConnsOk, SockType
<1> HIDE DEF e
<1>2. /\ DOMAIN U = DOMAIN T \cup {N} /\ U[N].c = n + 1 /\ Len(D) = n + 1
      /\ (\A c \in 1..n : D[c] = C[c]) /\ D[n + 1] = e
  BY DEF Adding, e
<1>3. Grows(C, D) /\ Owned(s, N, U, D, N + 1)
  BY AddedHolds
<1>4. k.destroyed => Plugged(k, s, U, D, N + 1, p)
  BY <1>3, RxGrows DEF Plugged, Linked, Owns
<1>5. ASSUME NEW j, ~k.destroyed, k.handle = NoHandle, From1(k.preQ, 0), Len(k.preQ) = k.written,
             j.handle = N, ~j.flushed, j.writeQ = k.preQ, j.written = k.written, j.rx = <<>>
      PROVE  Plugged(j, s, U, D, N + 1, 0)
  <2>1. \A c \in 1..n : ~(C[c].up /\ C[c].owner = s)
    BY <1>5 DEF Plugged, Owns, n
  <2> HIDE DEF n
  <2>2. \A c \in 1..Len(D) : D[c].up /\ D[c].owner = s => c = n + 1
    <3> SUFFICES ASSUME NEW c \in 1..Len(D), c # n + 1 PROVE ~(D[c].up /\ D[c].owner = s)
      OBVIOUS
    <3>1. c \in 1..n
      BY <1>1, <1>2
    <3> QED BY <1>2, <2>1, <3>1
  <2>3. Owns(j, s, U, D)
    <3>1. j.handle # NoHandle
      BY <1>3, <1>5 DEF Owned
    <3> QED BY <1>2, <1>5, <2>2, <3>1 DEF Owns
  <2>4. Linked(j, U, D, 0)
    <3>1. Len(e.got) = 0 /\ Len(j.rx) = 0
      BY <1>1, <1>5
    <3>2. k.written = 0 + 0 + k.written /\ 0 + 0 = 0
      BY <1>1
    <3>3. From1(j.writeQ, Len(e.got) + 0)
      BY <1>5, <3>1, <3>2
    <3>4. j.written = Len(e.got) + 0 + Len(j.writeQ)
      BY <1>5, <3>1, <3>2
    <3>5. Carries(j, e, n + 1, 0)
      BY <1>1, <1>5, <3>1, <3>3, <3>4 DEF Carries
    <3> QED BY <1>2, <1>5, <3>5 DEF Linked
  <2>5. RxOk(j, s, D)
    BY <1>5 DEF RxOk
  <2> QED BY <1>3, <1>5, <2>3, <2>4, <2>5 DEF Plugged
<1> QED
  BY <1>4, <1>5

(* The callback of the open.                                               *)
LEMMA OpenedWires ==
    ASSUME NEW h, NEW s \in Socks, Serving(h, s, "open"), NEW T, NEW C, NEW N, ConnsOk(T, C),
           Wires(h, T, C, N), NEW U, NEW D, Adding(T, C, N, s, U, D)
    PROVE  Wires(Opened(h, s, N), U, D, N + 1)
<1> DEFINE k == h.sock[s]  g == Opened(h, s, N)
<1>1. /\ h \in HeapType /\ k \in SockType /\ k.destroyed \in BOOLEAN /\ ~k.flushed /\ N \in Nat /\ N # NoHandle
      /\ Wiring(h, s, T, C, N) /\ Plugged(k, s, T, C, N, Pend(h, s)) /\ k.handle \in Nat
  BY Served1, WiresOf DEF SockInv, Adding
<1>2. Wiring(h, s, U, D, N + 1) /\ Owned(s, N, U, D, N + 1)
  <2>1. /\ Grows(C, D) /\ Holds(s, T, C, N, U, D, N + 1) /\ Owned(s, N, U, D, N + 1)
        /\ \A r \in Socks : r # s => Steady(r, T, C, N, U, D, N + 1)
    BY AddedHolds
  <2> DEFINE M == N + 1
  <2> HIDE DEF M
  <2>2. Wiring(h, s, U, D, M)
    BY <1>1, <2>1, SteadyWiring DEF M
  <2> QED BY <2>1, <2>2 DEF M
<1>3. CASE k.destroyed
  <2> DEFINE j == Uncounted(k)
  <2>1. Is(g, h, s, j, Less(h, s), Append(h.tail, CallOf("close", s, N, 0)), h.turns)
    BY <1>1, <1>3, OpenedIs
  <2>2. "close" \in Ops /\ 0 \in Nat
    BY DEF Ops
  <2>3. Pend(g, s) = Pend(h, s)
    BY <1>1, <2>1, <2>2, PendCall
  <2>4. j.destroyed = k.destroyed /\ j.handle = k.handle /\ j.flushed = k.flushed /\ SameBytes(j, k)
    <3> HIDE DEF k
    <3> QED BY <1>1, ClosingFields
  <2> HIDE DEF g, j, k
  <2>5. Plugged(k, s, U, D, N + 1, Pend(h, s))
    BY <1>1, <1>3, AddedPlugs
  <2>6. Plugged(j, s, U, D, N + 1, Pend(g, s))
    BY <2>3, <2>4, <2>5, PluggedSame DEF SameBytes
  <2>7. Wires(g, U, D, N + 1)
    BY <1>1, <1>2, <2>1, <2>2, <2>6, WireCall
  <2> QED BY <2>7 DEF g
<1>4. CASE ~k.destroyed
  <2> DEFINE i == Attached(k, N)  j == Started(i)  x == [s |-> s, id |-> N]  t == Append(h.turns, x)
             c == CallOf("startTls", s, N, 0)
  <2>1. /\ k.handle = NoHandle /\ ~k.closed /\ ~k.loopRunning /\ ~Looping(h, s)
        /\ From1(k.preQ, 0) /\ Len(k.preQ) = k.written /\ k.rx = <<>>
    BY <1>4, OpeningIs
  <2>2. PICK q \in {h.tail, Append(h.tail, c)} : Is(g, h, s, j, h.openCount, q, t)
    BY <1>1, <1>4, <2>1, OpenedIs
  <2>3. /\ j.handle = N /\ j.flushed = k.flushed /\ j.writeQ = k.preQ /\ j.written = k.written
        /\ j.rx = k.rx
    <3> HIDE DEF k
    <3>1. i \in SockType
      BY <1>1, AttachUpdates
    <3>2. i.handle = N /\ i.flushed = k.flushed /\ i.writeQ = k.preQ /\ i.written = k.written /\ i.rx = k.rx
      BY <1>1, OpeningFields
    <3> HIDE DEF i
    <3> QED BY <3>1, <3>2, LoopFields DEF SameBytes
  <2> HIDE DEF i, j, k
  <2>4. Plugged(j, s, U, D, N + 1, 0)
    BY <1>1, <1>4, <2>1, <2>3, AddedPlugs
  <2>5. x.s = s /\ x.id = N /\ Range(t) = Range(h.turns) \cup {x}
    BY <1>1, TurnAdds
  <2>6. c.s = s /\ c.op = "startTls" /\ c \in CallType
    BY <1>1 DEF CallOf, CallType
  <2> HIDE DEF c, x, t
  <2>7. Range(Append(h.tail, c)) = Range(h.tail) \cup {c}
    <3>1. h.tail \in Seq(CallType)
      BY <1>1, HeapFields
    <3> QED BY <2>6, <3>1, AfterAppend
  <2>8. Range(q) = Range(h.tail) \/ Range(q) = Range(h.tail) \cup {c}
    BY <2>2, <2>7
  <2>9. CallOk(c, s, U, D, N + 1) /\ TurnOk(x, s, U, D, N + 1)
    BY <1>2, <2>5, <2>6 DEF CallOk, TurnOk, Loops, Closes, Writes
  <2>10. Pend(g, s) = 0
    <3>1. g.tail = q
      BY <2>2 DEF Is
    <3>2. c \notin Writes(s)
      BY <2>6 DEF Writes
    <3>3. ~In(h.tail, Writes(s))
      BY <2>1 DEF Looping, In, Loops, Writes
    <3> QED BY <2>8, <3>1, <3>2, <3>3 DEF Pend, In
  <2> HIDE DEF g
  <2>11. Wires(g, U, D, N + 1)
    BY <1>2, <2>2, <2>4, <2>5, <2>6, <2>8, <2>9, <2>10, WireStep
  <2> QED BY <2>11 DEF g
<1> QED
  BY <1>1, <1>3, <1>4

(* The connection c0 of s moves a byte: D is C but for it.                 *)
Moves(T, C, D, c0, s) ==
    /\ ConnsOk(T, C) /\ Len(D) = Len(C) /\ \A c \in 1..Len(C) : c # c0 => D[c] = C[c]
    /\ c0 \in 1..Len(C) /\ C[c0].owner = s /\ D[c0].owner = s /\ D[c0].up = C[c0].up

(* The other sockets see the same.                                         *)
LEMMA MoveWiring ==
    ASSUME NEW h, NEW s \in Socks, NEW T, NEW C, NEW N, NEW D, NEW c0, Moves(T, C, D, c0, s),
           Wiring(h, s, T, C, N), ~In(h.tail, Loops(s))
    PROVE  /\ Wiring(h, s, T, D, N) /\ Grows(C, D)
           /\ \A i : Owned(s, i, T, C, N) => Owned(s, i, T, D, N)
<1>1. ASSUME NEW r \in Socks, r # s PROVE Steady(r, T, C, N, T, D, N)
  <2>1. Apart(r, T, C, T, D, c0) /\ ConnsOk(T, C)
    BY <1>1 DEF Moves, Apart
  <2> QED BY <2>1, UpdateSteady
<1>2. Grows(C, D)
  BY DEF Moves, Grows
<1>3. \A i : Owned(s, i, T, C, N) => Owned(s, i, T, D, N)
  BY <1>2 DEF Owned, Grows, Moves, ConnsOk
<1>4. ~In(h.tail, Writes(s))
  BY DEF In, Writes, Loops
<1> QED
  BY <1>1, <1>2, <1>3, <1>4, SteadyWiring

(* A unit of s arrives.                                                    *)
LEMMA WriteWires ==
    ASSUME NEW h, NEW s \in Socks, NEW T, NEW C, NEW N, NEW D, NEW c0, Moves(T, C, D, c0, s),
           Wiring(h, s, T, C, N), ~In(h.tail, Loops(s)),
           Plugged(h.sock[s], s, T, C, N, 1), ~h.sock[s].flushed,
           h.sock[s].handle \in DOMAIN T, T[h.sock[s].handle].c = c0,
           Len(D[c0].got) = Len(C[c0].got) + 1, D[c0].read = C[c0].read
    PROVE  Wires(h, T, D, N)
<1> DEFINE k == h.sock[s]
<1> HIDE DEF k
<1>1. /\ Wiring(h, s, T, D, N) /\ Grows(C, D) /\ \A i : Owned(s, i, T, C, N) => Owned(s, i, T, D, N)
      /\ Plugged(k, s, T, C, N, 1) /\ ~k.flushed /\ k.handle \in DOMAIN T /\ T[k.handle].c = c0
  BY MoveWiring DEF k
<1>2. Linked(k, T, D, 0)
  <2> SUFFICES ASSUME ~k.destroyed, k.handle # NoHandle, Up(k.handle, T, D)
               PROVE  Carries(k, D[c0], c0, 0)
    BY <1>1 DEF Linked
  <2>1. Up(k.handle, T, C)
    BY <1>1 DEF Up, Moves
  <2>2. Carries(k, C[c0], c0, 1)
    BY <1>1, <2>1 DEF Plugged, Linked
  <2> DEFINE n == Len(C[c0].got)  m == Len(D[c0].got)
  <2>3. n \in Nat
    BY <1>1, UpConn DEF Moves
  <2>4. m = n + 1 /\ From1(k.writeQ, n + 1) /\ k.written = n + 1 + Len(k.writeQ)
    BY <2>2 DEF Carries
  <2> HIDE DEF m, n
  <2>5. m + 0 = n + 1
    BY <2>3, <2>4
  <2>6. From1(k.writeQ, m + 0) /\ k.written = m + 0 + Len(k.writeQ)
    BY <2>4, <2>5
  <2> QED BY <2>2, <2>6 DEF Carries, m
<1>3. Owns(k, s, T, D)
  BY <1>1 DEF Plugged, Owns, Moves
<1>4. Plugged(k, s, T, D, N, 0)
  BY <1>1, <1>2, <1>3, RxGrows DEF Plugged
<1>5. Pend(h, s) = 0
  BY PendNone
<1> QED
  BY <1>1, <1>4, <1>5, WiresOf DEF k

(* A write of s that finds its connection gone.                            *)
LEMMA LostWires ==
    ASSUME NEW h, NEW s \in Socks, NEW T, NEW C, NEW N, Wiring(h, s, T, C, N), ~In(h.tail, Loops(s)),
           Plugged(h.sock[s], s, T, C, N, 1), ~Up(h.sock[s].handle, T, C)
    PROVE  Wires(h, T, C, N)
<1>1. Plugged(h.sock[s], s, T, C, N, 0)
  BY DEF Plugged, Linked
<1>2. Pend(h, s) = 0
  BY PendNone
<1> QED
  BY <1>1, <1>2, WiresOf

(* A unit from the peer of s, delivered, or read for a destroyed socket.   *)
LEMMA ReadWires ==
    ASSUME NEW h, NEW s \in Socks, NEW T, NEW C, NEW N, NEW D, NEW c0, Moves(T, C, D, c0, s),
           Wires(h, T, C, N), ~In(h.tail, Loops(s)), ~h.sock[s].flushed,
           h.sock[s] \in SockType,
           h.sock[s].handle # NoHandle, h.sock[s].handle \in DOMAIN T, T[h.sock[s].handle].c = c0,
           D[c0].got = C[c0].got, D[c0].read = C[c0].read + 1, C[c0].up
    PROVE  /\ h.sock[s].destroyed => Wires(h, T, D, N)
           /\ ~h.sock[s].destroyed =>
                 \A g, j : /\ Is(g, h, s, j, h.openCount, h.tail, h.turns) /\ Same(j, h.sock[s])
                           /\ j.writeQ = h.sock[s].writeQ /\ j.written = h.sock[s].written
                           /\ j.rx = Append(h.sock[s].rx, <<c0, D[c0].read>>)
                           => Wires(g, T, D, N)
<1> DEFINE k == h.sock[s]
<1>1. Wiring(h, s, T, C, N) /\ Plugged(k, s, T, C, N, Pend(h, s)) /\ Pend(h, s) = 0
  BY WiresOf, PendNone
<1>2. /\ Wiring(h, s, T, D, N) /\ Grows(C, D) /\ \A i : Owned(s, i, T, C, N) => Owned(s, i, T, D, N)
  BY <1>1, MoveWiring
<1>3. ASSUME k.destroyed PROVE Wires(h, T, D, N)
  <2>1. Plugged(k, s, T, D, N, Pend(h, s))
    BY <1>1, <1>2, <1>3, RxGrows DEF Plugged, Linked, Owns
  <2> QED BY <1>2, <2>1, WiresOf
<1>4. ASSUME ~k.destroyed, NEW g, NEW j, Is(g, h, s, j, h.openCount, h.tail, h.turns), Same(j, k),
             j.writeQ = k.writeQ, j.written = k.written, j.rx = Append(k.rx, <<c0, D[c0].read>>)
      PROVE  Wires(g, T, D, N)
  <2>1. Carries(k, C[c0], c0, 0)
    BY <1>1, <1>4 DEF Plugged, Linked, Up
  <2> DEFINE n == C[c0].read  m == D[c0].read  u == <<c0, m>>
  <2>2. n \in Nat /\ m = n + 1 /\ Len(k.rx) = n /\ \A i \in 1..n : k.rx[i] = <<c0, i>>
    <3>1. n \in Nat
      BY UpConn DEF Moves
    <3> QED BY <2>1, <3>1 DEF Carries
  <2>3. k.rx \in Seq(Nat \X Nat) /\ u \in Nat \X Nat /\ c0 \in Nat
    <3>1. k.rx \in Seq(Nat \X Nat) /\ c0 \in 1..Len(C) /\ C \in Seq(ConnType)
      BY DEF SockType, Moves, ConnsOk
    <3>2. m \in Nat
      BY <2>2
    <3> QED BY <3>1, <3>2
  <2> HIDE DEF n, m, k
  <2>4. j.rx = Append(k.rx, u)
    BY <1>4 DEF m, k
  <2>5. Len(j.rx) = m /\ \A i \in 1..m : j.rx[i] = <<c0, i>>
    <3> DEFINE q == k.rx
    <3> HIDE DEF u, q
    <3>1. q \in Seq(Nat \X Nat) /\ u \in Nat \X Nat /\ j.rx = Append(q, u) /\ Len(q) = n
      BY <2>2, <2>3, <2>4 DEF q
    <3>2. Len(j.rx) = n + 1 /\ j.rx[n + 1] = u /\ \A i \in 1..n : j.rx[i] = q[i]
      BY <2>2, <3>1
    <3>3. \A i \in 1..m : i \in 1..n \/ i = m
      BY <2>2
    <3>4. j.rx[m] = <<c0, m>>
      BY <2>2, <3>2 DEF u
    <3> QED BY <2>2, <3>2, <3>3, <3>4 DEF q
  <2>6. j.handle = k.handle /\ j.destroyed = k.destroyed /\ j.flushed = k.flushed
    BY <1>4 DEF Same, k
  <2>7. Linked(j, T, D, 0)
    <3>1. Carries(j, D[c0], c0, 0)
      BY <1>4, <2>1, <2>5 DEF Carries, m, k
    <3> QED BY <2>6, <3>1 DEF Linked, k
  <2>8. Owns(j, s, T, D)
    BY <1>1, <1>4, <2>6 DEF Plugged, Owns, Moves, k
  <2>9. RxOk(j, s, D)
    <3>1. \A i \in 1..m : j.rx[i] = <<c0, i>> /\ j.rx[i][1] = c0
      BY <2>5
    <3>2. m > 0 => 1 \in 1..m
      BY <2>2
    <3>3. m > 0
      BY <2>2
    <3>4. c0 \in 1..Len(D) /\ D[c0].owner = s
      BY DEF Moves
    <3> QED BY <2>5, <3>1, <3>2, <3>3, <3>4 DEF RxOk
  <2>10. Plugged(j, s, T, D, N, 0)
    BY <1>1, <1>2, <2>6, <2>7, <2>8, <2>9 DEF Plugged, k
  <2>11. Pend(g, s) = 0
    BY <1>1, <1>4 DEF Is, Pend
  <2> QED BY <1>2, <1>4, <2>10, <2>11, WireSame
<1> QED
  BY <1>3, <1>4

(* The invariant: the wires of the running heap, what the peers got, and a *)
(* saved heap that holds no live handle.                                   *)
ByteInv ==
    /\ ReachInv /\ Wires(net, table, conn, nextId) /\ GotInv
    /\ Quiet(netSaved) /\ \A s \in Socks : RxOk(netSaved.sock[s], s, conn)
    /\ evictions \in Nat

(* The parts of the invariant a step uses.                                 *)
LEMMA ConnsAre ==
    ASSUME ByteInv
    PROVE  ConnsOk(table, conn) /\ HeapInv(net) /\ Wires(net, table, conn, nextId)
  BY DEF ByteInv, ReachInv, Conns, ConnsOk

(* What the VM does to its own heap.                                       *)
LEMMA ConnectWires ==
    ASSUME ByteInv, "starttls" \notin Modes,
           NEW s \in Socks, NEW m \in Modes, NEW half \in HalfOpen, Connect(s, m, half)
    PROVE  Wires(net', table, conn, nextId)
<1> DEFINE h == [net EXCEPT !.sock[s].mode = m, !.sock[s].allowHalfOpen = half]
           k == net.sock[s]
<1>1. HeapInv(net) /\ ~k.connecting /\ k.handle = NoHandle /\ m # "starttls"
      /\ HalfOpen \subseteq BOOLEAN /\ k \in SockType /\ Wires(net, table, conn, nextId)
  BY ConnsAre, Idle, Served1, SocketsAssumption DEF Connect, Created
<1>2. HeapInv(h) /\ Is(h, net, s, Configured(k, m, half), net.openCount, net.tail, net.turns)
  BY <1>1, ConfigureKeeps
<1>3. net' = IF h.openCount >= MAX_SOCKETS THEN Fail(h, s) ELSE Dialled(h, s)
  BY DEF Connect, Dialled, Edit
<1> HIDE DEF h
<1>4. Wires(h, table, conn, nextId)
  BY <1>1, <1>2, ConfigureWires
<1>5. Serving(h, s, "none")
  BY <1>2, Idle
<1>6. Wires(Fail(h, s), table, conn, nextId) /\ Wires(Dialled(h, s), table, conn, nextId)
  BY <1>2, <1>4, <1>5, FailWires, DialledWires
<1> QED
  BY <1>3, <1>6

(* write, end, destroy and tls.connect.                                    *)
LEMMA CellWires ==
    ASSUME ByteInv, NEW s \in Socks,
           Write(s) \/ End(s) \/ EndWith(s) \/ DestroySocket(s) \/ TlsConnect(s)
    PROVE  Wires(net', table, conn, nextId)
<1> DEFINE k == net.sock[s]
<1>1. HeapInv(net) /\ k.handle \in Nat /\ k \in SockType /\ ConnsOk(table, conn)
      /\ Wires(net, table, conn, nextId)
  BY ConnsAre, Idle, Served1
<1>2. CASE Write(s)
  <2>1. net' = Accept(net, s) /\ ~k.destroyed /\ ~k.closed
    BY <1>2 DEF Write, Writable, Edit
  <2> QED BY <1>1, <2>1, AcceptWires
<1>3. CASE End(s)
  <2>1. net' = IF k.connecting THEN [net EXCEPT !.sock[s].endAfterFlush = TRUE]
               ELSE IF k.loopRunning THEN [net EXCEPT !.sock[s].wantClose = TRUE]
               ELSE DoClose(net, s)
    BY <1>3 DEF End, Edit
  <2>2. k.connecting \/ k.handle # NoHandle
    BY <1>3 DEF End, Created
  <2>3. CASE k.connecting \/ k.loopRunning
    <3>1. net' \in Notes(net, s)
      BY <2>1, <2>3 DEF Notes
    <3> QED BY <1>1, <3>1, NoteWires
  <2>4. CASE ~k.connecting /\ ~k.loopRunning
    BY <1>1, <2>1, <2>2, <2>4, DoCloseWires
  <2> QED BY <2>3, <2>4
<1>4. CASE EndWith(s)
  <2> DEFINE h == Accept(net, s)
  <2>1. ~k.destroyed /\ ~k.closed
    BY <1>4 DEF EndWith, Writable
  <2>2. HeapInv(h) /\ Wires(h, table, conn, nextId)
    BY <1>1, <2>1, AcceptKeeps, AcceptWires
  <2>3. net' \in Notes(h, s)
    BY <1>4 DEF EndWith, Notes, Edit
  <2> HIDE DEF h
  <2> QED BY <2>2, <2>3, NoteWires
<1>5. CASE DestroySocket(s)
  BY <1>1, <1>5, DestroyWires DEF DestroySocket, Edit
<1>6. CASE TlsConnect(s)
  <2>1. net' = IF k.handle # NoHandle THEN HostCall(net, "startTls", s, k.handle, 0)
               ELSE [net EXCEPT !.sock[s].upgrade = TRUE]
    BY <1>6 DEF TlsConnect, Edit
  <2>2. CASE k.handle # NoHandle
    BY <1>1, <2>1, <2>2, TlsCallWires
  <2>3. CASE k.handle = NoHandle
    <3>1. net' \in Notes(net, s)
      BY <2>1, <2>3 DEF Notes
    <3> QED BY <1>1, <3>1, NoteWires
  <2> QED BY <2>2, <2>3
<1> QED
  BY <1>2, <1>3, <1>4, <1>5, <1>6

(* A turn.                                                                 *)
LEMMA LoopWires ==
    ASSUME ByteInv, LoopTurn
    PROVE  Wires(net', table, conn, nextId)
<1> DEFINE t == Head(net.turns)  h == [net EXCEPT !.turns = Tail(@)]
<1>1. net.turns # <<>> /\ net' = Turn(h, t.s, t.id)
  BY DEF LoopTurn
<1>2. HeapInv(net) /\ ConnsOk(table, conn) /\ Wires(net, table, conn, nextId)
  BY ConnsAre
<1>3. /\ t.s \in Socks /\ t.id = h.sock[t.s].handle /\ Serving(h, t.s, "loop")
      /\ ~In(h.tail, Loops(t.s))
  BY <1>1, <1>2, TurnPops
<1>4. Wires(h, table, conn, nextId)
  BY <1>1, <1>2, TurnPopWires
<1> HIDE DEF t, h
<1> QED
  BY <1>1, <1>2, <1>3, <1>4, TurnWires

(* The call under way.                                                     *)
LEMMA ServedWires ==
    ASSUME ByteInv, parked
    PROVE  /\ Call.s \in Socks /\ CallOk(Call, Call.s, table, conn, nextId)
           /\ Wiring(Resumed, Call.s, table, conn, nextId)
           /\ Call.op # "write" => Wires(Resumed, table, conn, nextId)
           /\ Call.op = "write" => Plugged(Resumed.sock[Call.s], Call.s, table, conn, nextId, 1)
           /\ HeapInv(net) /\ net.tail # <<>> /\ ConnsOk(table, conn) /\ Call \in CallType
<1>1. HeapInv(net) /\ ConnsOk(table, conn) /\ Wires(net, table, conn, nextId) /\ net.tail # <<>>
  BY ConnsAre DEF ByteInv, ReachInv
<1>2. Call.s \in Socks /\ Call \in CallType
  BY <1>1, ServingCall
<1> QED
  BY <1>1, <1>2, CallWires DEF Call, Resumed

(* The next handle is in nobody's hand.                                    *)
LEMMA HandlesPast ==
    ASSUME ByteInv
    PROVE  nextId \notin DOMAIN table
<1> SUFFICES ASSUME nextId \in DOMAIN table PROVE FALSE
  OBVIOUS
<1>1. Reach(net, nextId) /\ nextId \in Nat /\ nextId # NoHandle /\ HeapInv(net)
      /\ Wires(net, table, conn, nextId)
  BY DEF ByteInv, ReachInv
<1>2. \E s \in Socks : Owned(s, nextId, table, conn, nextId)
  <2>1. ASSUME NEW s \in Socks, net.sock[s].handle = nextId, ~net.sock[s].closed
        PROVE  Owned(s, nextId, table, conn, nextId)
    <3>1. ~net.sock[s].destroyed
      BY <1>1, <2>1, Idle, Served1 DEF Life
    <3> QED BY <1>1, <2>1, <3>1 DEF Wires, Wire, Plugged
  <2>2. ASSUME NEW c \in Range(net.tail), c.op = "close", c.id = nextId
        PROVE  \E s \in Socks : Owned(s, nextId, table, conn, nextId)
    <3>1. c \in CallType
      BY <1>1 DEF HeapInv, HeapType, Range
    <3>2. c.s \in Socks /\ c \in Closes(c.s)
      BY <2>2, <3>1 DEF CallType, Closes
    <3>3. CallOk(c, c.s, table, conn, nextId)
      BY <1>1, <3>2 DEF Wires, Wire
    <3> QED BY <2>2, <3>2, <3>3 DEF CallOk
  <2> QED BY <1>1, <2>1, <2>2 DEF Reach
<1>3. nextId < nextId
  BY <1>2 DEF Owned
<1> QED
  BY <1>1, <1>3

(* The host opens, or fails to.                                            *)
LEMMA OpenWires ==
    ASSUME ByteInv, OpenFails \/ Open
    PROVE  Wires(net', table', conn', nextId') /\ GotInv' /\ Grows(conn, conn')
<1> DEFINE s == Call.s  h == Resumed
<1>1. Serve("open")
  BY DEF OpenFails, Open
<1>2. parked /\ Call.op = "open" /\ nextId \in Nat \ {NoHandle} /\ Conns /\ GotInv
  BY <1>1, ServeIs DEF ByteInv, ReachInv
<1>3. s \in Socks /\ Serving(h, s, "open") /\ Wires(h, table, conn, nextId) /\ ConnsOk(table, conn)
  BY <1>2, ServedWires, ServingCall
<1> HIDE DEF s, h
<1>4. CASE net' = Fail(h, s) /\ UNCHANGED <<table, nextId, conn>>
  <2>1. GotInv' /\ Grows(conn, conn')
    BY <1>2, <1>4 DEF GotInv, Grows
  <2> QED BY <1>3, <1>4, <2>1, FailWires
<1>5. CASE /\ table' = WithEntry(table, nextId, [c |-> Len(conn) + 1, mode |-> net.sock[s].mode])
           /\ nextId' = nextId + 1
           /\ conn' = Append(conn, Fresh(s))
           /\ net' = Opened(h, s, nextId)
  <2> DEFINE e == [c |-> Len(conn) + 1, mode |-> net.sock[s].mode]  n == Len(conn)
  <2>1. e.c = n + 1
    OBVIOUS
  <2> HIDE DEF e
  <2>2. nextId \notin DOMAIN table
    BY HandlesPast
  <2>3. /\ DOMAIN table' = DOMAIN table \cup {nextId}
        /\ \A id \in DOMAIN table : id # nextId => table'[id] = table[id]
        /\ table'[nextId] = e
    BY <1>5 DEF e, WithEntry
  <2>4. /\ Len(conn') = n + 1 /\ n \in Nat /\ conn'[n + 1] = Fresh(s)
        /\ \A i \in 1..n : conn'[i] = conn[i]
    BY <1>2, <1>3, <1>5, <2>1, <2>3, ConnsOpen
  <2>5. Adding(table, conn, nextId, s, table', conn')
    BY <1>2, <2>1, <2>2, <2>3, <2>4 DEF Adding
  <2>6. Wires(net', table', conn', nextId')
    BY <1>3, <1>5, <2>5, OpenedWires
  <2>7. Grows(conn, conn')
    BY <1>3, <2>5, AddedHolds
  <2> HIDE DEF n
  <2>8. GotInv'
    <3> SUFFICES ASSUME NEW c \in 1..(n + 1), NEW i \in 1..Len(conn'[c].got)
                 PROVE  conn'[c].got[i] = <<conn'[c].owner, i>>
      BY <2>4 DEF GotInv
    <3>1. CASE c = n + 1
      <4>1. conn'[c].got = <<>>
        BY <2>4, <3>1, FreshIs
      <4>2. Len(conn'[c].got) = 0
        BY <4>1
      <4> QED BY <4>2
    <3>2. CASE c # n + 1
      <4>1. c \in 1..n
        BY <2>4, <3>2
      <4> QED BY <1>2, <2>4, <4>1 DEF GotInv, n
    <3> QED BY <3>1, <3>2
  <2> QED BY <2>6, <2>7, <2>8
<1> QED
  BY <1>4, <1>5 DEF OpenFails, Open, s, h, Fresh

(* A turn after a call of the loop, or the end of it.                      *)
LEMMA NextTurnWires ==
    ASSUME NEW h, NEW s \in Socks, Serving(h, s, "loop"), ~In(h.tail, Loops(s)),
           NEW T, NEW C, NEW N, ConnsOk(T, C), Wires(h, T, C, N)
    PROVE  Wires(Turn(h, s, h.sock[s].handle), T, C, N) /\ Wires(StopLoop(h, s), T, C, N)
  BY TurnWires, StopWires

(* The host writes a unit.                                                 *)
LEMMA WriteCallWires ==
    ASSUME ByteInv, WriteCall, ReachInv'
    PROVE  Wires(net', table', conn', nextId') /\ GotInv' /\ Grows(conn, conn')
<1> DEFINE s == Call.s  h == Resumed  id == Call.id  c == table[id].c  k == h.sock[s]
<1>1. Serve("write") /\ UNCHANGED <<table, nextId>>
  BY DEF WriteCall
<1>2. parked /\ Call.op = "write" /\ GotInv /\ ConnsOk(table, conn) /\ ConnsOk(table, conn')
  BY <1>1, ServeIs, ConnsAre DEF ByteInv, ReachInv, Conns, ConnsOk
<1>3. /\ s \in Socks /\ Wiring(h, s, table, conn, nextId) /\ Plugged(k, s, table, conn, nextId, 1)
      /\ CallOk(Call, s, table, conn, nextId) /\ Call \in CallType
  BY <1>2, ServedWires
<1>4. /\ Serving(h, s, "loop") /\ ~In(h.tail, Loops(s)) /\ id = k.handle /\ id # NoHandle /\ Call.unit \in Nat
  BY <1>2, ServedWires, ServingCall
<1>5. Call \in Loops(s) /\ Call \in Writes(s)
  BY <1>2, <1>3 DEF Loops, Writes
<1>6. Owned(s, id, table, conn, nextId) /\ (Up(id, table, conn) => Call.unit = Len(conn[c].got) + 1)
  BY <1>3, <1>5 DEF CallOk
<1>7. ~k.flushed
  BY <1>3, <1>4, Served1 DEF SockInv
<1>8. net' = Turn(h, s, id) \/ net' = StopLoop(h, s)
  BY DEF WriteCall
<1>9. ASSUME Wires(h, table, conn', nextId) PROVE Wires(net', table', conn', nextId')
  BY <1>1, <1>2, <1>3, <1>4, <1>8, <1>9, NextTurnWires
<1>10. CASE ~(Live(id) /\ ConnOf(id).up)
  <2>1. conn' = conn
    BY <1>10 DEF WriteCall
  <2>2. ~Up(k.handle, table, conn)
    BY <1>4, <1>10 DEF Up, Live, ConnOf
  <2>3. Wires(h, table, conn, nextId)
    BY <1>3, <1>4, <2>2, LostWires
  <2> QED BY <1>2, <1>9, <2>1, <2>3 DEF GotInv, Grows
<1>11. CASE Live(id) /\ ConnOf(id).up
  <2> DEFINE e == conn[c]  u == <<s, Call.unit>>  q == Append(e.got, u)  f == [e EXCEPT !.got = q]
  <2>1. id \in DOMAIN table /\ c \in 1..Len(conn) /\ e \in ConnType /\ e.up
    BY <1>2, <1>11, UpConn DEF Live, ConnOf
  <2>2. conn' = [conn EXCEPT ![c] = f]
    BY <1>11 DEF WriteCall
  <2>3. e.owner = s /\ Call.unit = Len(e.got) + 1
    BY <1>6, <2>1 DEF Owned, Up
  <2>4. /\ Len(conn') = Len(conn) /\ conn'[c] = f
        /\ \A i \in 1..Len(conn) : i # c => conn'[i] = conn[i]
    <3>1. conn \in Seq(ConnType)
      BY <1>2 DEF ConnsOk
    <3> HIDE DEF f
    <3> QED BY <2>1, <2>2, <3>1
  <2> DEFINE n == Len(e.got)
  <2>5. /\ e.got \in Seq(Nat \X Nat) /\ u \in Nat \X Nat /\ n \in Nat
    <3>1. e.got \in Seq(Nat \X Nat)
      BY <2>1 DEF ConnType
    <3>2. s \in Nat
      BY <1>3, SocketsAssumption
    <3> HIDE DEF e, s
    <3> QED BY <1>4, <3>1, <3>2
  <2>6. f.got = q /\ f.owner = e.owner /\ f.up = e.up /\ f.read = e.read
    <3> HIDE DEF e, q
    <3> QED BY <2>1 DEF ConnType
  <2>7. Len(q) = n + 1 /\ q[n + 1] = u /\ \A i \in 1..n : q[i] = e.got[i]
    <3> HIDE DEF e, u
    <3> QED BY <2>5
  <2> HIDE DEF f, q
  <2>8. Grows(conn, conn')
    BY <2>3, <2>4, <2>6 DEF Grows
  <2>9. Wires(h, table, conn', nextId)
    <3>1. Moves(table, conn, conn', c, s)
      BY <1>2, <2>1, <2>3, <2>4, <2>6 DEF Moves
    <3>2. Len(conn'[c].got) = Len(conn[c].got) + 1 /\ conn'[c].read = conn[c].read
      BY <2>4, <2>6, <2>7
    <3>3. k.handle \in DOMAIN table /\ table[k.handle].c = c
      BY <1>4, <2>1
    <3> HIDE DEF c, k, h, s
    <3> QED BY <1>3, <1>4, <1>7, <3>1, <3>2, <3>3, WriteWires DEF k
  <2>10. GotInv'
    <3> SUFFICES ASSUME NEW x \in 1..Len(conn), NEW i \in 1..Len(conn'[x].got)
                 PROVE  conn'[x].got[i] = <<conn'[x].owner, i>>
      BY <2>4 DEF GotInv
    <3>1. CASE x # c
      BY <1>2, <2>4, <3>1 DEF GotInv
    <3>2. CASE x = c
      <4>1. i \in 1..(n + 1) /\ conn'[x].got = q /\ conn'[x].owner = s
        BY <2>3, <2>4, <2>6, <2>7, <3>2
      <4>2. \A y \in 1..n : e.got[y] = <<s, y>>
        BY <1>2, <2>1, <2>3 DEF GotInv
      <4>3. u = <<s, n + 1>>
        BY <2>3
      <4> HIDE DEF e, u, n, s
      <4>4. i \in 1..n \/ i = n + 1
        BY <2>5, <4>1
      <4> QED BY <2>7, <4>1, <4>2, <4>3, <4>4
    <3> QED BY <3>1, <3>2
  <2> QED BY <1>9, <2>8, <2>9, <2>10
<1> QED
  BY <1>10, <1>11

(* The host reads a unit.                                                  *)
LEMMA ReadDataWires ==
    ASSUME ByteInv, ReadData, ReachInv'
    PROVE  Wires(net', table', conn', nextId') /\ GotInv' /\ Grows(conn, conn')
<1> DEFINE s == Call.s  h == Resumed  id == Call.id  c == table[id].c  k == h.sock[s]
<1>1. Serve("read") /\ UNCHANGED <<table, nextId>> /\ Live(id) /\ ConnOf(id).up
      /\ (ConnOf(id).pending > 0 \/ ConnOf(id).inbox # <<>>) /\ conn' = Chunk(c)
  BY DEF ReadData
<1>2. parked /\ Call.op = "read" /\ GotInv /\ ConnsOk(table, conn) /\ ConnsOk(table, conn')
  BY <1>1, ServeIs, ConnsAre DEF ByteInv, ReachInv, Conns, ConnsOk
<1>3. s \in Socks /\ Wires(h, table, conn, nextId) /\ CallOk(Call, s, table, conn, nextId) /\ Call \in CallType
  BY <1>2, ServedWires
<1>4. /\ Serving(h, s, "loop") /\ ~In(h.tail, Loops(s)) /\ id = k.handle /\ id # NoHandle
  BY <1>2, ServedWires, ServingCall
<1>5. Owned(s, id, table, conn, nextId)
  <2>1. Call \in Loops(s)
    BY <1>2, <1>3 DEF Loops
  <2> QED BY <1>3, <2>1 DEF CallOk
<1>6. ~k.flushed /\ k \in SockType /\ h \in HeapType /\ k.destroyed \in BOOLEAN
  BY <1>3, <1>4, Served1 DEF SockInv
<1> DEFINE e == conn[c]  f == Read1(e)
<1>7. id \in DOMAIN table /\ c \in 1..Len(conn) /\ e \in ConnType /\ e.up /\ e.owner = s
      /\ (e.pending > 0 \/ e.inbox # <<>>)
  BY <1>1, <1>2, <1>5, UpConn DEF Live, ConnOf, Owned
<1>8. f.read = e.read + 1 /\ f.got = e.got /\ f.owner = e.owner /\ f.up = e.up
  <2> HIDE DEF e
  <2> QED BY <1>7, Read1Is
<1> HIDE DEF f
<1>9. /\ Len(conn') = Len(conn) /\ conn'[c] = f
      /\ \A i \in 1..Len(conn) : i # c => conn'[i] = conn[i]
  <2>1. conn \in Seq(ConnType)
    BY <1>2 DEF ConnsOk
  <2>2. conn' = [conn EXCEPT ![c] = f]
    BY <1>1, <1>7, <2>1, ChunkIs DEF f
  <2> QED BY <1>7, <2>1, <2>2
<1>10. Grows(conn, conn') /\ GotInv'
  <2>1. \A x \in 1..Len(conn) : conn'[x].got = conn[x].got /\ conn'[x].owner = conn[x].owner
    BY <1>8, <1>9
  <2> QED BY <1>2, <1>9, <2>1 DEF Grows, GotInv
<1>11. Moves(table, conn, conn', c, s)
  BY <1>2, <1>7, <1>8, <1>9 DEF Moves
<1>12. /\ k.handle # NoHandle /\ k.handle \in DOMAIN table /\ table[k.handle].c = c
       /\ conn'[c].got = conn[c].got /\ conn'[c].read = conn[c].read + 1 /\ conn[c].up
  BY <1>4, <1>7, <1>8, <1>9
<1> HIDE DEF e, c, h, s
<1>13. CASE k.destroyed
  <2>1. net' = StopLoop(h, s)
    BY <1>13 DEF ReadData, Bound, h, s
  <2>2. Wires(h, table, conn', nextId)
    BY <1>3, <1>4, <1>6, <1>11, <1>12, <1>13, ReadWires
  <2> QED BY <1>1, <1>2, <1>3, <1>4, <1>10, <2>1, <2>2, NextTurnWires
<1>14. CASE ~k.destroyed
  <2> DEFINE u == <<c, conn'[c].read>>
             g == [h EXCEPT !.sock[s].rx = Append(@, u)]
             q == Append(k.rx, u)
             j == [k EXCEPT !.rx = q]
  <2>0. Bound(h, s, id)
    BY <1>4, <1>14 DEF Bound
  <2>1. net' = Turn(g, s, id)
    BY <2>0 DEF ReadData, h, s, c
  <2>2. g = [h EXCEPT !.sock[s] = j]
    BY <1>3, <1>6 DEF HeapType
  <2>3. u \in Nat \X Nat
    <3>1. c \in Nat /\ conn'[c] \in ConnType
      BY <1>1, <1>2, <1>4, <1>12 DEF ConnsOk
    <3> QED BY <3>1 DEF ConnType
  <2> HIDE DEF k, u, g
  <2>4. q \in Seq(Nat \X Nat)
    BY <1>6, <2>3 DEF SockType
  <2> HIDE DEF q
  <2>5. j \in SockType /\ Same(j, k) /\ j.handle = k.handle /\ j.rx = q /\ j.writeQ = k.writeQ /\ j.written = k.written
    BY <1>6, <2>4 DEF SockType, Same
  <2> HIDE DEF j
  <2>6. Serving(g, s, "loop")
    BY <1>3, <1>4, <2>2, <2>5, EditKeeps DEF k
  <2>7. Is(g, h, s, j, h.openCount, h.tail, h.turns)
    BY <1>3, <1>6, <2>2, <2>5, SetSock
  <2>8. Wires(g, table, conn', nextId)
    <3>1. /\ ~h.sock[s].destroyed /\ Same(j, h.sock[s])
          /\ j.writeQ = h.sock[s].writeQ /\ j.written = h.sock[s].written
          /\ j.rx = Append(h.sock[s].rx, <<c, conn'[c].read>>)
      BY <1>14, <2>5 DEF k, q, u
    <3>2. /\ h.sock[s].handle # NoHandle /\ h.sock[s].handle \in DOMAIN table
          /\ table[h.sock[s].handle].c = c /\ h.sock[s] \in SockType
          /\ Wires(h, table, conn, nextId) /\ ~In(h.tail, Loops(s)) /\ ~h.sock[s].flushed
      BY <1>3, <1>4, <1>6, <1>12 DEF k
    <3>3. \A x, y : /\ Is(x, h, s, y, h.openCount, h.tail, h.turns) /\ Same(y, h.sock[s])
                     /\ y.writeQ = h.sock[s].writeQ /\ y.written = h.sock[s].written
                     /\ y.rx = Append(h.sock[s].rx, <<c, conn'[c].read>>)
                     => Wires(x, table, conn', nextId)
      BY <1>3, <1>11, <1>12, <3>1, <3>2, ReadWires
    <3> QED BY <2>7, <3>1, <3>3
  <2>9. ~In(g.tail, Loops(s)) /\ g.sock[s].handle = id
    BY <1>4, <2>5, <2>7 DEF Is
  <2>10. Wires(Turn(g, s, id), table, conn', nextId)
    BY <1>2, <1>3, <2>6, <2>8, <2>9, NextTurnWires
  <2> QED BY <1>1, <1>10, <2>1, <2>10
<1> QED
  BY <1>6, <1>13, <1>14

(* The host drops a handle whose connection is, or was, down.              *)
LEMMA ReadEndWires ==
    ASSUME ByteInv, ReadDone \/ ReadFails, ReachInv'
    PROVE  Wires(net', table', conn', nextId') /\ GotInv' /\ Grows(conn, conn')
<1> DEFINE s == Call.s  h == Resumed  id == Call.id  k == h.sock[s]  c == table[id].c
<1>1. Serve("read") /\ UNCHANGED nextId /\ table' = Without(id)
  BY DEF ReadDone, ReadFails
<1>2. parked /\ Call.op = "read" /\ GotInv /\ ConnsOk(table, conn)
  BY <1>1, ServeIs, ConnsAre DEF ByteInv
<1>3. s \in Socks /\ Wires(h, table, conn, nextId)
  BY <1>2, ServedWires
<1>4. Serving(h, s, "loop") /\ id = k.handle /\ id # NoHandle
  BY <1>2, ServedWires, ServingCall
<1>5. DOMAIN table' = DOMAIN table \ {id} /\ \A i \in DOMAIN table' : table'[i] = table[i]
  BY <1>1, WithoutIs
<1>6. /\ Len(conn') = Len(conn) /\ conn'[c].owner = conn[c].owner /\ conn'[c].got = conn[c].got
      /\ \A i \in 1..Len(conn) : i # c => conn'[i] = conn[i]
      /\ conn'[c].up => conn[c].up /\ conn'[c].read = conn[c].read
      /\ id \in DOMAIN table => ~conn'[c].up
  <2>1. CASE ReadFails
    BY <2>1 DEF ReadFails, Live, ConnOf
  <2>2. CASE ReadDone
    <3> DEFINE e == conn[c]  f == [e EXCEPT !.up = FALSE]
    <3>1. id \in DOMAIN table /\ conn' = [conn EXCEPT ![c] = f]
      BY <2>2 DEF ReadDone, Live
    <3>2. c \in 1..Len(conn) /\ e \in ConnType /\ conn \in Seq(ConnType)
      BY <1>2, <3>1, UpConn DEF ConnsOk
    <3>3. f.owner = e.owner /\ f.got = e.got /\ ~f.up
      <4> HIDE DEF e
      <4> QED BY <3>2 DEF ConnType
    <3> HIDE DEF f
    <3>4. Len(conn') = Len(conn) /\ conn'[c] = f /\ \A i \in 1..Len(conn) : i # c => conn'[i] = conn[i]
      BY <3>1, <3>2
    <3> QED BY <3>3, <3>4
  <2> QED BY <2>1, <2>2
<1> HIDE DEF c
<1>7. \A r \in Socks : Steady(r, table, conn, nextId, table', conn', nextId) /\ Grows(conn, conn')
  <2> SUFFICES ASSUME NEW r \in Socks
               PROVE  Steady(r, table, conn, nextId, table', conn', nextId) /\ Grows(conn, conn')
    OBVIOUS
  <2>1. DOMAIN table' \subseteq DOMAIN table
    BY <1>5
  <2>2. \A i \in DOMAIN table : i \in DOMAIN table' \/ conn'[table[i].c].owner # r \/ ~conn'[table[i].c].up
    BY <1>5, <1>6 DEF c
  <2>3. \/ conn[c].owner # r
        \/ conn'[c].up => conn[c].up /\ conn'[c].got = conn[c].got /\ conn'[c].read = conn[c].read
    BY <1>6
  <2>4. Apart(r, table, conn, table', conn', c)
    BY <1>5, <1>6, <2>1, <2>2, <2>3 DEF Apart
  <2> QED BY <1>2, <2>4, UpdateSteady
<1>8. Grows(conn, conn') /\ GotInv'
  BY <1>2, <1>3, <1>6, <1>7 DEF GotInv
<1>9. Wires(h, table', conn', nextId)
  BY <1>3, <1>7, <1>8, SteadyWires
<1> HIDE DEF h, s
<1>10. net' \in {StopLoop(h, s)} \/ (~k.destroyed /\ net' \in {Teardown(StopLoop(h, s), s), DoClose(StopLoop(h, s), s)})
  BY DEF ReadDone, ReadFails, Bound, h, s
<1>11. Wires(net', table', conn', nextId)
  <2>1. CASE net' = StopLoop(h, s)
    BY <1>3, <1>4, <1>9, <2>1, StopWires
  <2>2. CASE ~k.destroyed /\ net' = Teardown(StopLoop(h, s), s)
    BY <1>3, <1>4, <1>9, <2>2, DroppedWires
  <2>3. CASE ~k.destroyed /\ net' = DoClose(StopLoop(h, s), s)
    BY <1>3, <1>4, <1>9, <2>3, EndedWires
  <2> QED BY <1>10, <2>1, <2>2, <2>3
<1> QED
  BY <1>1, <1>8, <1>11

(* startTls on a socket that is not waiting for it destroys it.            *)
LEMMA StartTlsWires ==
    ASSUME ByteInv, StartTls
    PROVE  Wires(net', table', conn', nextId') /\ GotInv' /\ Grows(conn, conn')
<1>1. Serve("startTls") /\ UNCHANGED conn
  BY DEF StartTls
<1>2. parked /\ Call.op = "startTls" /\ GotInv
  BY <1>1, ServeIs DEF ByteInv
<1>3. Call.s \in Socks /\ Wires(Resumed, table, conn, nextId) /\ HeapInv(Resumed)
  BY <1>2, ServedWires, ServingCall
<1>4. Live(Call.id) => table[Call.id].mode # "starttls"
  BY DEF ByteInv, ReachInv, Live
<1>5. net' = Destroy(Resumed, Call.s) /\ UNCHANGED <<table, nextId>>
  BY <1>4 DEF StartTls
<1>6. Wires(net', table, conn, nextId)
  BY <1>3, <1>5, DestroyWires
<1> QED
  BY <1>1, <1>2, <1>5, <1>6 DEF GotInv, Grows

(* The host closes: the connection may live on, its socket does not.       *)
LEMMA CloseCallWires ==
    ASSUME ByteInv, CloseCall
    PROVE  Wires(net', table', conn', nextId') /\ GotInv' /\ Grows(conn, conn')
<1> DEFINE s == Call.s  h == Resumed  id == Call.id  k == h.sock[s]  j == Gone(k)
           g == [h EXCEPT !.sock[s] = j]
<1>1. Serve("close") /\ UNCHANGED <<nextId, conn>> /\ table' = Without(id)
      /\ net' = [h EXCEPT !.sock[s].destroyed = TRUE]
  BY DEF CloseCall
<1>2. parked /\ Call.op = "close" /\ GotInv /\ ConnsOk(table, conn)
  BY <1>1, ServeIs, ConnsAre DEF ByteInv
<1>3. s \in Socks /\ Wires(h, table, conn, nextId) /\ CallOk(Call, s, table, conn, nextId) /\ Call \in CallType
  BY <1>2, ServedWires
<1>4. Serving(h, s, "close")
  BY <1>2, ServedWires, ServingCall
<1>5. net' = g /\ Is(g, h, s, j, h.openCount, h.tail, h.turns)
  BY <1>1, <1>3, <1>4, CloseCallKeeps
<1>6. Owned(s, id, table, conn, nextId)
  <2>1. Call \in Closes(s)
    BY <1>2, <1>3 DEF Closes
  <2> QED BY <1>3, <2>1 DEF CallOk
<1>7. DOMAIN table' = DOMAIN table \ {id} /\ \A i \in DOMAIN table' : table'[i] = table[i]
  BY <1>1, WithoutIs
<1>8. Grows(conn, conn') /\ GotInv'
  BY <1>1, <1>2 DEF Grows, GotInv
<1>9. ASSUME NEW r \in Socks, r # s PROVE Steady(r, table, conn, nextId, table', conn, nextId)
  <2>1. DOMAIN table' \subseteq DOMAIN table
    BY <1>7
  <2>2. \A i \in DOMAIN table : i \in DOMAIN table' \/ conn[table[i].c].owner # r \/ ~conn[table[i].c].up
    BY <1>6, <1>7, <1>9 DEF Owned
  <2>3. Apart(r, table, conn, table', conn, 0)
    BY <1>7, <2>1, <2>2 DEF Apart
  <2> QED BY <1>2, <2>3, UpdateSteady
<1>10. Holds(s, table, conn, nextId, table', conn, nextId)
  BY <1>7 DEF Holds, Owned, Up
<1>11. Wiring(h, s, table', conn, nextId)
  <2>1. Wiring(h, s, table, conn, nextId) /\ Grows(conn, conn)
    BY <1>3, WiresOf DEF Grows
  <2> QED BY <1>3, <1>9, <1>10, <2>1, SteadyWiring
<1>12. Plugged(j, s, table', conn, nextId, Pend(g, s))
  <2>1. k \in SockType /\ Plugged(k, s, table, conn, nextId, Pend(h, s))
    BY <1>3, <1>4, Served1, WiresOf
  <2>2. j.destroyed /\ j.flushed = k.flushed /\ j.written = k.written /\ j.rx = k.rx
    <3> HIDE DEF k
    <3> QED BY <2>1 DEF SockType, Gone
  <2> HIDE DEF j, k, g
  <2> QED BY <2>1, <2>2 DEF Plugged, Linked, Owns, RxOk
<1> HIDE DEF g, h, s, j
<1>13. Wires(g, table', conn, nextId)
  BY <1>3, <1>5, <1>11, <1>12, WireSame
<1> QED
  BY <1>1, <1>5, <1>8, <1>13

(* The peer moves.                                                         *)
LEMMA PeerWires ==
    ASSUME ByteInv, NEW c \in DOMAIN conn,
           (\E n \in ChunkSizes : PeerSends(c, n)) \/ PeerCloses(c) \/ PeerResets(c)
    PROVE  Wires(net', table', conn', nextId') /\ GotInv' /\ Grows(conn, conn')
<1> DEFINE k == conn[c]
<1>1. ConnsOk(table, conn) /\ conn \in Seq(ConnType) /\ GotInv /\ Wires(net, table, conn, nextId)
  BY ConnsAre DEF ConnsOk, ByteInv
<1>2. c \in 1..Len(conn) /\ k \in ConnType
  BY <1>1
<1>3. \E j : Peer(c, j) /\ j.owner = k.owner /\ j.got = k.got /\ j.read = k.read /\ (j.up => k.up)
  <2>1. ASSUME NEW n \in ChunkSizes, PeerSends(c, n)
        PROVE  \E j : Peer(c, j) /\ j.owner = k.owner /\ j.got = k.got /\ j.read = k.read /\ (j.up => k.up)
    <3> DEFINE q == Append(k.inbox, n)  i == k.sends + 1  j == [k EXCEPT !.inbox = q, !.sends = i]
    <3>1. Peer(c, j)
      BY <2>1 DEF PeerSends
    <3> HIDE DEF q, i, k
    <3>2. j.owner = k.owner /\ j.got = k.got /\ j.read = k.read /\ j.up = k.up
      BY <1>2 DEF ConnType
    <3> QED BY <3>1, <3>2
  <2>2. CASE PeerCloses(c)
    <3> DEFINE j == [k EXCEPT !.fin = TRUE]
    <3>1. Peer(c, j)
      BY <2>2 DEF PeerCloses
    <3> HIDE DEF k
    <3>2. j.owner = k.owner /\ j.got = k.got /\ j.read = k.read /\ j.up = k.up
      BY <1>2 DEF ConnType
    <3> QED BY <3>1, <3>2
  <2>3. CASE PeerResets(c)
    <3> DEFINE j == [k EXCEPT !.up = FALSE]
    <3>1. Peer(c, j)
      BY <2>3 DEF PeerResets
    <3> HIDE DEF k
    <3>2. j.owner = k.owner /\ j.got = k.got /\ j.read = k.read /\ ~j.up
      BY <1>2 DEF ConnType
    <3> QED BY <3>1, <3>2
  <2> QED BY <2>1, <2>2, <2>3
<1>4. PICK j : Peer(c, j) /\ j.owner = k.owner /\ j.got = k.got /\ j.read = k.read /\ (j.up => k.up)
  BY <1>3
<1>5. conn' = [conn EXCEPT ![c] = j] /\ UNCHANGED <<net, table, nextId>>
  BY <1>4 DEF Peer
<1>6. Len(conn') = Len(conn) /\ conn'[c] = j /\ \A i \in 1..Len(conn) : i # c => conn'[i] = conn[i]
  BY <1>1, <1>2, <1>5
<1>7. \A r \in Socks : Steady(r, table, conn, nextId, table, conn', nextId)
  <2> SUFFICES ASSUME NEW r \in Socks PROVE Steady(r, table, conn, nextId, table, conn', nextId)
    OBVIOUS
  <2>1. Apart(r, table, conn, table, conn', c)
    BY <1>4, <1>6 DEF Apart
  <2> QED BY <1>1, <2>1, UpdateSteady
<1>8. \A x \in 1..Len(conn) : conn'[x].got = conn[x].got /\ conn'[x].owner = conn[x].owner
  BY <1>4, <1>6
<1>9. Grows(conn, conn') /\ GotInv'
  BY <1>1, <1>6, <1>8 DEF Grows, GotInv
<1>10. Wires(net, table, conn', nextId)
  BY <1>1, <1>7, <1>9, SteadyWires
<1> QED
  BY <1>5, <1>9, <1>10

(* At the end of a cell no socket is left with a live handle, unless it    *)
(* is half open.                                                           *)
LEMMA CellEndsQuiet ==
    ASSUME ByteInv, CellEnds, TRUE \notin HalfOpen
    PROVE  Quiet(net)
<1>1. net.tail = <<>> /\ net.turns = <<>> /\ HeapInv(net)
  BY DEF CellEnds, ByteInv, ReachInv
<1>2. Range(net.tail) = {} /\ Range(net.turns) = {}
  BY <1>1 DEF Range
<1>3. ASSUME NEW s \in Socks PROVE net.sock[s].handle = NoHandle \/ net.sock[s].destroyed
  <2>1. SockInv(net, s, "none") /\ Life(net.sock[s]) /\ net.sock[s] \in SockType
    BY <1>1, <1>3, Idle, Served1
  <2>2. ~Looping(net, s) /\ ~In(net.tail, Closes(s))
    BY <1>2 DEF Looping, In
  <2>3. ~net.sock[s].loopRunning /\ (net.sock[s].closed => net.sock[s].destroyed)
    BY <2>1, <2>2 DEF SockInv
  <2>4. ~net.sock[s].allowHalfOpen
    BY <2>1 DEF Life
  <2> QED BY <2>1, <2>3, <2>4 DEF Life
<1> QED
  BY <1>1, <1>3 DEF Quiet

(* The instance is lost, and every connection with it.                     *)
LEMMA EvictWires ==
    ASSUME ByteInv, Evict
    PROVE  Wires(net', table', conn', nextId') /\ GotInv' /\ Grows(conn, conn')
<1>1. /\ net' = netSaved /\ table' = NoTable /\ GotInv /\ conn \in Seq(ConnType)
      /\ conn' = [c \in DOMAIN conn |-> [conn[c] EXCEPT !.up = FALSE]]
      /\ Quiet(netSaved) /\ \A s \in Socks : RxOk(netSaved.sock[s], s, conn)
  BY ConnsAre DEF Evict, ByteInv, ConnsOk
<1>2. ASSUME NEW k \in ConnType
      PROVE  LET j == [k EXCEPT !.up = FALSE] IN j.got = k.got /\ j.owner = k.owner /\ ~j.up
  BY DEF ConnType
<1>3. DOMAIN conn = 1..Len(conn) /\ Len(conn) \in Nat /\ \A c \in 1..Len(conn) : conn[c] \in ConnType
  BY <1>1
<1>4. DOMAIN conn' = 1..Len(conn)
  BY <1>1, <1>3
<1>5. Len(conn') = Len(conn)
  BY <1>3, <1>4
<1>6. \A c \in 1..Len(conn) : conn'[c].got = conn[c].got /\ conn'[c].owner = conn[c].owner /\ ~conn'[c].up
  BY <1>1, <1>2, <1>3
<1>7. Grows(conn, conn') /\ GotInv'
  BY <1>1, <1>5, <1>6 DEF Grows, GotInv
<1>8. ASSUME NEW s \in Socks PROVE Wire(netSaved, s, table', conn', nextId', Pend(netSaved, s))
  <2>1. Range(netSaved.tail) = {} /\ Range(netSaved.turns) = {}
    BY <1>1 DEF Quiet, Range
  <2>2. RxOk(netSaved.sock[s], s, conn')
    BY <1>1, <1>7, RxGrows
  <2>3. netSaved.sock[s].handle = NoHandle \/ netSaved.sock[s].destroyed
    BY <1>1 DEF Quiet
  <2>4. Plugged(netSaved.sock[s], s, table', conn', nextId', Pend(netSaved, s))
    BY <1>5, <1>6, <2>2, <2>3 DEF Plugged, Linked, Owns
  <2> QED BY <2>1, <2>4 DEF Wire
<1> QED
  BY <1>1, <1>7, <1>8 DEF Wires

(* The invariant holds at the start.                                       *)
LEMMA BytesBegin ==
    ASSUME SocketsInit
    PROVE  ByteInv
<1>1. ReachInv
  BY ReachBegins
<1>2. /\ net = [sock |-> [s \in Socks |-> Socket], openCount |-> 0, tail |-> <<>>, turns |-> <<>>]
      /\ conn = <<>> /\ netSaved = net /\ evictions = 0
  BY DEF SocketsInit
<1>3. /\ net.tail = <<>> /\ net.turns = <<>> /\ Len(conn) = 0
      /\ \A s \in Socks : net.sock[s] = Socket
  BY <1>2
<1>4. Range(net.tail) = {} /\ Range(net.turns) = {}
  BY <1>3 DEF Range
<1>5. Socket.handle = NoHandle /\ Len(Socket.rx) = 0
  <2>1. Socket.handle = NoHandle /\ Socket.rx = <<>>
    BY BlankSocket
  <2> QED BY <2>1
<1>6. \A s \in Socks : RxOk(net.sock[s], s, conn)
  BY <1>3, <1>5 DEF RxOk
<1>7. Wires(net, table, conn, nextId)
  BY <1>3, <1>4, <1>5, <1>6 DEF Wires, Wire, Plugged, Linked, Owns
<1>8. GotInv /\ Quiet(netSaved)
  BY <1>2, <1>3, <1>5 DEF GotInv, Quiet
<1> QED
  BY <1>1, <1>2, <1>6, <1>7, <1>8 DEF ByteInv

(* A step of the VM leaves the host alone.                                 *)
LEMMA VmKeepsBytes ==
    ASSUME ByteInv, Wires(net', table, conn, nextId), UNCHANGED <<table, nextId, conn>>
    PROVE  Wires(net', table', conn', nextId') /\ GotInv' /\ Grows(conn, conn')
  BY DEF ByteInv, GotInv, Grows

(* Every step but the end of a cell, by its action.                        *)
LEMMA StepWires ==
    ASSUME ByteInv, SocketsNext, ReachInv', "starttls" \notin Modes, ~CellEnds
    PROVE  Wires(net', table', conn', nextId') /\ GotInv' /\ Grows(conn, conn')
<1>1. ASSUME NEW s \in Socks, NEW m \in Modes, NEW half \in HalfOpen, Connect(s, m, half)
      PROVE  Wires(net', table', conn', nextId') /\ GotInv' /\ Grows(conn, conn')
  <2>1. UNCHANGED <<table, nextId, conn>>
    BY <1>1 DEF Connect, Edit
  <2> QED BY <1>1, <2>1, ConnectWires, VmKeepsBytes
<1>2. ASSUME NEW s \in Socks, Write(s) \/ End(s) \/ EndWith(s) \/ DestroySocket(s) \/ TlsConnect(s)
      PROVE  Wires(net', table', conn', nextId') /\ GotInv' /\ Grows(conn, conn')
  <2>1. UNCHANGED <<table, nextId, conn>>
    BY <1>2 DEF Write, End, EndWith, DestroySocket, TlsConnect, Edit
  <2> QED BY <1>2, <2>1, CellWires, VmKeepsBytes
<1>3. CASE LoopTurn
  <2>1. UNCHANGED <<table, nextId, conn>>
    BY <1>3 DEF LoopTurn
  <2> QED BY <1>3, <2>1, LoopWires, VmKeepsBytes
<1>4. CASE Park
  <2>1. UNCHANGED <<net, table, nextId, conn>>
    BY <1>4 DEF Park
  <2>2. Wires(net', table, conn, nextId)
    BY <2>1, ConnsAre
  <2> QED BY <2>1, <2>2, VmKeepsBytes
<1>5. CASE OpenFails \/ Open
  BY <1>5, OpenWires
<1>6. CASE WriteCall
  BY <1>6, WriteCallWires
<1>7. CASE ReadData
  BY <1>7, ReadDataWires
<1>8. CASE ReadDone \/ ReadFails
  BY <1>8, ReadEndWires
<1>9. CASE StartTls
  BY <1>9, StartTlsWires
<1>10. CASE CloseCall
  BY <1>10, CloseCallWires
<1>11. ASSUME NEW c \in DOMAIN conn,
             (\E n \in ChunkSizes : PeerSends(c, n)) \/ PeerCloses(c) \/ PeerResets(c)
      PROVE  Wires(net', table', conn', nextId') /\ GotInv' /\ Grows(conn, conn')
  BY <1>11, PeerWires
<1>12. CASE Evict
  BY <1>12, EvictWires
<1> QED
  BY <1>1, <1>2, <1>3, <1>4, <1>5, <1>6, <1>7, <1>8, <1>9, <1>10, <1>11, <1>12 DEF SocketsNext

(* The saved heap is replaced at the end of a cell only.                   *)
LEMMA OnlyCellsSave ==
    ASSUME SocketsNext, ~CellEnds
    PROVE  netSaved' = netSaved /\ (evictions' = evictions \/ evictions' = evictions + 1)
<1>1. ASSUME NEW s \in Socks, NEW m \in Modes, NEW half \in HalfOpen, Connect(s, m, half)
      PROVE  UNCHANGED <<netSaved, evictions>>
  BY <1>1 DEF Connect, Edit
<1>2. ASSUME NEW s \in Socks, Write(s) \/ End(s) \/ EndWith(s) \/ DestroySocket(s) \/ TlsConnect(s)
      PROVE  UNCHANGED <<netSaved, evictions>>
  BY <1>2 DEF Write, End, EndWith, DestroySocket, TlsConnect, Edit
<1>3. ASSUME LoopTurn \/ Park PROVE UNCHANGED <<netSaved, evictions>>
  BY <1>3 DEF LoopTurn, Park
<1>4. ASSUME NEW op, Serve(op) PROVE UNCHANGED <<netSaved, evictions>>
  BY <1>4 DEF Serve
<1>5. ASSUME OpenFails \/ Open \/ WriteCall \/ ReadData \/ ReadDone \/ ReadFails \/ StartTls \/ CloseCall
      PROVE  \E op : Serve(op)
  BY <1>5 DEF OpenFails, Open, WriteCall, ReadData, ReadDone, ReadFails, StartTls, CloseCall
<1>6. ASSUME NEW c \in DOMAIN conn,
             (\E n \in ChunkSizes : PeerSends(c, n)) \/ PeerCloses(c) \/ PeerResets(c)
      PROVE  UNCHANGED <<netSaved, evictions>>
  BY <1>6 DEF PeerSends, PeerCloses, PeerResets, Peer
<1>7. ASSUME Evict PROVE netSaved' = netSaved /\ evictions' = evictions + 1
  BY <1>7 DEF Evict
<1> QED
  BY <1>1, <1>2, <1>3, <1>4, <1>5, <1>6, <1>7 DEF SocketsNext

(* Every step preserves the invariant.                                     *)
LEMMA BytesKept ==
    ASSUME ByteInv, [SocketsNext]_socketsVars, "starttls" \notin Modes,
           TRUE \notin HalfOpen \/ MaxEvictions = 0
    PROVE  ByteInv'
<1>1. ReachInv'
  BY ReachKept DEF ByteInv
<1>2. CASE UNCHANGED socketsVars
  BY <1>1, <1>2 DEF socketsVars, ByteInv, Wires, GotInv
<1>3. CASE CellEnds
  <2>1. evictions < MaxEvictions /\ evictions \in Nat /\ netSaved' = net
        /\ UNCHANGED <<net, table, nextId, conn, evictions>>
    BY <1>3 DEF CellEnds, ByteInv
  <2>2. MaxEvictions # 0
    BY <2>1
  <2>3. Quiet(net)
    BY <1>3, <2>2, CellEndsQuiet
  <2>4. \A s \in Socks : RxOk(net.sock[s], s, conn)
    BY ConnsAre DEF Wires, Wire, Plugged
  <2> QED BY <1>1, <2>1, <2>3, <2>4 DEF ByteInv, GotInv
<1>4. CASE SocketsNext /\ ~CellEnds
  <2>1. Wires(net', table', conn', nextId') /\ GotInv' /\ Grows(conn, conn')
    BY <1>1, <1>4, StepWires
  <2>2. netSaved' = netSaved /\ (evictions' = evictions \/ evictions' = evictions + 1)
    BY <1>4, OnlyCellsSave
  <2>4. evictions' \in Nat
    BY <2>2 DEF ByteInv
  <2>5. \A s \in Socks : RxOk(netSaved.sock[s], s, conn')
    BY <2>1, RxGrows DEF ByteInv
  <2>6. Quiet(netSaved')
    BY <2>2 DEF ByteInv
  <2> QED BY <1>1, <2>1, <2>2, <2>4, <2>5, <2>6 DEF ByteInv, Quiet
<1> QED
  BY <1>2, <1>3, <1>4

(* It implies the property.                                                *)
LEMMA ByteInvMeans ==
    ASSUME ByteInv
    PROVE  BytesInOrder
<1>1. conn \in Seq(ConnType) /\ HeapInv(net) /\ GotInv /\ Wires(net, table, conn, nextId)
  BY ConnsAre DEF ByteInv, ConnsOk
<1>2. DOMAIN conn = 1..Len(conn) /\ \A c \in 1..Len(conn) : conn[c] \in ConnType
  BY <1>1
<1>3. WritesArrive
  <2> SUFFICES ASSUME NEW c \in 1..Len(conn)
               PROVE  /\ conn[c].got = [i \in DOMAIN conn[c].got |-> <<conn[c].owner, i>>]
                      /\ net.sock[conn[c].owner].flushed /\ conn[c].up =>
                            Len(conn[c].got) = net.sock[conn[c].owner].written
    BY <1>2 DEF WritesArrive
  <2> DEFINE k == conn[c]  s == k.owner  q == k.got
  <2>1. s \in Socks /\ q \in Seq(Nat \X Nat)
    BY <1>2 DEF ConnType
  <2>2. \A i \in 1..Len(q) : q[i] = <<s, i>>
    BY <1>1 DEF GotInv
  <2>3. Owns(net.sock[s], s, table, conn)
    BY <1>1, <2>1 DEF Wires, Wire, Plugged
  <2>4. net.sock[s].flushed /\ k.up => Len(q) = net.sock[s].written
    BY <2>3 DEF Owns
  <2>5. q = [i \in DOMAIN q |-> <<s, i>>]
    <3> HIDE DEF q, s
    <3>1. DOMAIN q = 1..Len(q) /\ q = [i \in DOMAIN q |-> q[i]]
      BY <2>1
    <3> QED BY <2>2, <3>1
  <2> QED BY <2>4, <2>5
<1>4. ReadsInOrder
  <2> SUFFICES ASSUME NEW s \in Socks, NEW i \in DOMAIN net.sock[s].rx
               PROVE  /\ net.sock[s].rx[i] = <<net.sock[s].rx[1][1], i>>
                      /\ conn[net.sock[s].rx[i][1]].owner = s
    BY DEF ReadsInOrder
  <2>1. net.sock[s] \in SockType /\ RxOk(net.sock[s], s, conn)
    BY <1>1, Idle, Served1 DEF Wires, Wire, Plugged
  <2> DEFINE r == net.sock[s].rx
  <2>2. i \in 1..Len(r)
    <3>1. r \in Seq(Nat \X Nat) /\ i \in DOMAIN r
      BY <2>1 DEF SockType
    <3> HIDE DEF r
    <3> QED BY <3>1
  <2> QED BY <2>1, <2>2 DEF RxOk
<1> QED
  BY <1>3, <1>4 DEF BytesInOrder

(* What a peer receives is what its own socket wrote, in order and without *)
(* gaps, all of it once the socket has flushed; what a socket delivers is  *)
(* what its own peer sent, in order and without gaps (net.js, the command  *)
(* loop on the shared tail; host-sockets.mjs, write and read), for any     *)
(* number of sockets, units, chunks and resets.  Either no instance is     *)
(* lost or no socket is half open: a half-open socket outlives its cell    *)
(* and, after an eviction, its handle names another's connection.          *)
THEOREM BytesAlwaysInOrder ==
    ASSUME "starttls" \notin Modes, TRUE \notin HalfOpen \/ MaxEvictions = 0
    PROVE  SocketsSpec => []BytesInOrder
<1>1. SocketsInit => ByteInv
  BY BytesBegin
<1>2. ByteInv /\ [SocketsNext]_socketsVars => ByteInv'
  BY BytesKept
<1>3. ByteInv => BytesInOrder
  BY ByteInvMeans
<1> QED
  BY <1>1, <1>2, <1>3, PTL DEF SocketsSpec
=============================================================================
