---------------------------- MODULE CloudProofs ----------------------------
(***************************************************************************)
(* The credential gate, for any credentials, routes, signing keys, number  *)
(* of concurrent requests, cache size and times: a revoked WorkOS key or   *)
(* an expired token is accepted no longer than a cache entry's time and    *)
(* one validation's after it ceased to be valid.                           *)
(***************************************************************************)
EXTENDS Gate, WellFoundedInduction, TLAPS

(* A credential that ceased to be valid more than n units ago.             *)
GoneFor(c, n) == since[c] # Valid /\ since[c] > n

CacheType == [c : Workos, ok : BOOLEAN, left : -1..CACHE_TTL]

(* An accepted entry that is still used was validated when its credential  *)
(* was valid: that is as long ago as the entry is old, and at most the     *)
(* time a validation takes.                                                *)
CacheOK(x) == x.ok /\ x.left >= 0 => ~GoneFor(x.c, CACHE_TTL - x.left + MaxLatency)

Validating == {"validate", "load", "fetch", "import", "key", "verify", "reply"}

Shape(e) ==
    e = [pc |-> e.pc, c |-> e.c, route |-> e.route, age |-> e.age, late |-> e.late,
         ok |-> e.ok, second |-> e.second, todo |-> e.todo]

(* A request that came late is about a credential that is long gone; one   *)
(* that is about to be accepted was validated since it came.               *)
EntryOK(e) ==
    /\ Shape(e)
    /\ e.age \in 0..MaxLatency /\ e.late \in BOOLEAN /\ e.ok \in BOOLEAN
    /\ e.late => e.c \in Workos /\ since[e.c] = Long
    /\ e.pc \in Validating => e.c \in Workos
    /\ e.ok => e.pc = "reply" /\ ~GoneFor(e.c, e.age)
    /\ e.pc \in {"ok", "403"} => ~e.late

GateInv ==
    /\ since \in [Workos -> {Valid} \cup 0..Long]
    /\ cache \in Seq(CacheType) /\ \A i \in 1..Len(cache) : CacheOK(cache[i])
    /\ entry = [r \in Entries |-> entry[r]] /\ \A r \in Entries : EntryOK(entry[r])

-----------------------------------------------------------------------------
(* The cache.                                                              *)

LEMMA GateConstants ==
    CACHE_TTL \in Nat /\ MaxLatency \in Nat /\ Long \in Nat /\ Long = CACHE_TTL + MaxLatency + 1
BY GateAssumption DEF Long

LEMMA MinOfNats ==
    ASSUME NEW S \in SUBSET Nat, S # {}
    PROVE  Min(S) \in S
<1>1. OpToRel(<, Nat) = {s \in Nat \X Nat : s[1] < s[2]}
  BY DEF OpToRel
<1>2. PICK x \in S : \A y \in S : ~(<<y, x>> \in OpToRel(<, Nat))
  BY WFMin, NatLessThanWellFounded
<1>3. ASSUME NEW y \in S, ~(x <= y) PROVE FALSE
  <2>1. <<y, x>> \in Nat \X Nat /\ y < x
    BY <1>3
  <2>2. <<y, x>> \in OpToRel(<, Nat)
    BY <1>1, <2>1
  <2> QED
    BY <1>2, <2>2
<1> QED
  BY <1>3 DEF Min

(* Where the cache s has its entry of c.                                   *)
Place(s, c) == SelectInSeq(s, LAMBDA e : e.c = c)

LEMMA Placed ==
    ASSUME NEW s \in Seq(CacheType), NEW c
    PROVE  Place(s, c) # 0 => Place(s, c) \in 1..Len(s) /\ s[Place(s, c)].c = c
<1> DEFINE I == {i \in 1..Len(s) : s[i].c = c}
<1>1. Place(s, c) = IF I # {} THEN Min(I) ELSE 0
  BY DEF Place, SelectInSeq
<1>2. I \in SUBSET Nat
  OBVIOUS
<1>3. ASSUME I # {} PROVE Min(I) \in I
  <2> HIDE DEF I
  <2> QED BY <1>2, <1>3, MinOfNats
<1> QED
  BY <1>1, <1>3

(* Every element of t is one of s ...                                      *)
Within(t, s) == \A i \in 1..Len(t) : \E j \in 1..Len(s) : t[i] = s[j]

(* ... or is x.                                                            *)
From(t, s, x) == \A i \in 1..Len(t) : (\E j \in 1..Len(s) : t[i] = s[j]) \/ t[i] = x

LEMMA RemovedFrom ==
    ASSUME NEW S, NEW s \in Seq(S), NEW k \in 1..Len(s)
    PROVE  RemoveAt(s, k) \in Seq(S) /\ Within(RemoveAt(s, k), s)
<1> DEFINE l == SubSeq(s, 1, k - 1)
           r == SubSeq(s, k + 1, Len(s))
<1>1. l \in Seq(S) /\ Len(l) = k - 1 /\ \A i \in 1..k - 1 : l[i] = s[i]
  OBVIOUS
<1>2. r \in Seq(S) /\ Len(r) = Len(s) - k /\ \A i \in 1..Len(s) - k : r[i] = s[k + i]
  OBVIOUS
<1>3. RemoveAt(s, k) = l \o r
  BY DEF RemoveAt
<1> HIDE DEF l, r
<1>4. /\ l \o r \in Seq(S) /\ Len(l \o r) = Len(l) + Len(r)
      /\ \A i \in 1..Len(l) + Len(r) : (l \o r)[i] = IF i <= Len(l) THEN l[i] ELSE r[i - Len(l)]
  <2>1. l \in Seq(S) /\ r \in Seq(S)
    BY <1>1, <1>2
  <2> QED BY <2>1
<1>5. ASSUME NEW i \in 1..Len(l \o r) PROVE \E j \in 1..Len(s) : (l \o r)[i] = s[j]
  <2>0. Len(s) \in Nat /\ k \in Nat /\ i \in 1..Len(l) + Len(r)
    BY <1>4
  <2>1. CASE i <= Len(l)
    <3>1. i \in 1..k - 1 /\ i \in 1..Len(s)
      BY <1>1, <2>0, <2>1
    <3> QED BY <1>1, <1>4, <2>0, <2>1, <3>1
  <2>2. CASE ~(i <= Len(l))
    <3>1. i - Len(l) \in 1..Len(s) - k /\ k + (i - Len(l)) \in 1..Len(s)
      BY <1>1, <1>2, <2>0, <2>2
    <3> QED BY <1>2, <1>4, <2>0, <2>2, <3>1
  <2> QED BY <2>1, <2>2
<1> QED
  BY <1>3, <1>4, <1>5 DEF Within

LEMMA CacheGetFrom ==
    ASSUME cache \in Seq(CacheType), NEW c
    PROVE  CacheGet(c) \in Seq(CacheType) /\ Within(CacheGet(c), cache)
<1>1. At(c) # 0 => At(c) \in 1..Len(cache)
  <2>1. At(c) = Place(cache, c)
    BY DEF At, Place
  <2> QED BY <2>1, Placed
<1>2. CacheGet(c) = cache \/ (At(c) # 0 /\ CacheGet(c) = RemoveAt(cache, At(c)))
  BY DEF CacheGet
<1>3. Within(cache, cache)
  BY DEF Within
<1> QED
  BY <1>1, <1>2, <1>3, RemovedFrom

LEMMA CacheSetFrom ==
    ASSUME NEW s \in Seq(CacheType), NEW c \in Workos, NEW ok \in BOOLEAN
    PROVE  LET x == [c |-> c, ok |-> ok, left |-> CACHE_TTL]
           IN  CacheSet(s, c, ok) \in Seq(CacheType) /\ From(CacheSet(s, c, ok), s, x)
<1> DEFINE x == [c |-> c, ok |-> ok, left |-> CACHE_TTL]
           kept == IF Len(s) >= CACHE_MAX THEN Tail(s) ELSE s
           n == Place(kept, c)
<1>1. x \in CacheType
  BY GateConstants DEF CacheType
<1>2. kept \in Seq(CacheType) /\ Len(kept) \in Nat /\ \A i \in 1..Len(kept) : \E j \in 1..Len(s) : kept[i] = s[j]
  <2>1. CASE Len(s) >= CACHE_MAX
    <3>1. s # <<>> /\ Len(s) \in Nat
      BY <2>1, GateAssumption
    <3>2. /\ Tail(s) \in Seq(CacheType) /\ Len(Tail(s)) = Len(s) - 1
          /\ \A i \in 1..Len(s) - 1 : Tail(s)[i] = s[i + 1] /\ i + 1 \in 1..Len(s)
      BY <3>1
    <3> QED BY <2>1, <3>1, <3>2
  <2>2. CASE ~(Len(s) >= CACHE_MAX)
    BY <2>2
  <2> QED BY <2>1, <2>2
<1>3. CacheSet(s, c, ok) = IF n = 0 THEN Append(kept, x) ELSE [kept EXCEPT ![n] = x]
  BY DEF CacheSet, Place
<1> HIDE DEF kept, x
<1>4. n # 0 => n \in 1..Len(kept)
  BY <1>2, Placed
<1> HIDE DEF n
<1>5. CASE n = 0
  <2> DEFINE a == Append(kept, x)
  <2>1. /\ a \in Seq(CacheType) /\ Len(a) = Len(kept) + 1 /\ a[Len(kept) + 1] = x
        /\ \A i \in 1..Len(kept) : a[i] = kept[i]
    BY <1>1, <1>2
  <2>2. \A i \in 1..Len(a) : i \in 1..Len(kept) \/ i = Len(kept) + 1
    BY <1>2, <2>1
  <2> HIDE DEF a
  <2>3. From(a, s, x)
    BY <1>2, <2>1, <2>2 DEF From
  <2> QED BY <1>3, <1>5, <2>1, <2>3 DEF a, x
<1>6. CASE n # 0
  <2> DEFINE a == [kept EXCEPT ![n] = x]
  <2>1. a \in Seq(CacheType) /\ Len(a) = Len(kept) /\ \A i \in 1..Len(kept) : a[i] = IF i = n THEN x ELSE kept[i]
    BY <1>1, <1>2, <1>4, <1>6
  <2> HIDE DEF a
  <2>2. From(a, s, x)
    BY <1>2, <2>1 DEF From
  <2> QED BY <1>3, <1>6, <2>1, <2>2 DEF a, x
<1> QED
  BY <1>5, <1>6

-----------------------------------------------------------------------------
(* The requests.                                                           *)

(* A record with one field replaced.                                       *)
LEMMA PutPc ==
    ASSUME NEW e, Shape(e), NEW x, NEW f, f = [e EXCEPT !.pc = x]
    PROVE  Shape(f) /\ f.pc = x /\ f.c = e.c /\ f.route = e.route /\ f.age = e.age /\ f.late = e.late
           /\ f.ok = e.ok /\ f.second = e.second /\ f.todo = e.todo
BY DEF Shape

LEMMA PutC ==
    ASSUME NEW e, Shape(e), NEW x, NEW f, f = [e EXCEPT !.c = x]
    PROVE  Shape(f) /\ f.c = x /\ f.pc = e.pc /\ f.route = e.route /\ f.age = e.age /\ f.late = e.late
           /\ f.ok = e.ok /\ f.second = e.second /\ f.todo = e.todo
BY DEF Shape

LEMMA PutRoute ==
    ASSUME NEW e, Shape(e), NEW x, NEW f, f = [e EXCEPT !.route = x]
    PROVE  Shape(f) /\ f.route = x /\ f.pc = e.pc /\ f.c = e.c /\ f.age = e.age /\ f.late = e.late
           /\ f.ok = e.ok /\ f.second = e.second /\ f.todo = e.todo
BY DEF Shape

LEMMA PutAge ==
    ASSUME NEW e, Shape(e), NEW x, NEW f, f = [e EXCEPT !.age = x]
    PROVE  Shape(f) /\ f.age = x /\ f.pc = e.pc /\ f.c = e.c /\ f.route = e.route /\ f.late = e.late
           /\ f.ok = e.ok /\ f.second = e.second /\ f.todo = e.todo
BY DEF Shape

LEMMA PutLate ==
    ASSUME NEW e, Shape(e), NEW x, NEW f, f = [e EXCEPT !.late = x]
    PROVE  Shape(f) /\ f.late = x /\ f.pc = e.pc /\ f.c = e.c /\ f.route = e.route /\ f.age = e.age
           /\ f.ok = e.ok /\ f.second = e.second /\ f.todo = e.todo
BY DEF Shape

LEMMA PutOk ==
    ASSUME NEW e, Shape(e), NEW x, NEW f, f = [e EXCEPT !.ok = x]
    PROVE  Shape(f) /\ f.ok = x /\ f.pc = e.pc /\ f.c = e.c /\ f.route = e.route /\ f.age = e.age
           /\ f.late = e.late /\ f.second = e.second /\ f.todo = e.todo
BY DEF Shape

LEMMA PutSecond ==
    ASSUME NEW e, Shape(e), NEW x, NEW f, f = [e EXCEPT !.second = x]
    PROVE  Shape(f) /\ f.second = x /\ f.pc = e.pc /\ f.c = e.c /\ f.route = e.route /\ f.age = e.age
           /\ f.late = e.late /\ f.ok = e.ok /\ f.todo = e.todo
BY DEF Shape

LEMMA PutTodo ==
    ASSUME NEW e, Shape(e), NEW x, NEW f, f = [e EXCEPT !.todo = x]
    PROVE  Shape(f) /\ f.todo = x /\ f.pc = e.pc /\ f.c = e.c /\ f.route = e.route /\ f.age = e.age
           /\ f.late = e.late /\ f.ok = e.ok /\ f.second = e.second
BY DEF Shape

(* f is e at another place, or with another outcome.                       *)
Moves(f, e) ==
    /\ Shape(f)
    /\ f.c = e.c /\ f.age = e.age /\ f.late = e.late

LEMMA MovesOK ==
    ASSUME NEW e, EntryOK(e), NEW f, Moves(f, e), f.ok = FALSE,
           f.pc \in Validating => e.c \in Workos, f.pc \in {"ok", "403"} => ~e.late
    PROVE  EntryOK(f)
BY DEF EntryOK, Moves, Shape

LEMMA VerdictOK ==
    ASSUME NEW e, EntryOK(e), NEW ok \in BOOLEAN, ok => ~e.late
    PROVE  EntryOK(Verdict(e, ok))
<1> DEFINE p == IF ~ok THEN "401" ELSE IF Required[e.route] \in Effective(e.c) THEN "ok" ELSE "403"
           f == [e EXCEPT !.ok = FALSE, !.second = FALSE, !.pc = p]
<1>1. Verdict(e, ok) = f
  BY DEF Verdict
<1>2. p \in {"401", "ok", "403"} /\ (p # "401" => ok)
  OBVIOUS
<1> HIDE DEF p
<1>3. Moves(f, e) /\ f.ok = FALSE /\ f.pc = p
  <2> DEFINE f1 == [e EXCEPT !.ok = FALSE]
             f2 == [f1 EXCEPT !.second = FALSE]
  <2>1. f = [f2 EXCEPT !.pc = p]
    BY DEF EntryOK
  <2>2. Shape(f1) /\ f1.c = e.c /\ f1.age = e.age /\ f1.late = e.late /\ f1.ok = FALSE
    BY PutOk DEF EntryOK
  <2> HIDE DEF f1
  <2>3. Shape(f2) /\ f2.c = e.c /\ f2.age = e.age /\ f2.late = e.late /\ f2.ok = FALSE
    BY <2>2, PutSecond
  <2> HIDE DEF f2, f
  <2> QED BY <2>1, <2>3, PutPc DEF Moves
<1> HIDE DEF f
<1> QED
  BY <1>1, <1>2, <1>3, MovesOK DEF Validating

(* A step of request r that leaves WorkOS alone.                           *)
LEMMA RequestKeeps ==
    ASSUME GateInv, NEW r \in Entries, NEW e, EntryOK(e), Set(r, e), since' = since,
           cache' \in Seq(CacheType), \A i \in 1..Len(cache') : CacheOK(cache'[i])
    PROVE  GateInv'
<1>1. \A q \in Entries : EntryOK(entry'[q])
  BY DEF GateInv, Set
<1>2. entry' = [q \in Entries |-> entry'[q]]
  BY DEF GateInv, Set
<1>3. \A q \in Entries : EntryOK(entry[q])'
  BY <1>1 DEF EntryOK, GoneFor
<1>4. \A i \in 1..Len(cache') : CacheOK(cache[i])'
  BY DEF CacheOK, GoneFor
<1>5. since' \in [Workos -> {Valid} \cup 0..Long]
  BY DEF GateInv
<1> QED
  BY <1>2, <1>3, <1>4, <1>5 DEF GateInv

LEMMA EntryHas ==
    ASSUME GateInv, NEW r \in Entries
    PROVE  EntryOK(entry[r])
BY DEF GateInv

LEMMA NoEntryOK ==
    EntryOK(NoEntry) /\ NoEntry.pc = "idle" /\ ~NoEntry.late /\ ~NoEntry.ok
BY GateConstants DEF NoEntry, EntryOK, Shape, Validating

LEMMA EnterOK ==
    ASSUME GateInv, NEW r \in Entries, NEW c, NEW route, NEW token \in BOOLEAN, Enter(r, c, route, token)
    PROVE  GateInv'
<1> DEFINE p == IF token THEN "operator" ELSE "resolve"
           late == c \in Workos /\ since[c] = Long
           e == [NoEntry EXCEPT !.pc = p, !.c = c, !.route = route, !.late = late]
<1>1. Set(r, e) /\ since' = since /\ cache' = cache
  BY DEF Enter
<1>2. p \in {"operator", "resolve"} /\ late \in BOOLEAN
  OBVIOUS
<1>3. late => c \in Workos /\ since[c] = Long
  OBVIOUS
<1> HIDE DEF p, late
<1>4. /\ Shape(e) /\ e.pc = p /\ e.c = c /\ e.age = 0 /\ e.late = late /\ e.ok = FALSE
  <2>1. Shape(NoEntry) /\ NoEntry.age = 0 /\ NoEntry.ok = FALSE
    BY DEF NoEntry, Shape
  <2> DEFINE e1 == [NoEntry EXCEPT !.pc = p]
             e2 == [e1 EXCEPT !.c = c]
             e3 == [e2 EXCEPT !.route = route]
  <2>2. e = [e3 EXCEPT !.late = late]
    BY <2>1 DEF Shape
  <2>3. Shape(e1) /\ e1.pc = p /\ e1.age = 0 /\ e1.ok = FALSE
    BY <2>1, PutPc
  <2> HIDE DEF e1
  <2>4. Shape(e2) /\ e2.pc = p /\ e2.c = c /\ e2.age = 0 /\ e2.ok = FALSE
    BY <2>3, PutC
  <2> HIDE DEF e2
  <2>5. Shape(e3) /\ e3.pc = p /\ e3.c = c /\ e3.age = 0 /\ e3.ok = FALSE
    BY <2>4, PutRoute
  <2> HIDE DEF e3, e
  <2> QED BY <2>2, <2>5, PutLate
<1> HIDE DEF e
<1>5. EntryOK(e)
  <2>1. e.age \in 0..MaxLatency
    BY <1>4, GateConstants
  <2>2. e.pc \notin Validating /\ e.pc \notin {"ok", "403"}
    BY <1>2, <1>4 DEF Validating
  <2>3. e.late \in BOOLEAN /\ e.ok \in BOOLEAN
    BY <1>2, <1>4
  <2>4. e.late => e.c \in Workos /\ since[e.c] = Long
    BY <1>3, <1>4
  <2> QED
    BY <1>4, <2>1, <2>2, <2>3, <2>4, Zenon DEF EntryOK
<1> QED
  BY <1>1, <1>5, RequestKeeps DEF GateInv

(* A cached result is used while it has time left: then the credential has *)
(* not been gone for long.                                                 *)
LEMMA ResolveOK ==
    ASSUME GateInv, NEW r \in Entries, Resolve(r)
    PROVE  GateInv'
<1> DEFINE e == entry[r]
           c == e.c
           p == IF KindOf[c] = "jwt" THEN "load" ELSE "validate"
<1>1. /\ e.pc = "resolve" /\ c \in Workos /\ cache' = CacheGet(c) /\ since' = since
      /\ Set(r, IF CacheHit(c) THEN Verdict(e, cache[At(c)].ok) ELSE [e EXCEPT !.pc = p])
  BY DEF Resolve
<1>2. EntryOK(e)
  BY EntryHas
<1>3. /\ cache \in Seq(CacheType) /\ \A i \in 1..Len(cache) : CacheOK(cache[i])
  BY DEF GateInv
<1>4. CacheGet(c) \in Seq(CacheType) /\ Within(CacheGet(c), cache)
  BY <1>3, CacheGetFrom
<1>5. \A i \in 1..Len(cache') : CacheOK(cache'[i])
  BY <1>1, <1>3, <1>4 DEF Within
<1>6. CASE CacheHit(c)
  <2> DEFINE n == At(c)
  <2>1. n # 0 /\ n \in 1..Len(cache) /\ cache[n].c = c /\ cache[n].left >= 0
    <3>1. At(c) = Place(cache, c)
      BY DEF At, Place
    <3> QED BY <1>3, <1>6, <3>1, Placed DEF CacheHit
  <2>2. cache[n] \in CacheType /\ CacheOK(cache[n])
    BY <1>3, <2>1
  <2>3. cache[n].ok \in BOOLEAN /\ cache[n].left \in Int
    BY <2>2 DEF CacheType
  <2>4. ASSUME cache[n].ok, e.late PROVE FALSE
    <3>1. ~GoneFor(c, CACHE_TTL - cache[n].left + MaxLatency)
      BY <2>1, <2>2, <2>4 DEF CacheOK
    <3>2. since[c] = Long
      BY <1>2, <2>4 DEF EntryOK
    <3> QED BY <2>1, <2>3, <3>1, <3>2, GateConstants DEF GoneFor, Valid
  <2> HIDE DEF n
  <2>5. EntryOK(Verdict(e, cache[n].ok))
    BY <1>2, <2>3, <2>4, VerdictOK
  <2>6. Set(r, Verdict(e, cache[n].ok))
    BY <1>1, <1>6 DEF n
  <2> QED BY <1>1, <1>4, <1>5, <2>5, <2>6, RequestKeeps
<1>7. CASE ~CacheHit(c)
  <2> DEFINE f == [e EXCEPT !.pc = p]
  <2>1. Set(r, f)
    BY <1>1, <1>7
  <2>2. p \in Validating /\ p \notin {"ok", "403"}
    BY DEF Validating
  <2>3. e.ok = FALSE
    BY <1>1, <1>2 DEF EntryOK
  <2> HIDE DEF p
  <2>4. Moves(f, e) /\ f.ok = FALSE /\ f.pc = p
    BY <1>2, <2>3 DEF EntryOK, Moves, Shape
  <2> HIDE DEF f
  <2>5. EntryOK(f)
    BY <1>1, <1>2, <2>2, <2>4, MovesOK
  <2> QED BY <1>1, <1>4, <1>5, <2>1, <2>5, RequestKeeps
<1> QED
  BY <1>6, <1>7

(* The other steps of a request that have no answer yet: it stays in the   *)
(* validation, and is not accepted so far.                                 *)
LEMMA StillValidating ==
    ASSUME GateInv, NEW r \in Entries, entry[r].pc \in Validating, NEW f, Set(r, f),
           Moves(f, entry[r]), f.ok = FALSE, f.pc \in Validating,
           since' = since, cache' = cache
    PROVE  GateInv'
<1> DEFINE e == entry[r]
<1>1. EntryOK(e)
  BY EntryHas
<1>2. e.c \in Workos
  BY <1>1 DEF EntryOK
<1>3. f.pc \notin {"ok", "403"}
  BY DEF Validating
<1>4. Moves(f, e)
  OBVIOUS
<1> HIDE DEF e
<1>5. EntryOK(f)
  BY <1>1, <1>2, <1>3, <1>4, MovesOK
<1> QED
  BY <1>5, RequestKeeps DEF GateInv

(* A request that has no answer yet.                                       *)
LEMMA Unanswered ==
    ASSUME GateInv, NEW r \in Entries, entry[r].pc \in Validating \ {"reply"}
    PROVE  Shape(entry[r]) /\ entry[r].ok = FALSE
<1>1. EntryOK(entry[r])
  BY EntryHas
<1> QED
  BY <1>1 DEF EntryOK

(* What is accepted at this moment is valid at this moment.                *)
LEMMA AnsweredOK ==
    ASSUME GateInv, NEW r \in Entries, entry[r].pc \in Validating, NEW f, Set(r, f),
           Moves(f, entry[r]), f.pc = "reply", f.ok \in BOOLEAN, f.ok => since[entry[r].c] = Valid,
           since' = since, cache' = cache
    PROVE  GateInv'
<1> DEFINE e == entry[r]
<1>1. EntryOK(e) /\ Shape(e) /\ e.pc \in Validating
  BY EntryHas DEF EntryOK
<1>2. f.ok => since[e.c] = Valid
  OBVIOUS
<1>3. Shape(f) /\ f.c = e.c /\ f.age = e.age /\ f.late = e.late
  BY DEF Moves
<1> HIDE DEF e
<1>4. EntryOK(f)
  <2>1. f.c \in Workos
    BY <1>1, <1>3 DEF EntryOK
  <2>2. f.ok => ~GoneFor(f.c, f.age)
    BY <1>2, <1>3 DEF GoneFor
  <2> QED
    BY <1>1, <1>3, <2>1, <2>2, Zenon DEF EntryOK
<1> QED
  BY <1>4, RequestKeeps DEF GateInv

LEMMA ResolveLegacyOK ==
    ASSUME GateInv, NEW r \in Entries, NEW reached \in BOOLEAN, ResolveLegacy(r, reached)
    PROVE  GateInv'
<1> DEFINE e == entry[r]
           ok == reached /\ e.c \in tenants
<1>1. e.c \notin Workos /\ Set(r, Verdict(e, ok)) /\ since' = since /\ cache' = cache
  BY DEF ResolveLegacy
<1>2. EntryOK(e) /\ ok \in BOOLEAN
  BY EntryHas
<1>3. ~e.late
  BY <1>1, <1>2 DEF EntryOK
<1> HIDE DEF e, ok
<1>4. EntryOK(Verdict(e, ok))
  BY <1>2, <1>3, VerdictOK
<1> QED
  BY <1>1, <1>4, RequestKeeps DEF GateInv

LEMMA ValidateApiKeyOK ==
    ASSUME GateInv, NEW r \in Entries, ValidateApiKey(r)
    PROVE  GateInv'
<1> DEFINE ok == up /\ since[entry[r].c] = Valid
           f == [entry[r] EXCEPT !.pc = "reply", !.ok = ok]
<1>1. Set(r, f) /\ since' = since /\ cache' = cache /\ entry[r].pc \in Validating \ {"reply"}
  BY DEF ValidateApiKey, Validating
<1>2. ok \in BOOLEAN /\ (ok => since[entry[r].c] = Valid)
  OBVIOUS
<1>3. Shape(entry[r])
  BY <1>1, Unanswered
<1> HIDE DEF ok
<1>4. Moves(f, entry[r]) /\ f.pc = "reply" /\ f.ok = ok
  <2> DEFINE e == entry[r]
  <2>1. Shape(e) /\ f = [e EXCEPT !.pc = "reply", !.ok = ok]
    BY <1>3
  <2> HIDE DEF e, f
  <2>2. Shape(f)
    BY <2>1 DEF Shape
  <2>3. f.pc = "reply" /\ f.ok = ok /\ f.c = e.c /\ f.age = e.age /\ f.late = e.late
    BY <2>1 DEF Shape
  <2> QED BY <2>2, <2>3 DEF Moves, e
<1> HIDE DEF f
<1> QED
  BY <1>1, <1>2, <1>4, AnsweredOK

LEMMA VerifyTokenOK ==
    ASSUME GateInv, NEW r \in Entries, VerifyToken(r)
    PROVE  GateInv'
<1> DEFINE ok == since[entry[r].c] = Valid
           f == [entry[r] EXCEPT !.pc = "reply", !.ok = ok]
<1>1. Set(r, f) /\ since' = since /\ cache' = cache /\ entry[r].pc \in Validating \ {"reply"}
  BY DEF VerifyToken, Validating
<1>2. ok \in BOOLEAN /\ (ok => since[entry[r].c] = Valid)
  OBVIOUS
<1>3. Shape(entry[r])
  BY <1>1, Unanswered
<1> HIDE DEF ok
<1>4. Moves(f, entry[r]) /\ f.pc = "reply" /\ f.ok = ok
  <2> DEFINE e == entry[r]
  <2>1. Shape(e) /\ f = [e EXCEPT !.pc = "reply", !.ok = ok]
    BY <1>3
  <2> HIDE DEF e, f
  <2>2. Shape(f)
    BY <2>1 DEF Shape
  <2>3. f.pc = "reply" /\ f.ok = ok /\ f.c = e.c /\ f.age = e.age /\ f.late = e.late
    BY <2>1 DEF Shape
  <2> QED BY <2>2, <2>3 DEF Moves, e
<1> HIDE DEF f
<1> QED
  BY <1>1, <1>2, <1>4, AnsweredOK

LEMMA LoadJwksOK ==
    ASSUME GateInv, NEW r \in Entries, LoadJwks(r)
    PROVE  GateInv'
<1> DEFINE p == IF jwks.left >= 0 /\ jwks.keys # {} THEN "key" ELSE "fetch"
           f == [entry[r] EXCEPT !.pc = p]
<1>1. /\ Set(r, f) /\ since' = since /\ cache' = cache
      /\ entry[r].pc \in Validating /\ entry[r].pc # "reply"
  BY DEF LoadJwks, Validating
<1>2. p \in Validating
  BY DEF Validating
<1> HIDE DEF p
<1>3. Shape(entry[r]) /\ entry[r].ok = FALSE
  BY <1>1, Unanswered
<1>4. Moves(f, entry[r]) /\ f.pc = p /\ f.ok = FALSE
  BY <1>3, PutPc DEF Moves
<1> HIDE DEF f
<1> QED
  BY <1>1, <1>2, <1>4, StillValidating

LEMMA FetchJwksOK ==
    ASSUME GateInv, NEW r \in Entries, FetchJwks(r)
    PROVE  GateInv'
<1> DEFINE e == entry[r]
<1>1. since' = since /\ cache' = cache /\ e.pc \in Validating /\ e.pc # "reply"
  BY DEF FetchJwks, Validating
<1>2. Shape(e) /\ e.ok = FALSE
  BY <1>1, Unanswered
<1>3. PICK f : Set(r, f) /\ (f = [e EXCEPT !.pc = "import", !.todo = published] \/ f = [e EXCEPT !.pc = "key"])
  BY DEF FetchJwks
<1>4. Moves(f, e) /\ f.ok = FALSE /\ f.pc \in Validating
  <2>1. CASE f = [e EXCEPT !.pc = "key"]
    BY <1>2, <2>1, PutPc DEF Moves, Validating
  <2>2. CASE f = [e EXCEPT !.pc = "import", !.todo = published]
    <3> DEFINE f1 == [e EXCEPT !.pc = "import"]
    <3>1. f = [f1 EXCEPT !.todo = published]
      BY <1>2, <2>2 DEF Shape
    <3> HIDE DEF e
    <3>2. Shape(f1) /\ f1.pc = "import" /\ f1.c = e.c /\ f1.age = e.age /\ f1.late = e.late /\ f1.ok = FALSE
      BY <1>2, PutPc
    <3> HIDE DEF f1
    <3> QED BY <3>1, <3>2, PutTodo DEF Moves, Validating
  <2> QED BY <1>3, <2>1, <2>2
<1> QED
  BY <1>1, <1>3, <1>4, StillValidating

LEMMA ImportKeyOK ==
    ASSUME GateInv, NEW r \in Entries, ImportKey(r)
    PROVE  GateInv'
<1> DEFINE e == entry[r]
<1>1. since' = since /\ cache' = cache /\ e.pc \in Validating /\ e.pc # "reply"
  BY DEF ImportKey, Validating
<1>2. Shape(e) /\ e.ok = FALSE
  BY <1>1, Unanswered
<1>3. PICK k \in e.todo :
         Set(r, [e EXCEPT !.todo = e.todo \ {k}, !.pc = IF e.todo \ {k} = {} THEN "key" ELSE "import"])
  BY DEF ImportKey
<1> DEFINE rest == e.todo \ {k}
           p == IF rest = {} THEN "key" ELSE "import"
           f == [e EXCEPT !.todo = rest, !.pc = p]
           f1 == [e EXCEPT !.todo = rest]
<1>4. Set(r, f) /\ p \in Validating
  BY <1>3 DEF Validating
<1> HIDE DEF rest, p
<1>5. f = [f1 EXCEPT !.pc = p]
  BY <1>2 DEF Shape
<1>6. Shape(f1) /\ f1.c = e.c /\ f1.age = e.age /\ f1.late = e.late /\ f1.ok = FALSE
  BY <1>2, PutTodo
<1> HIDE DEF f1, f
<1>7. Moves(f, e) /\ f.ok = FALSE /\ f.pc = p
  BY <1>5, <1>6, PutPc DEF Moves
<1> QED
  BY <1>1, <1>4, <1>7, StillValidating

LEMMA FindKeyOK ==
    ASSUME GateInv, NEW r \in Entries, FindKey(r)
    PROVE  GateInv'
<1> DEFINE e == entry[r]
           found == KidOf[e.c] \in jwks.keys
           again == ~found /\ ~e.second
           s == e.second \/ again
           p == IF found THEN "verify" ELSE IF again THEN "load" ELSE "reply"
           f == [e EXCEPT !.second = s, !.ok = FALSE, !.pc = p]
           f1 == [e EXCEPT !.second = s]
           f2 == [f1 EXCEPT !.ok = FALSE]
<1>1. since' = since /\ cache' = cache /\ e.pc \in Validating /\ e.pc # "reply"
  BY DEF FindKey, Validating
<1>2. Shape(e)
  BY <1>1, Unanswered
<1>3. Set(r, f) /\ p \in Validating
  BY DEF FindKey, Validating
<1> HIDE DEF p, s
<1>4. f = [f2 EXCEPT !.pc = p]
  BY <1>2 DEF Shape
<1>5. Shape(f1) /\ f1.c = e.c /\ f1.age = e.age /\ f1.late = e.late
  BY <1>2, PutSecond
<1> HIDE DEF f1
<1>6. Shape(f2) /\ f2.c = e.c /\ f2.age = e.age /\ f2.late = e.late /\ f2.ok = FALSE
  BY <1>5, PutOk
<1> HIDE DEF f2, f
<1>7. Moves(f, e) /\ f.ok = FALSE /\ f.pc = p
  BY <1>4, <1>6, PutPc DEF Moves
<1> QED
  BY <1>1, <1>3, <1>7, StillValidating

(* What is written to the cache was valid when it was validated, and that  *)
(* is no longer ago than the request is old.                               *)
LEMMA ResolvedOK ==
    ASSUME GateInv, NEW r \in Entries, Resolved(r)
    PROVE  GateInv'
<1> DEFINE e == entry[r]
           x == [c |-> e.c, ok |-> e.ok, left |-> CACHE_TTL]
<1>1. /\ e.pc = "reply" /\ cache' = CacheSet(cache, e.c, e.ok) /\ Set(r, Verdict(e, e.ok))
      /\ since' = since
  BY DEF Resolved
<1>2. EntryOK(e) /\ cache \in Seq(CacheType) /\ \A i \in 1..Len(cache) : CacheOK(cache[i])
  BY EntryHas DEF GateInv
<1>3. /\ e.c \in Workos /\ e.ok \in BOOLEAN /\ e.age \in 0..MaxLatency
      /\ e.ok => ~GoneFor(e.c, e.age)
      /\ e.late => since[e.c] = Long
  BY <1>1, <1>2 DEF EntryOK, Validating
<1>4. since[e.c] \in {Valid} \cup 0..Long
  BY <1>3 DEF GateInv
<1> HIDE DEF e
<1>5. ASSUME e.ok PROVE ~GoneFor(e.c, MaxLatency)
  BY <1>3, <1>4, <1>5, GateConstants DEF GoneFor, Valid
<1>6. ASSUME e.ok, e.late PROVE FALSE
  BY <1>3, <1>5, <1>6, GateConstants DEF GoneFor, Valid
<1>7. EntryOK(Verdict(e, e.ok))
  BY <1>2, <1>3, <1>6, VerdictOK
<1>8. CacheOK(x)
  <2>1. x.c = e.c /\ x.ok = e.ok /\ x.left = CACHE_TTL
    OBVIOUS
  <2>2. CACHE_TTL - x.left + MaxLatency = MaxLatency
    BY <2>1, GateConstants
  <2> QED BY <1>5, <2>1, <2>2, Zenon DEF CacheOK
<1>9. CacheSet(cache, e.c, e.ok) \in Seq(CacheType) /\ From(CacheSet(cache, e.c, e.ok), cache, x)
  BY <1>2, <1>3, CacheSetFrom
<1> HIDE DEF x
<1>10. \A i \in 1..Len(cache') : CacheOK(cache'[i])
  BY <1>1, <1>2, <1>8, <1>9, Zenon DEF From
<1> QED
  BY <1>1, <1>7, <1>9, <1>10, RequestKeeps

LEMMA LeavesOK ==
    ASSUME GateInv, NEW r \in Entries, Set(r, NoEntry), since' = since, cache' = cache
    PROVE  GateInv'
BY NoEntryOK, RequestKeeps DEF GateInv

-----------------------------------------------------------------------------
(* WorkOS and time.                                                        *)

LEMMA CeasesOK ==
    ASSUME GateInv, NEW c \in Workos, Ceases(c)
    PROVE  GateInv'
<1>1. /\ since \in [Workos -> {Valid} \cup 0..Long] /\ since[c] = Valid
      /\ since' = [since EXCEPT ![c] = 0] /\ cache' = cache /\ entry' = entry
  BY DEF GateInv, Ceases
<1>2. since' \in [Workos -> {Valid} \cup 0..Long]
  BY <1>1, GateConstants
<1>3. since'[c] = 0 /\ \A d \in Workos \ {c} : since'[d] = since[d]
  BY <1>1
<1>4. \A d \in Workos, n \in Nat : GoneFor(d, n)' => GoneFor(d, n)
  BY <1>1, <1>3 DEF GoneFor
<1>5. \A i \in 1..Len(cache) : CacheOK(cache[i])'
  <2> SUFFICES ASSUME NEW i \in 1..Len(cache) PROVE CacheOK(cache[i])'
    OBVIOUS
  <2> DEFINE x == cache[i]
  <2>1. x \in CacheType /\ CacheOK(x) /\ x' = x
    BY <1>1 DEF GateInv
  <2> HIDE DEF x
  <2> QED
    <3>1. x.c \in Workos /\ (x.left >= 0 => CACHE_TTL - x.left + MaxLatency \in Nat)
      BY <2>1, GateConstants DEF CacheType
    <3>2. CacheOK(x)'
      BY <1>4, <2>1, <3>1 DEF CacheOK
    <3> QED BY <3>2 DEF x
<1>6. \A r \in Entries : EntryOK(entry[r])'
  <2> SUFFICES ASSUME NEW r \in Entries PROVE EntryOK(entry[r])'
    OBVIOUS
  <2>1. EntryOK(entry[r])
    BY EntryHas
  <2>2. entry[r]' = entry[r]
    BY <1>1
  <2> QED
    BY <1>1, <1>3, <1>4, <2>1, <2>2, GateConstants DEF EntryOK, Validating, Valid
<1> QED
  BY <1>1, <1>2, <1>5, <1>6 DEF GateInv

(* A unit of time: the credential is gone one unit longer, the entry has   *)
(* one unit less and the request is one unit older.                        *)
GoneAfter(c, n) == since'[c] # Valid /\ since'[c] > n

LEMMA GoneLonger ==
    ASSUME GateInv, GateTick, NEW c \in Workos, NEW n \in Nat, ~GoneFor(c, n)
    PROVE  ~GoneAfter(c, n + 1)
<1>1. since[c] \in {Valid} \cup 0..Long
  BY DEF GateInv
<1>2. since'[c] = IF since[c] \in 0 .. Long - 1 THEN since[c] + 1 ELSE since[c]
  BY DEF GateTick
<1>3. since[c] = Valid \/ (since[c] \in 0..Long /\ since[c] <= n)
  BY <1>1 DEF GoneFor, Valid
<1>4. since'[c] = Valid \/ since'[c] <= n + 1
  BY <1>2, <1>3, GateConstants DEF Valid
<1>5. since'[c] \in Int
  BY <1>1, <1>2, GateConstants DEF Valid
<1> QED
  BY <1>4, <1>5 DEF GoneAfter, Valid

LEMMA TickCacheOK ==
    ASSUME GateInv, GateTick
    PROVE  cache' \in Seq(CacheType) /\ \A i \in 1..Len(cache') : CacheOK(cache[i])'
<1> DEFINE Older(x) == [x EXCEPT !.left = IF @ >= 0 THEN @ - 1 ELSE @]
<1>1. cache \in Seq(CacheType) /\ \A i \in 1..Len(cache) : cache[i] \in CacheType /\ CacheOK(cache[i])
  BY DEF GateInv
<1>2. cache' = [i \in 1..Len(cache) |-> Older(cache[i])]
  BY <1>1 DEF GateTick
<1>3. ASSUME NEW x \in CacheType
      PROVE  LET y == Older(x)
             IN  /\ y \in CacheType /\ y.c = x.c /\ y.ok = x.ok
                 /\ y.left = IF x.left >= 0 THEN x.left - 1 ELSE x.left
  BY GateConstants DEF CacheType
<1> HIDE DEF Older
<1>4. cache' \in Seq(CacheType) /\ Len(cache') = Len(cache) /\ \A i \in 1..Len(cache) : cache'[i] = Older(cache[i])
  BY <1>1, <1>2, <1>3
<1>5. ASSUME NEW i \in 1..Len(cache) PROVE CacheOK(cache[i])'
  <2> DEFINE x == cache[i]
             y == cache'[i]
  <2>1. x \in CacheType /\ CacheOK(x)
    BY <1>1
  <2>2. y.c = x.c /\ y.ok = x.ok /\ y.left = IF x.left >= 0 THEN x.left - 1 ELSE x.left
    BY <1>3, <1>4, <2>1
  <2> HIDE DEF x, y
  <2>3. ASSUME y.ok, y.left >= 0 PROVE ~GoneAfter(y.c, CACHE_TTL - y.left + MaxLatency)
    <3> DEFINE n == CACHE_TTL - x.left + MaxLatency
    <3>1. x.left \in -1..CACHE_TTL /\ x.c \in Workos
      BY <2>1 DEF CacheType
    <3>2. x.left >= 0 /\ y.left = x.left - 1
      BY <2>2, <2>3, <3>1
    <3>3. n \in Nat /\ CACHE_TTL - y.left + MaxLatency = n + 1
      BY <3>1, <3>2, GateConstants, SMTT(30)
    <3>4. ~GoneFor(x.c, n)
      BY <2>1, <2>2, <2>3, <3>2, Zenon DEF CacheOK
    <3> HIDE DEF n
    <3>5. ~GoneAfter(x.c, n + 1)
      BY <3>1, <3>3, <3>4, GoneLonger
    <3> QED BY <2>2, <3>3, <3>5, Zenon
  <2> QED
    BY <2>3 DEF CacheOK, GoneFor, GoneAfter, y
<1> QED
  BY <1>4, <1>5

LEMMA TickEntryOK ==
    ASSUME GateInv, GateTick, NEW r \in Entries
    PROVE  EntryOK(entry[r])'
<1> DEFINE e == entry[r]
           f == entry'[r]
<1>1. EntryOK(e)
  BY EntryHas
<1>2. f = IF e.pc # "idle" THEN [e EXCEPT !.age = e.age + 1] ELSE e
  BY DEF GateTick, InFlight
<1>3. e.pc # "idle" => e.age < MaxLatency
  BY DEF GateTick, InFlight
<1>4. ASSUME NEW c \in Workos, since[c] = Long PROVE since'[c] = Long
  BY <1>4, GateConstants DEF GateTick
<1> HIDE DEF e, f
<1>5. CASE e.pc = "idle"
  <2>1. f = e /\ ~e.ok
    BY <1>1, <1>2, <1>5 DEF EntryOK
  <2>2. e.late => e.c \in Workos /\ since'[e.c] = Long
    BY <1>1, <1>4 DEF EntryOK
  <2> QED BY <1>1, <2>1, <2>2, Zenon DEF EntryOK, f
<1>6. CASE e.pc # "idle"
  <2>1. f = [e EXCEPT !.age = e.age + 1]
    BY <1>2, <1>6
  <2>2. Shape(e) /\ e.age \in 0..MaxLatency
    BY <1>1 DEF EntryOK
  <2>3. /\ Shape(f) /\ f.age = e.age + 1 /\ f.pc = e.pc /\ f.c = e.c /\ f.late = e.late /\ f.ok = e.ok
    BY <2>1, <2>2, PutAge
  <2>4. f.age \in 0..MaxLatency
    BY <1>3, <1>6, <2>2, <2>3, GateConstants
  <2>5. ASSUME f.ok PROVE f.pc = "reply" /\ ~GoneAfter(f.c, f.age)
    <3>1. e.pc = "reply" /\ ~GoneFor(e.c, e.age) /\ e.c \in Workos
      BY <1>1, <2>3, <2>5 DEF EntryOK, Validating
    <3>2. ~GoneAfter(e.c, e.age + 1)
      BY <2>2, <3>1, GateConstants, GoneLonger
    <3> QED BY <2>3, <3>1, <3>2
  <2>6. f.late \in BOOLEAN /\ f.ok \in BOOLEAN /\ (f.late => f.c \in Workos /\ since'[f.c] = Long)
    BY <1>1, <1>4, <2>3 DEF EntryOK
  <2>7. (f.pc \in Validating => f.c \in Workos) /\ (f.pc \in {"ok", "403"} => ~f.late)
    BY <1>1, <2>3 DEF EntryOK
  <2> QED
    BY <2>3, <2>4, <2>5, <2>6, <2>7, Zenon DEF EntryOK, GoneFor, GoneAfter, f
<1> QED
  BY <1>5, <1>6

LEMMA GateTickOK ==
    ASSUME GateInv, GateTick
    PROVE  GateInv'
<1>1. since' \in [Workos -> {Valid} \cup 0..Long]
  BY GateConstants DEF GateInv, GateTick
<1>2. entry' = [r \in Entries |-> entry'[r]]
  BY DEF GateTick
<1> QED
  BY <1>1, <1>2, TickCacheOK, TickEntryOK DEF GateInv

-----------------------------------------------------------------------------
LEMMA GateInitOK ==
    ASSUME GateInit
    PROVE  GateInv
<1>1. since \in [Workos -> {Valid} \cup 0..Long]
  <2>1. since \in [Workos -> {Valid, Long}]
    BY DEF GateInit
  <2> QED BY <2>1, GateConstants
<1>2. cache \in Seq(CacheType) /\ Len(cache) = 0
  BY DEF GateInit
<1>3. \A r \in Entries : entry[r] = NoEntry
  BY DEF GateInit
<1>4. entry = [r \in Entries |-> entry[r]]
  BY DEF GateInit
<1> QED
  BY <1>1, <1>2, <1>3, <1>4, NoEntryOK DEF GateInv

LEMMA GateNextOK ==
    ASSUME GateInv, [GateNext]_gateVars
    PROVE  GateInv'
<1>1. CASE UNCHANGED gateVars
  BY <1>1 DEF gateVars, GateInv, CacheOK, EntryOK, GoneFor
<1>2. ASSUME NEW r \in Entries, Proceed(r) PROVE GateInv'
  <2>1. CASE \E reached \in BOOLEAN : ResolveLegacy(r, reached)
    BY <2>1, ResolveLegacyOK
  <2>2. CASE Leave(r)
    BY <2>2, LeavesOK DEF Leave
  <2> QED
    BY <1>2, <2>1, <2>2, ResolveOK, ValidateApiKeyOK, LoadJwksOK, FetchJwksOK, ImportKeyOK,
       FindKeyOK, VerifyTokenOK, ResolvedOK DEF Proceed
<1>3. ASSUME NEW r \in Entries, NEW c \in presented, NEW route \in Routes, NEW token \in BOOLEAN,
             Enter(r, c, route, token)
      PROVE  GateInv'
  BY <1>3, EnterOK
<1>4. ASSUME NEW r \in Entries, NEW c \in Creds, AdminMints(r, c) PROVE GateInv'
  BY <1>4, LeavesOK DEF AdminMints
<1>5. ASSUME NEW r \in Entries, NEW gone \in SUBSET tenants, AdminRevokes(r, gone) PROVE GateInv'
  BY <1>5, LeavesOK DEF AdminRevokes
<1>6. CASE Rotates \/ Outage
  <2>1. since' = since /\ cache' = cache /\ entry' = entry
    BY <1>6 DEF Rotates, Outage
  <2> QED BY <2>1 DEF GateInv, CacheOK, EntryOK, GoneFor
<1> QED
  BY <1>1, <1>2, <1>3, <1>4, <1>5, <1>6, CeasesOK, GateTickOK DEF GateNext

(* A WorkOS key that was revoked, or a token that expired, is accepted at  *)
(* most the time of one cache entry and of one validation longer, however  *)
(* many requests hit the cache, validate at once or end late, and however  *)
(* WorkOS fails and rotates its keys (resolveCredential, _cacheSet).       *)
THEOREM RevocationAlwaysBound == GateSpec => []RevocationBound
<1>1. GateInit => GateInv
  BY GateInitOK
<1>2. GateInv /\ [GateNext]_gateVars => GateInv'
  BY GateNextOK
<1>3. GateInv => RevocationBound
  BY DEF GateInv, EntryOK, RevocationBound
<1> QED
  BY <1>1, <1>2, <1>3, PTL DEF GateSpec

=============================================================================
