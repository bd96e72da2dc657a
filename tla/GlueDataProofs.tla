--------------------------- MODULE GlueDataProofs ---------------------------
(***************************************************************************)
(* The data machines of the kernel glue, of the sandbox and of the SDK:    *)
(* the R2 breaker (R2Breaker), the container's mount (Sandbox), the fetch  *)
(* policy (Egress), the session's config (SessionSetup), the file package  *)
(* (EngramFs), the SDK's pool of sessions (EngramClient), the state it     *)
(* keeps in the VM (SdkSession), its transfers (SdkFiles) and the snapshot *)
(* images (ImageChain), each for every value of its constants.             *)
(***************************************************************************)
EXTENDS R2Breaker, Sandbox, Egress, SessionSetup, EngramFs, EngramClient,
        SdkSession, SdkFiles, ImageChain, FoldTheorems

-----------------------------------------------------------------------------
(* R2Breaker.                                                              *)

ReqType == [pc : {"idle", "attempt"}, attempt : Nat, age : Nat, doomed : BOOLEAN]

BreakerTypeOK ==
    br \in [fails : Nat, left : Nat, reqs : [BrSlots -> ReqType], up : BOOLEAN, healthy : Nat]

(* An attempt that R2 will not answer has seen all of the healthy time and *)
(* is no older than the time-out; an answered one is over within a unit.   *)
AttemptInv ==
    \A w \in BrSlots :
        LET q == br.reqs[w] IN
        /\ q.doomed => q.pc = "attempt" /\ br.healthy <= q.age /\ q.age <= BrTimeout
        /\ q.pc = "attempt" /\ ~q.doomed => q.age <= 1

(* What is left of the cool-down ends before HealTime of healthy time: the *)
(* last failure that started it came within a time-out of the recovery.    *)
CooldownInv ==
    /\ ~br.up => br.healthy = 0
    /\ br.left <= BrCooldown
    /\ br.left > 0 => br.left + br.healthy <= HealTime

BreakerInv == BreakerTypeOK /\ AttemptInv /\ CooldownInv

LEMMA BreakerConstants == {BrAttempts, BrTimeout, BrTripAt, BrCooldown, HealTime} \subseteq Nat \ {0}
BY BreakerAssumption DEF HealTime

LEMMA NoRequestType == NoRequest \in ReqType
BY DEF NoRequest, ReqType

LEMMA BreakerInitInv == BreakerInit => BreakerInv
BY BreakerConstants, NoRequestType
   DEF BreakerInit, BreakerInv, BreakerTypeOK, AttemptInv, CooldownInv, NoRequest

(* A step in which one request goes on and the counters stay.              *)
LEMMA RequestMoves ==
    ASSUME BreakerInv, NEW w \in BrSlots, NEW q \in ReqType,
           br' = [br EXCEPT !.reqs[w] = q],
           q.doomed => q.pc = "attempt" /\ br.healthy <= q.age /\ q.age <= BrTimeout,
           q.pc = "attempt" /\ ~q.doomed => q.age <= 1
    PROVE  BreakerInv'
<1>1. /\ BreakerTypeOK' /\ br'.healthy = br.healthy /\ br'.up = br.up /\ br'.left = br.left
      /\ \A v \in BrSlots : br'.reqs[v] = IF v = w THEN q ELSE br.reqs[v]
  BY DEF BreakerInv, BreakerTypeOK
<1> QED BY <1>1 DEF BreakerInv, AttemptInv, CooldownInv

LEMMA BeginRequestInv ==
    ASSUME BreakerInv, NEW w \in BrSlots, NEW asks \in BOOLEAN, BeginRequest(w, asks) PROVE BreakerInv'
<1> DEFINE q == [NoRequest EXCEPT !.pc = "attempt", !.doomed = ~br.up]
<1>1. q \in ReqType /\ q.pc = "attempt" /\ q.age = 0 /\ (q.doomed => ~br.up)
  BY DEF NoRequest, ReqType, BreakerInv, BreakerTypeOK
<1>2. br' = [br EXCEPT !.reqs[w] = q]
  BY DEF BeginRequest
<1> HIDE DEF q
<1> QED BY <1>1, <1>2, RequestMoves, BreakerConstants DEF BreakerInv, CooldownInv

(* An answer closes the breaker.                                           *)
LEMMA AttemptAnswersInv == ASSUME BreakerInv, NEW w \in BrSlots, AttemptAnswers(w) PROVE BreakerInv'
<1>1. br' = [br EXCEPT !.fails = 0, !.left = 0, !.reqs = [br.reqs EXCEPT ![w] = NoRequest]]
  BY DEF AttemptAnswers, RecordSuccess, BreakerInv, BreakerTypeOK
<1>2. /\ BreakerTypeOK' /\ br'.healthy = br.healthy /\ br'.up = br.up /\ br'.left = 0
      /\ \A v \in BrSlots : br'.reqs[v] = IF v = w THEN NoRequest ELSE br.reqs[v]
  BY <1>1, NoRequestType DEF BreakerInv, BreakerTypeOK
<1> QED BY <1>2, BreakerConstants DEF BreakerInv, AttemptInv, CooldownInv, NoRequest

(* A failure: the attempt it ends has lived through the healthy time.      *)
LEMMA AttemptFailsInv == ASSUME BreakerInv, NEW w \in BrSlots, AttemptFails(w) PROVE BreakerInv'
<1>1. CASE br.reqs[w].attempt + 1 < BrAttempts
  <2> DEFINE q == [br.reqs[w] EXCEPT !.attempt = br.reqs[w].attempt + 1, !.age = 0, !.doomed = ~br.up]
  <2>1. q \in ReqType /\ q.pc = "attempt" /\ q.age = 0 /\ (q.doomed => ~br.up)
    <3>1. br.reqs[w] \in ReqType /\ br.up \in BOOLEAN /\ br.reqs[w].pc = "attempt"
      BY DEF BreakerInv, BreakerTypeOK, AttemptFails
    <3>2. br.reqs[w].attempt + 1 \in Nat
      BY <3>1 DEF ReqType
    <3> QED BY <3>1, <3>2 DEF ReqType
  <2>2. br' = [br EXCEPT !.reqs[w] = q]
    BY <1>1 DEF AttemptFails
  <2> HIDE DEF q
  <2> QED BY <2>1, <2>2, RequestMoves, BreakerConstants DEF BreakerInv, CooldownInv
<1>2. CASE ~(br.reqs[w].attempt + 1 < BrAttempts)
  <2>1. PICK fails \in Nat, left \in {br.left, BrCooldown} :
            br' = [br EXCEPT !.fails = fails, !.left = left, !.reqs = [br.reqs EXCEPT ![w] = NoRequest]]
    <3> DEFINE fails == IF br.fails < BrTripAt THEN br.fails + 1 ELSE br.fails
               left == IF fails >= BrTripAt THEN BrCooldown ELSE br.left
    <3>1. fails \in Nat /\ left \in {br.left, BrCooldown}
      BY DEF BreakerInv, BreakerTypeOK
    <3>2. br' = [br EXCEPT !.fails = fails, !.left = left, !.reqs = [br.reqs EXCEPT ![w] = NoRequest]]
      BY <1>2 DEF AttemptFails, RecordFailure, BreakerInv, BreakerTypeOK
    <3> QED BY <3>1, <3>2
  <2>2. /\ BreakerTypeOK' /\ br'.healthy = br.healthy /\ br'.up = br.up /\ br'.left = left
        /\ \A v \in BrSlots : br'.reqs[v] = IF v = w THEN NoRequest ELSE br.reqs[v]
    BY <2>1, NoRequestType, BreakerConstants DEF BreakerInv, BreakerTypeOK
  <2>3. br.healthy <= BrTimeout
    BY BreakerConstants DEF AttemptFails, BreakerInv, BreakerTypeOK, AttemptInv, ReqType
  <2>4. CooldownInv'
    BY <2>2, <2>3, BreakerConstants DEF BreakerInv, BreakerTypeOK, CooldownInv, HealTime
  <2> QED BY <2>2, <2>4, BreakerConstants DEF BreakerInv, AttemptInv, NoRequest
<1> QED BY <1>1, <1>2

LEMMA BreakerCrashInv == ASSUME BreakerInv, BreakerCrash PROVE BreakerInv'
<1>1. /\ BreakerTypeOK' /\ br'.healthy = br.healthy /\ br'.up = br.up /\ br'.left = br.left
      /\ \A v \in BrSlots : br'.reqs[v] = NoRequest
  BY NoRequestType DEF BreakerCrash, BreakerInv, BreakerTypeOK
<1> QED BY <1>1, BreakerConstants DEF BreakerInv, AttemptInv, CooldownInv, NoRequest

(* What was under way when R2 degrades is doomed; nothing is healthy.      *)
LEMMA R2DegradesInv == ASSUME BreakerInv, R2Degrades PROVE BreakerInv'
<1>1. \A v \in BrSlots : LET q == [br.reqs[v] EXCEPT !.doomed = (br.reqs[v].pc = "attempt")] IN
          q \in ReqType /\ q.pc = br.reqs[v].pc /\ q.age = br.reqs[v].age /\ (q.doomed <=> br.reqs[v].pc = "attempt")
  BY DEF BreakerInv, BreakerTypeOK, ReqType
<1>2. /\ BreakerTypeOK' /\ br'.healthy = 0 /\ ~br'.up /\ br'.left = br.left
      /\ \A v \in BrSlots : br'.reqs[v] = [br.reqs[v] EXCEPT !.doomed = (br.reqs[v].pc = "attempt")]
  BY <1>1 DEF R2Degrades, BreakerInv, BreakerTypeOK
<1>3. CooldownInv'
  BY <1>2, BreakerConstants DEF BreakerInv, BreakerTypeOK, CooldownInv, HealTime
<1>4. AttemptInv'
  <2> SUFFICES ASSUME NEW v \in BrSlots
               PROVE  /\ br'.reqs[v].doomed => /\ br'.reqs[v].pc = "attempt" /\ 0 <= br'.reqs[v].age
                                               /\ br'.reqs[v].age <= BrTimeout
                      /\ br'.reqs[v].pc = "attempt" /\ ~br'.reqs[v].doomed => br'.reqs[v].age <= 1
    BY <1>2 DEF AttemptInv
  <2>1. br.reqs[v] \in ReqType /\ br.reqs[v].age \in Nat
    BY DEF BreakerInv, BreakerTypeOK, ReqType
  <2>2. br.reqs[v].pc = "attempt" => br.reqs[v].age <= BrTimeout
    BY <2>1, BreakerConstants DEF BreakerInv, AttemptInv
  <2>3. /\ br'.reqs[v].pc = br.reqs[v].pc /\ br'.reqs[v].age = br.reqs[v].age
        /\ br'.reqs[v].doomed <=> br.reqs[v].pc = "attempt"
    BY <1>1, <1>2
  <2> QED BY <2>1, <2>2, <2>3
<1> QED BY <1>2, <1>3, <1>4 DEF BreakerInv

LEMMA R2RecoversInv == ASSUME BreakerInv, R2Recovers PROVE BreakerInv'
<1>1. /\ BreakerTypeOK' /\ br'.healthy = br.healthy /\ br'.up /\ br'.left = br.left /\ br'.reqs = br.reqs
  BY DEF R2Recovers, BreakerInv, BreakerTypeOK
<1> QED BY <1>1 DEF BreakerInv, AttemptInv, CooldownInv

(* Time passes for the cool-down, the healthy time and the attempts alike. *)
LEMMA BreakerTickInv == ASSUME BreakerInv, BreakerTick PROVE BreakerInv'
<1> DEFINE left == IF br.left > 0 THEN br.left - 1 ELSE br.left
           healthy == IF br.up /\ br.healthy < HealTime THEN br.healthy + 1 ELSE br.healthy
           reqs == [w \in BrSlots |->
                       IF br.reqs[w].pc = "attempt" THEN [br.reqs[w] EXCEPT !.age = @ + 1] ELSE br.reqs[w]]
<1>1. left \in Nat /\ healthy \in Nat /\ br.left \in Nat /\ br.healthy \in Nat
  BY BreakerConstants DEF BreakerInv, BreakerTypeOK
<1>2. /\ reqs \in [BrSlots -> ReqType]
      /\ \A v \in BrSlots :
            /\ reqs[v].pc = br.reqs[v].pc /\ reqs[v].doomed = br.reqs[v].doomed
            /\ reqs[v].age = IF br.reqs[v].pc = "attempt" THEN br.reqs[v].age + 1 ELSE br.reqs[v].age
            /\ br.reqs[v].age \in Nat
  BY DEF BreakerInv, BreakerTypeOK, ReqType
<1>3. br' = [br EXCEPT !.left = left, !.healthy = healthy, !.reqs = reqs]
  BY DEF BreakerTick
<1>4. /\ br.left > 0 => left + 1 = br.left
      /\ br.left = 0 => left = 0
      /\ healthy <= br.healthy + 1 /\ (~br.up => healthy = br.healthy)
  BY <1>1
<1> HIDE DEF left, healthy, reqs
<1>5. BreakerTypeOK' /\ br'.left = left /\ br'.healthy = healthy /\ br'.reqs = reqs /\ br'.up = br.up
  BY <1>1, <1>2, <1>3 DEF BreakerInv, BreakerTypeOK
<1>6. CooldownInv'
  BY <1>1, <1>4, <1>5, BreakerConstants DEF BreakerInv, CooldownInv
<1>7. AttemptInv'
  <2> SUFFICES ASSUME NEW v \in BrSlots
               PROVE  /\ reqs[v].doomed => /\ reqs[v].pc = "attempt" /\ healthy <= reqs[v].age
                                           /\ reqs[v].age <= BrTimeout
                      /\ reqs[v].pc = "attempt" /\ ~reqs[v].doomed => reqs[v].age <= 1
    BY <1>5 DEF AttemptInv
  <2>1. br.reqs[v].pc = "attempt" => br.reqs[v].age < IF br.reqs[v].doomed THEN BrTimeout ELSE 1
    BY DEF BreakerTick
  <2>2. br.reqs[v].doomed => br.reqs[v].pc = "attempt" /\ br.healthy <= br.reqs[v].age
    BY DEF BreakerInv, AttemptInv
  <2> QED BY <1>1, <1>2, <1>4, <2>1, <2>2, BreakerConstants
<1> QED BY <1>5, <1>6, <1>7 DEF BreakerInv

(* BreakerInv is an invariant of the breaker and its requests.             *)
THEOREM BreakerInvariant == BreakerSpec => []BreakerInv
<1>1. BreakerInv /\ [BreakerNext]_br => BreakerInv'
  <2> SUFFICES ASSUME BreakerInv, [BreakerNext]_br PROVE BreakerInv'
    OBVIOUS
  <2>1. CASE UNCHANGED br
    BY <2>1 DEF BreakerInv, BreakerTypeOK, AttemptInv, CooldownInv
  <2>2. CASE BreakerNext
    BY <2>2, BeginRequestInv, AttemptAnswersInv, AttemptFailsInv, BreakerCrashInv, R2DegradesInv,
       R2RecoversInv, BreakerTickInv DEF BreakerNext
  <2> QED BY <2>1, <2>2
<1> QED BY BreakerInitInv, <1>1, PTL DEF BreakerSpec

(* Once R2 has answered for a time-out and a cool-down the breaker is      *)
(* closed, for any number of requests in flight, attempts, trip count,     *)
(* time-out and cool-down (BreakerHeals).                                  *)
THEOREM BreakerAlwaysHeals == BreakerSpec => []BreakerHeals
<1>1. BreakerInv => BreakerHeals
  BY BreakerConstants DEF BreakerInv, BreakerTypeOK, CooldownInv, BreakerHeals, BreakerOpen
<1> QED BY <1>1, BreakerInvariant, PTL

-----------------------------------------------------------------------------
(* Sandbox, with one request at a time (a running cell's, under the eval   *)
(* mutex) and commands that do not throw.                                  *)

SbReqType == [pc : {"idle", "check", "clear", "mount", "op"}, op : SbOps \cup {"none"},
              file : SbFiles \cup {"none"}, body : Nat, bare : BOOLEAN]
HeldType == [body : Int, dirty : BOOLEAN]

SandboxTypeOK ==
    sb \in [r2 : [SbFiles -> Int], disk : [SbFiles -> Int], mounts : Nat, cache : [SbFiles -> HeldType],
            reqs : [SbRequesters -> SbReqType], made : Nat, want : [SbFiles -> Int],
            adrift : SUBSET SbFiles, wiped : SUBSET SbFiles, misread : BOOLEAN]

(* Between the check and the mount nothing is mounted, so the clear meets  *)
(* only the image's files; an operation on files runs on the mount, unless *)
(* its request's mount was ignored.                                        *)
MountInv ==
    \A w \in SbRequesters :
        LET q == sb.reqs[w] IN
        /\ q.pc \in {"clear", "mount"} => sb.mounts = 0
        /\ q.pc = "op" /\ q.op \notin {"unmount", "expose"} => sb.mounts > 0 \/ q.bare
        /\ q.pc \in {"check", "clear", "mount"} => q.op \notin {"unmount", "expose"}
        /\ q.pc # "idle" => q.file \in SbFiles

(* What s3fs has to upload is not in R2 yet.                               *)
KeptInv == \A f \in SbFiles : sb.cache[f].dirty => f \in sb.adrift

SbSafe == SameBytes /\ ClearTouchesOnlySeed

SandboxInv == SandboxTypeOK /\ MountInv /\ KeptInv /\ SbSafe

LEMMA QuietType == Quiet \in SbReqType
BY DEF Quiet, SbReqType

LEMMA NotHeldType == /\ NotHeld \in HeldType /\ ~NotHeld.dirty
                     /\ NoCache \in [SbFiles -> HeldType] /\ \A f \in SbFiles : ~NoCache[f].dirty
BY DEF NotHeld, Held, HeldType, NoCache

LEMMA SandboxInitInv == SandboxInit => SandboxInv
BY QuietType, NotHeldType
DEF SandboxInit, SandboxInv, SandboxTypeOK, MountInv, KeptInv, SbSafe, SameBytes, ClearTouchesOnlySeed,
    NoFiles, SeedFiles, Quiet

(* The one requester's state says all there is to say of the mount.        *)
LEMMA OneRequester ==
    ASSUME \A v, w \in SbRequesters : v = w, NEW w \in SbRequesters, SandboxTypeOK,
           NEW q \in SbReqType, sb'.reqs = [sb.reqs EXCEPT ![w] = q],
           q.pc \in {"clear", "mount"} => sb'.mounts = 0,
           q.pc = "op" /\ q.op \notin {"unmount", "expose"} => sb'.mounts > 0 \/ q.bare,
           q.pc \in {"check", "clear", "mount"} => q.op \notin {"unmount", "expose"},
           q.pc # "idle" => q.file \in SbFiles
    PROVE  MountInv' /\ sb'.reqs \in [SbRequesters -> SbReqType]
<1>1. \A v \in SbRequesters : sb'.reqs[v] = q
  BY DEF SandboxTypeOK
<1> QED BY <1>1 DEF MountInv, SandboxTypeOK

(* A step that moves requests and the mount, and touches no file.          *)
LEMMA FilesKept ==
    ASSUME SandboxInv, NEW reqs \in [SbRequesters -> SbReqType], NEW mounts \in Nat,
           NEW cache \in {sb.cache, NoCache}, NEW made \in Nat, NEW disk \in [SbFiles -> Int],
           sb' = [sb EXCEPT !.reqs = reqs, !.mounts = mounts, !.cache = cache, !.made = made, !.disk = disk],
           MountInv'
    PROVE  SandboxInv'
<1>1. /\ sb'.r2 = sb.r2 /\ sb'.want = sb.want /\ sb'.adrift = sb.adrift /\ sb'.wiped = sb.wiped
      /\ sb'.misread = sb.misread /\ sb'.cache = cache
  BY DEF SandboxInv, SandboxTypeOK
<1>2. cache \in [SbFiles -> HeldType] /\ \A f \in SbFiles : cache[f].dirty => f \in sb.adrift
  BY NotHeldType DEF SandboxInv, SandboxTypeOK, KeptInv
<1>3. SandboxTypeOK'
  BY <1>2 DEF SandboxInv, SandboxTypeOK
<1>4. KeptInv' /\ SbSafe'
  BY <1>1, <1>2 DEF SandboxInv, KeptInv, SbSafe, SameBytes, ClearTouchesOnlySeed
<1> QED BY <1>3, <1>4 DEF SandboxInv

(* A step with which the body of a file, from either side, is known to be  *)
(* in R2 or to be adrift.                                                  *)
LEMMA FileWritten ==
    ASSUME SandboxInv, NEW f \in SbFiles, NEW reqs \in [SbRequesters -> SbReqType], NEW made \in Nat,
           NEW disk \in [SbFiles -> Int], NEW r2 \in Int, NEW want \in Int, NEW held \in HeldType,
           NEW adrift \in {sb.adrift, sb.adrift \cup {f}, sb.adrift \ {f}},
           sb' = [sb EXCEPT !.reqs = reqs, !.made = made, !.disk = disk, !.r2 = [sb.r2 EXCEPT ![f] = r2],
                            !.want = [sb.want EXCEPT ![f] = want],
                            !.cache = [sb.cache EXCEPT ![f] = held], !.adrift = adrift],
           f \notin adrift => r2 = want /\ ~held.dirty,
           MountInv'
    PROVE  SandboxInv'
<1>1. /\ sb'.r2 = [sb.r2 EXCEPT ![f] = r2] /\ sb'.want = [sb.want EXCEPT ![f] = want]
      /\ sb'.adrift = adrift /\ sb'.wiped = sb.wiped
      /\ sb'.misread = sb.misread /\ sb'.cache = [sb.cache EXCEPT ![f] = held]
  BY DEF SandboxInv, SandboxTypeOK
<1>2. /\ [sb.r2 EXCEPT ![f] = r2] \in [SbFiles -> Int] /\ [sb.want EXCEPT ![f] = want] \in [SbFiles -> Int]
      /\ [sb.cache EXCEPT ![f] = held] \in [SbFiles -> HeldType] /\ adrift \in SUBSET SbFiles
  BY DEF SandboxInv, SandboxTypeOK
<1>3. SandboxTypeOK'
  BY <1>2 DEF SandboxInv, SandboxTypeOK
<1>4. /\ \A g \in SbFiles : g # f => /\ sb'.r2[g] = sb.r2[g] /\ sb'.want[g] = sb.want[g]
                                     /\ sb'.cache[g] = sb.cache[g] /\ (g \in adrift <=> g \in sb.adrift)
      /\ sb'.r2[f] = r2 /\ sb'.want[f] = want /\ sb'.cache[f] = held
  BY <1>1 DEF SandboxInv, SandboxTypeOK
<1>5. KeptInv'
  BY <1>1, <1>4 DEF SandboxInv, KeptInv
<1>6. SbSafe'
  BY <1>1, <1>4 DEF SandboxInv, SbSafe, SameBytes, ClearTouchesOnlySeed
<1> QED BY <1>3, <1>5, <1>6 DEF SandboxInv

LEMMA SandboxStep ==
    ASSUME "exec" \notin SbFaults, \A v, w \in SbRequesters : v = w, SandboxInv, SandboxNext
    PROVE  SandboxInv'
<1>0. /\ sb.reqs \in [SbRequesters -> SbReqType] /\ sb.mounts \in Nat /\ sb.made \in Nat
      /\ sb.disk \in [SbFiles -> Int] /\ sb.cache \in [SbFiles -> HeldType]
      /\ sb.r2 \in [SbFiles -> Int] /\ sb.want \in [SbFiles -> Int]
  BY DEF SandboxInv, SandboxTypeOK
<1>1. ASSUME NEW w \in SbRequesters, NEW op \in SbOps, NEW f \in SbFiles, SbRequest(w, op, f)
      PROVE  SandboxInv'
  <2> DEFINE q == [pc |-> IF op \in {"unmount", "expose"} THEN "op" ELSE "check",
                   op |-> op, file |-> f, body |-> IF op = "write" THEN sb.made + 1 ELSE 0, bare |-> FALSE]
             reqs == [sb.reqs EXCEPT ![w] = q]
  <2>1. q \in SbReqType /\ sb.made + 1 \in Nat
    BY <1>0 DEF SbReqType
  <2>2. sb' = [sb EXCEPT !.reqs = reqs, !.mounts = sb.mounts, !.cache = sb.cache, !.made = sb.made + 1,
                         !.disk = sb.disk]
    BY <1>1 DEF SbRequest, SandboxInv, SandboxTypeOK
  <2>3. sb'.reqs = reqs
    BY <2>2 DEF SandboxInv, SandboxTypeOK
  <2>4. MountInv' /\ reqs \in [SbRequesters -> SbReqType]
    BY <2>1, <2>3, OneRequester DEF SandboxInv
  <2> HIDE DEF reqs
  <2> QED BY <1>0, <2>1, <2>2, <2>4, FilesKept
<1>2. ASSUME NEW w \in SbRequesters, NEW throws \in BOOLEAN, CheckMount(w, throws)
      PROVE  SandboxInv'
  <2> DEFINE q == [sb.reqs[w] EXCEPT !.pc = IF sb.mounts > 0 /\ ~throws THEN "op" ELSE "clear"]
             reqs == [sb.reqs EXCEPT ![w] = q]
  <2>1. ~throws /\ sb.reqs[w].pc = "check" /\ sb.reqs[w] \in SbReqType
    BY <1>2 DEF CheckMount, SandboxInv, SandboxTypeOK
  <2>2. /\ q \in SbReqType /\ q.op = sb.reqs[w].op /\ q.file = sb.reqs[w].file
        /\ q.pc = IF sb.mounts > 0 THEN "op" ELSE "clear"
    BY <2>1 DEF SbReqType
  <2>3. sb' = [sb EXCEPT !.reqs = reqs, !.mounts = sb.mounts, !.cache = sb.cache, !.made = sb.made,
                         !.disk = sb.disk]
    BY <1>2, <2>1 DEF CheckMount, SandboxInv, SandboxTypeOK
  <2>4. sb.reqs[w].op \notin {"unmount", "expose"} /\ sb.reqs[w].file \in SbFiles
    BY <2>1 DEF SandboxInv, MountInv
  <2> HIDE DEF q
  <2>5. sb'.mounts = sb.mounts /\ sb'.reqs = reqs
    BY <2>3 DEF SandboxInv, SandboxTypeOK
  <2>6. MountInv' /\ reqs \in [SbRequesters -> SbReqType]
    BY <1>0, <2>2, <2>4, <2>5, OneRequester DEF SandboxInv
  <2> HIDE DEF reqs
  <2> QED BY <1>0, <2>3, <2>6, FilesKept
<1>3. ASSUME NEW w \in SbRequesters, NEW throws \in BOOLEAN, ClearSeed(w, throws)
      PROVE  SandboxInv'
  <2> DEFINE q == [sb.reqs[w] EXCEPT !.pc = "mount"]
             reqs == [sb.reqs EXCEPT ![w] = q]
  <2>1. /\ ~throws /\ sb.reqs[w].pc = "clear" /\ sb.reqs[w] \in SbReqType /\ sb.mounts = 0
        /\ sb.reqs[w].op \notin {"unmount", "expose"} /\ sb.reqs[w].file \in SbFiles
    BY <1>3 DEF ClearSeed, SandboxInv, SandboxTypeOK, MountInv
  <2>2. q \in SbReqType /\ q.op = sb.reqs[w].op /\ q.file = sb.reqs[w].file /\ q.pc = "mount"
    BY <2>1 DEF SbReqType
  <2>3. sb' = [sb EXCEPT !.reqs = reqs, !.mounts = sb.mounts, !.cache = sb.cache, !.made = sb.made,
                         !.disk = NoFiles]
    <3>1. ~(sb.mounts > 0)
      BY <2>1
    <3>2. sb' = [sb EXCEPT !.reqs = reqs, !.disk = NoFiles]
      BY <1>3, <2>1, <3>1 DEF ClearSeed, SandboxInv, SandboxTypeOK
    <3> HIDE DEF reqs
    <3> QED BY <3>2 DEF SandboxInv, SandboxTypeOK
  <2> HIDE DEF q
  <2>4. sb'.mounts = 0 /\ sb'.reqs = reqs
    BY <2>1, <2>3 DEF SandboxInv, SandboxTypeOK
  <2>5. MountInv' /\ reqs \in [SbRequesters -> SbReqType]
    BY <2>1, <2>2, <2>4, OneRequester DEF SandboxInv
  <2>6. NoFiles \in [SbFiles -> Int]
    BY DEF NoFiles
  <2> HIDE DEF reqs
  <2> QED BY <1>0, <2>3, <2>5, <2>6, FilesKept
<1>4. ASSUME NEW w \in SbRequesters, MountBucket(w) PROVE SandboxInv'
  <2> DEFINE q == [sb.reqs[w] EXCEPT !.pc = "op"]
             reqs == [sb.reqs EXCEPT ![w] = q]
  <2>1. /\ sb.reqs[w].pc = "mount" /\ sb.reqs[w] \in SbReqType /\ sb.mounts + 1 \in Nat /\ sb.mounts + 1 > 0
        /\ sb.reqs[w].op \notin {"unmount", "expose"} /\ sb.reqs[w].file \in SbFiles
    BY <1>4 DEF MountBucket, SandboxInv, SandboxTypeOK, MountInv
  <2>2. q \in SbReqType /\ q.op = sb.reqs[w].op /\ q.file = sb.reqs[w].file /\ q.pc = "op"
    BY <2>1 DEF SbReqType
  <2>3. sb' = [sb EXCEPT !.reqs = reqs, !.mounts = sb.mounts + 1, !.cache = NoCache, !.made = sb.made,
                         !.disk = sb.disk]
    BY <1>4 DEF MountBucket, SandboxInv, SandboxTypeOK
  <2> HIDE DEF q
  <2>4. sb'.mounts = sb.mounts + 1 /\ sb'.reqs = reqs
    BY <2>1, <2>3 DEF SandboxInv, SandboxTypeOK
  <2>5. MountInv' /\ reqs \in [SbRequesters -> SbReqType]
    BY <2>1, <2>2, <2>4, OneRequester DEF SandboxInv
  <2> HIDE DEF reqs
  <2> QED BY <1>0, <2>1, <2>3, <2>5, FilesKept
<1>5. ASSUME NEW w \in SbRequesters, MountSwallowed(w) PROVE SandboxInv'
  <2> DEFINE q == [[sb.reqs[w] EXCEPT !.pc = "op"] EXCEPT !.bare = TRUE]
             reqs == [sb.reqs EXCEPT ![w] = q]
  <2>1. /\ sb.reqs[w].pc = "mount" /\ sb.reqs[w] \in SbReqType
        /\ sb.reqs[w].op \notin {"unmount", "expose"} /\ sb.reqs[w].file \in SbFiles
    BY <1>5 DEF MountSwallowed, SandboxInv, SandboxTypeOK, MountInv
  <2>2. q \in SbReqType /\ q.file = sb.reqs[w].file /\ q.pc = "op" /\ q.bare
    BY <2>1 DEF SbReqType
  <2>3. sb' = [sb EXCEPT !.reqs = reqs, !.mounts = sb.mounts, !.cache = sb.cache, !.made = sb.made,
                         !.disk = sb.disk]
    BY <1>5, <2>1 DEF MountSwallowed, SandboxInv, SandboxTypeOK, SbReqType
  <2> HIDE DEF q
  <2>4. sb'.reqs = reqs
    BY <2>3 DEF SandboxInv, SandboxTypeOK
  <2>5. MountInv' /\ reqs \in [SbRequesters -> SbReqType]
    BY <2>1, <2>2, <2>4, OneRequester DEF SandboxInv
  <2> HIDE DEF reqs
  <2> QED BY <1>0, <2>3, <2>5, FilesKept
<1>6. ASSUME NEW w \in SbRequesters, sb'.reqs = [sb.reqs EXCEPT ![w] = Quiet]
      PROVE  MountInv' /\ [sb.reqs EXCEPT ![w] = Quiet] \in [SbRequesters -> SbReqType]
  BY <1>6, QuietType, OneRequester DEF SandboxInv, Quiet
<1>7. ASSUME NEW w \in SbRequesters, MountFails(w) PROVE SandboxInv'
  <2> DEFINE reqs == [sb.reqs EXCEPT ![w] = Quiet]
  <2>1. sb' = [sb EXCEPT !.reqs = reqs, !.mounts = sb.mounts, !.cache = sb.cache, !.made = sb.made,
                         !.disk = sb.disk]
    BY <1>7 DEF MountFails, SandboxInv, SandboxTypeOK
  <2>2. sb'.reqs = reqs
    BY <2>1 DEF SandboxInv, SandboxTypeOK
  <2>3. MountInv' /\ reqs \in [SbRequesters -> SbReqType]
    BY <1>6, <2>2
  <2> HIDE DEF reqs
  <2> QED BY <1>0, <2>1, <2>3, FilesKept
<1>8. ASSUME NEW w \in SbRequesters, NEW keeps \in BOOLEAN, WriteOrDelete(w, keeps) PROVE SandboxInv'
  <2> DEFINE reqs == [sb.reqs EXCEPT ![w] = Quiet]
             f == sb.reqs[w].file
             body == sb.reqs[w].body
  <2>1. f \in SbFiles /\ body \in Nat /\ sb.mounts \in Nat /\ (sb.mounts > 0 \/ sb.reqs[w].bare)
    BY <1>8 DEF WriteOrDelete, SandboxInv, MountInv, SandboxTypeOK, SbReqType
  <2>2. PICK disk \in [SbFiles -> Int], r2 \in Int, held \in HeldType,
             adrift \in {sb.adrift, sb.adrift \cup {f}, sb.adrift \ {f}} :
             /\ f \notin adrift => r2 = body /\ ~held.dirty
             /\ sb' = [sb EXCEPT !.reqs = reqs, !.made = sb.made, !.disk = disk,
                                 !.r2 = [sb.r2 EXCEPT ![f] = r2], !.want = [sb.want EXCEPT ![f] = body],
                                 !.cache = [sb.cache EXCEPT ![f] = held], !.adrift = adrift]
    <3>1. CASE sb.mounts = 0
      <4>1. sb.reqs[w].bare
        BY <2>1, <3>1
      <4>2. sb' = [sb EXCEPT !.reqs = reqs, !.made = sb.made, !.disk = [sb.disk EXCEPT ![f] = body],
                             !.r2 = [sb.r2 EXCEPT ![f] = sb.r2[f]], !.want = [sb.want EXCEPT ![f] = body],
                             !.cache = [sb.cache EXCEPT ![f] = sb.cache[f]], !.adrift = sb.adrift \cup {f}]
        BY <1>8, <3>1, <4>1 DEF WriteOrDelete, SandboxInv, SandboxTypeOK
      <4>3. [sb.disk EXCEPT ![f] = body] \in [SbFiles -> Int] /\ sb.r2[f] \in Int /\ sb.cache[f] \in HeldType
        BY <1>0, <2>1
      <4> HIDE DEF reqs, f, body
      <4> QED BY <4>2, <4>3
    <3>2. CASE sb.mounts # 0 /\ keeps
      <4>1. sb' = [sb EXCEPT !.reqs = reqs, !.made = sb.made, !.disk = sb.disk,
                             !.r2 = [sb.r2 EXCEPT ![f] = sb.r2[f]], !.want = [sb.want EXCEPT ![f] = body],
                             !.cache = [sb.cache EXCEPT ![f] = Held(body, TRUE)], !.adrift = sb.adrift \cup {f}]
        BY <1>8, <3>2 DEF WriteOrDelete, SandboxInv, SandboxTypeOK
      <4>2. sb.r2[f] \in Int /\ Held(body, TRUE) \in HeldType
        BY <1>0, <2>1 DEF Held, HeldType
      <4> HIDE DEF reqs, f, body
      <4> QED BY <1>0, <4>1, <4>2
    <3>3. CASE sb.mounts # 0 /\ ~keeps
      <4>1. sb' = [sb EXCEPT !.reqs = reqs, !.made = sb.made, !.disk = sb.disk,
                             !.r2 = [sb.r2 EXCEPT ![f] = body], !.want = [sb.want EXCEPT ![f] = body],
                             !.cache = [sb.cache EXCEPT ![f] = NotHeld], !.adrift = sb.adrift \ {f}]
        BY <1>8, <3>3 DEF WriteOrDelete, SandboxInv, SandboxTypeOK
      <4>2. body \in Int
        BY <2>1
      <4> HIDE DEF reqs, f, body
      <4> QED BY <1>0, <4>1, <4>2, NotHeldType
    <3> QED BY <3>1, <3>2, <3>3
  <2>3. sb'.reqs = reqs
    BY <2>2 DEF SandboxInv, SandboxTypeOK
  <2>4. MountInv' /\ reqs \in [SbRequesters -> SbReqType] /\ body \in Int
    BY <1>6, <2>1, <2>3
  <2> HIDE DEF reqs, f, body
  <2> QED BY <1>0, <2>1, <2>2, <2>4, FileWritten
<1>9. ASSUME NEW f \in SbFiles, Uploads(f) PROVE SandboxInv'
  <2> DEFINE held == sb.cache[f]
  <2>1. held \in HeldType /\ held.body \in Int
    BY <1>0 DEF HeldType
  <2>2. PICK r2 \in Int, adrift \in {sb.adrift, sb.adrift \cup {f}, sb.adrift \ {f}} :
             /\ f \notin adrift => r2 = sb.want[f]
             /\ sb' = [sb EXCEPT !.reqs = sb.reqs, !.made = sb.made, !.disk = sb.disk,
                                 !.r2 = [sb.r2 EXCEPT ![f] = r2], !.want = [sb.want EXCEPT ![f] = sb.want[f]],
                                 !.cache = [sb.cache EXCEPT ![f] = NotHeld], !.adrift = adrift]
    <3>1. CASE held.dirty
      <4> DEFINE adrift == IF held.body = sb.want[f] THEN sb.adrift \ {f} ELSE sb.adrift
      <4>1. sb' = [sb EXCEPT !.reqs = sb.reqs, !.made = sb.made, !.disk = sb.disk,
                             !.r2 = [sb.r2 EXCEPT ![f] = held.body],
                             !.want = [sb.want EXCEPT ![f] = sb.want[f]],
                             !.cache = [sb.cache EXCEPT ![f] = NotHeld], !.adrift = adrift]
        BY <1>9, <3>1 DEF Uploads, SandboxInv, SandboxTypeOK
      <4>2. f \notin adrift => held.body = sb.want[f]
        BY <3>1 DEF SandboxInv, KeptInv
      <4>3. adrift \in {sb.adrift, sb.adrift \cup {f}, sb.adrift \ {f}}
        OBVIOUS
      <4> HIDE DEF held, adrift
      <4> QED BY <2>1, <4>1, <4>2, <4>3
    <3>2. CASE ~held.dirty
      <4>1. sb' = [sb EXCEPT !.reqs = sb.reqs, !.made = sb.made, !.disk = sb.disk,
                             !.r2 = [sb.r2 EXCEPT ![f] = sb.r2[f]],
                             !.want = [sb.want EXCEPT ![f] = sb.want[f]],
                             !.cache = [sb.cache EXCEPT ![f] = NotHeld], !.adrift = sb.adrift]
        BY <1>9, <3>2 DEF Uploads, SandboxInv, SandboxTypeOK
      <4>2. sb.r2[f] \in Int /\ (f \notin sb.adrift => sb.r2[f] = sb.want[f])
        BY <1>0 DEF SandboxInv, SbSafe, SameBytes
      <4> QED BY <4>1, <4>2
    <3> QED BY <3>1, <3>2
  <2>3. MountInv'
    BY <2>2 DEF SandboxInv, SandboxTypeOK, MountInv
  <2>4. sb.want[f] \in Int
    BY <1>0
  <2> QED BY <1>0, <2>2, <2>3, <2>4, NotHeldType, FileWritten
<1>10. ASSUME NEW w \in SbRequesters, ReadBack(w) PROVE SandboxInv'
  <2> DEFINE q == sb.reqs[w]
             reqs == [sb.reqs EXCEPT ![w] = Quiet]
  <2>1. /\ (sb.mounts > 0 \/ q.bare) /\ sb.mounts \in Nat
        /\ q.file \in SbFiles /\ sb.misread = FALSE
        /\ q.file \in sb.adrift \/ sb.r2[q.file] = sb.want[q.file]
    BY <1>0, <1>10 DEF ReadBack, SandboxInv, SandboxTypeOK, MountInv, SbSafe, SameBytes
  <2>2. Seen(q.file) = sb.want[q.file] \/ Excused(q)
    BY <2>1 DEF Seen, Excused
  <2>3. sb' = [sb EXCEPT !.misread = FALSE, !.reqs = reqs]
    BY <1>10, <2>1, <2>2 DEF ReadBack, SandboxInv, SandboxTypeOK
  <2>4. sb' = [sb EXCEPT !.reqs = reqs, !.mounts = sb.mounts, !.cache = sb.cache, !.made = sb.made,
                         !.disk = sb.disk]
    BY <2>1, <2>3 DEF SandboxInv, SandboxTypeOK
  <2>5. sb'.reqs = reqs
    BY <2>4 DEF SandboxInv, SandboxTypeOK
  <2>6. MountInv' /\ reqs \in [SbRequesters -> SbReqType]
    BY <1>6, <2>5
  <2> HIDE DEF reqs
  <2> QED BY <1>0, <2>4, <2>6, FilesKept
<1>11. ASSUME NEW w \in SbRequesters, OtherOp(w) PROVE SandboxInv'
  <2> DEFINE reqs == [sb.reqs EXCEPT ![w] = Quiet]
             unmounts == sb.reqs[w].op = "unmount" /\ sb.mounts > 0
             mounts == IF unmounts THEN sb.mounts - 1 ELSE sb.mounts
             cache == IF unmounts THEN NoCache ELSE sb.cache
  <2>1. mounts \in Nat /\ cache \in {sb.cache, NoCache}
    BY <1>0
  <2>2. sb' = [sb EXCEPT !.reqs = reqs, !.mounts = mounts, !.cache = cache, !.made = sb.made,
                         !.disk = sb.disk]
    BY <1>11 DEF OtherOp, SandboxInv, SandboxTypeOK
  <2> HIDE DEF mounts, cache
  <2>3. sb'.reqs = reqs
    BY <2>2 DEF SandboxInv, SandboxTypeOK
  <2>4. MountInv' /\ reqs \in [SbRequesters -> SbReqType]
    BY <1>6, <2>3
  <2> HIDE DEF reqs
  <2> QED BY <1>0, <2>1, <2>2, <2>4, FilesKept
<1>12. CASE ContainerGone
  <2> DEFINE reqs == [w \in SbRequesters |-> Quiet]
  <2>1. SeedFiles \in [SbFiles -> Int] /\ reqs \in [SbRequesters -> SbReqType]
    BY QuietType DEF SeedFiles
  <2>2. sb' = [sb EXCEPT !.reqs = reqs, !.mounts = 0, !.cache = NoCache, !.made = sb.made, !.disk = SeedFiles]
    BY <1>12 DEF ContainerGone, SandboxInv, SandboxTypeOK
  <2>3. \A w \in SbRequesters : sb'.reqs[w] = Quiet
    BY <2>2 DEF SandboxInv, SandboxTypeOK
  <2>4. MountInv'
    BY <2>3 DEF MountInv, Quiet
  <2> HIDE DEF reqs
  <2> QED BY <1>0, <2>1, <2>2, <2>4, FilesKept
<1>13. ASSUME NEW f \in SbFiles, NEW deletes \in BOOLEAN, NEW holds \in BOOLEAN,
              KernelWrites(f, deletes, holds)
       PROVE  SandboxInv'
  <2> DEFINE body == IF deletes THEN 0 ELSE sb.made + 1
             isHeld == sb.cache[f] # NotHeld
             held == IF holds THEN Held(sb.r2[f], FALSE) ELSE sb.cache[f]
             adrift == IF isHeld THEN sb.adrift ELSE sb.adrift \ {f}
  <2>1. body \in Int /\ sb.made + 1 \in Nat
    BY <1>0
  <2>2. held \in HeldType /\ ~Held(sb.r2[f], FALSE).dirty
    BY <1>0 DEF Held, HeldType
  <2>3. /\ f \notin adrift => ~held.dirty
        /\ adrift \in {sb.adrift, sb.adrift \cup {f}, sb.adrift \ {f}}
    <3>1. ~isHeld => ~sb.cache[f].dirty
      BY NotHeldType
    <3>2. f \notin sb.adrift => ~sb.cache[f].dirty
      BY DEF SandboxInv, KeptInv
    <3> QED BY <2>2, <3>1, <3>2
  <2>4. f \notin adrift => body = body /\ ~held.dirty
    BY <2>3
  <2>5. sb' = [sb EXCEPT !.reqs = sb.reqs, !.made = sb.made + 1, !.disk = sb.disk,
                         !.r2 = [sb.r2 EXCEPT ![f] = body], !.want = [sb.want EXCEPT ![f] = body],
                         !.cache = [sb.cache EXCEPT ![f] = held], !.adrift = adrift]
    BY <1>13 DEF KernelWrites, SandboxInv, SandboxTypeOK
  <2> HIDE DEF body, held, adrift
  <2>6. MountInv'
    BY <2>5 DEF SandboxInv, SandboxTypeOK, MountInv
  <2> QED BY <1>0, <2>1, <2>2, <2>3, <2>5, <2>6, <2>4, FileWritten
<1> QED
  BY <1>1, <1>2, <1>3, <1>4, <1>5, <1>7, <1>8, <1>9, <1>10, <1>11, <1>12, <1>13 DEF SandboxNext

(* With one request at a time the kernel's files and the container's are   *)
(* the same bytes, across sleeps, unmounts, remounts, failed mounts,       *)
(* mounts whose failure was ignored and an s3fs that keeps writes and      *)
(* bodies to itself, but for the files these two have let down             *)
(* (SameBytes), and clearing the seed removes nothing from R2.             *)
THEOREM SandboxSameBytes ==
    ASSUME "exec" \notin SbFaults, \A v, w \in SbRequesters : v = w
    PROVE  SandboxSpec => [](SameBytes /\ ClearTouchesOnlySeed)
<1>1. SandboxInv /\ [SandboxNext]_sb => SandboxInv'
  <2>1. SandboxInv /\ UNCHANGED sb => SandboxInv'
    BY DEF SandboxInv, SandboxTypeOK, MountInv, KeptInv, SbSafe, SameBytes, ClearTouchesOnlySeed
  <2> QED BY <2>1, SandboxStep
<1>2. SandboxInv => SameBytes /\ ClearTouchesOnlySeed
  BY DEF SandboxInv, SbSafe
<1> QED BY <1>1, <1>2, SandboxInitInv, PTL DEF SandboxSpec

-----------------------------------------------------------------------------
(* Egress.                                                                 *)

SentType == [host : EgressHosts, method : {"GET", "POST"}, body : BOOLEAN]

EgressShape ==
    /\ egress = [pc |-> egress.pc, address |-> egress.address, kind |-> egress.kind, hop |-> egress.hop,
                 method |-> egress.method, body |-> egress.body, allow |-> egress.allow, sent |-> egress.sent]
    /\ egress.sent \in Seq(SentType) /\ egress.hop \in 0..MaxRedirectHops

(* The hop counter counts the requests that left.                          *)
HopInv ==
    /\ egress.pc = "idle" => egress.sent = <<>> /\ egress.hop = 0
    /\ egress.pc = "sent" => Len(egress.sent) = egress.hop + 1

EgressInv == EgressShape /\ HopInv /\ RequestsStayInPolicy

LEMMA EgressInitInv == ASSUME NEW a \in Addresses, EgressInit(a) PROVE EgressInv
<1>1. /\ egress.sent = <<>> /\ egress.hop = 0 /\ egress.pc # "sent"
      /\ egress = [pc |-> egress.pc, address |-> egress.address, kind |-> egress.kind, hop |-> egress.hop,
                   method |-> egress.method, body |-> egress.body, allow |-> egress.allow, sent |-> egress.sent]
  BY DEF EgressInit
<1>2. <<>> \in Seq(SentType) /\ Len(<<>>) = 0 /\ DOMAIN <<>> = {}
  OBVIOUS
<1> QED BY <1>1, <1>2, EgressAssumption DEF EgressInv, EgressShape, HopInv, RequestsStayInPolicy

(* The first request goes to a host that is neither blocked nor excluded.  *)
LEMMA FetchPrepInv ==
    ASSUME EgressInv, NEW kind \in {"fetch", "ws"}, NEW allow \in EgressAllow, NEW h \in EgressHosts,
           NEW method \in {"GET", "POST"}, NEW body \in BOOLEAN, FetchPrep(kind, allow, h, method, body)
    PROVE  EgressInv'
<1>1. CASE IsBlockedSsrfHost(h) \/ ~Permitted(allow, h)
  BY <1>1, EgressAssumption DEF FetchPrep, EgressInv, EgressShape, HopInv, RequestsStayInPolicy
<1>2. CASE ~(IsBlockedSsrfHost(h) \/ ~Permitted(allow, h))
  <2> DEFINE q == Sent(h, method, body)
  <2>1. q \in SentType /\ q.host = h /\ <<q>> \in Seq(SentType) /\ Len(<<q>>) = 1 /\ <<q>>[1] = q
    BY DEF Sent, SentType
  <2>2. /\ egress'.pc = "sent" /\ egress'.sent = <<q>> /\ egress'.hop = 0 /\ egress'.allow = allow
        /\ EgressShape'
    BY <1>2, <2>1, EgressAssumption DEF FetchPrep, EgressInv, EgressShape, HopInv
  <2> HIDE DEF q
  <2>3. DOMAIN <<q>> = {1}
    BY <2>1
  <2> QED BY <1>2, <2>1, <2>2, <2>3, EgressAssumption DEF EgressInv, HopInv, RequestsStayInPolicy
<1> QED BY <1>1, <1>2

(* Every further one is checked again, counted, and has no body.           *)
LEMMA FollowInv == ASSUME EgressInv, NEW to \in EgressHosts, Follow(to) PROVE EgressInv'
<1>1. CASE egress.hop = MaxRedirectHops \/ IsBlockedSsrfHost(to)
  BY <1>1 DEF Follow, EgressInv, EgressShape, HopInv, RequestsStayInPolicy
<1>2. CASE ~(egress.hop = MaxRedirectHops \/ IsBlockedSsrfHost(to))
  <2> DEFINE q == Sent(to, "GET", FALSE)
  <2>1. q \in SentType /\ q.host = to /\ ~q.body
    BY DEF Sent, SentType
  <2>2. /\ egress.pc = "sent" /\ Len(egress.sent) = egress.hop + 1
        /\ egress' = [egress EXCEPT !.hop = egress.hop + 1, !.method = "GET", !.body = FALSE,
                                    !.sent = Append(egress.sent, q)]
    BY <1>2 DEF Follow, EgressInv, EgressShape, HopInv
  <2>3. egress.hop + 1 \in 0..MaxRedirectHops
    BY <1>2, EgressAssumption DEF EgressInv, EgressShape
  <2> HIDE DEF q
  <2>4. /\ egress'.pc = "sent" /\ egress'.sent = Append(egress.sent, q) /\ egress'.hop = egress.hop + 1
        /\ egress'.allow = egress.allow /\ EgressShape'
    <3>1. Append(egress.sent, q) \in Seq(SentType)
      BY <2>1 DEF EgressInv, EgressShape
    <3>2. /\ egress'.pc = "sent" /\ egress'.sent = Append(egress.sent, q) /\ egress'.hop = egress.hop + 1
          /\ egress'.allow = egress.allow
          /\ egress' = [pc |-> egress'.pc, address |-> egress'.address, kind |-> egress'.kind, hop |-> egress'.hop,
                        method |-> egress'.method, body |-> egress'.body, allow |-> egress'.allow, sent |-> egress'.sent]
      BY <2>2 DEF EgressInv, EgressShape
    <3> QED BY <2>3, <3>1, <3>2 DEF EgressShape
  <2>5. /\ Len(egress'.sent) = egress'.hop + 1 /\ Len(egress'.sent) <= MaxRedirectHops + 1
        /\ DOMAIN egress'.sent = DOMAIN egress.sent \cup {egress.hop + 2}
        /\ \A i \in DOMAIN egress.sent : egress'.sent[i] = egress.sent[i]
        /\ egress'.sent[egress.hop + 2] = q /\ 1 \in DOMAIN egress.sent
    BY <2>1, <2>2, <2>3, <2>4, EgressAssumption DEF EgressInv, EgressShape
  <2> QED BY <1>2, <2>1, <2>4, <2>5 DEF EgressInv, HopInv, RequestsStayInPolicy
<1> QED BY <1>1, <1>2

LEMMA EgressStep == EgressInv /\ [EgressNext]_egress => EgressInv'
<1> SUFFICES ASSUME EgressInv, [EgressNext]_egress PROVE EgressInv'
  OBVIOUS
<1>1. CASE UNCHANGED egress
  BY <1>1 DEF EgressInv, EgressShape, HopInv, RequestsStayInPolicy
<1>2. CASE Respond
  BY <1>2 DEF Respond, EgressInv, EgressShape, HopInv, RequestsStayInPolicy
<1> QED BY <1>1, <1>2, FetchPrepInv, FollowInv DEF EgressNext

(* However many redirects it follows, a request goes to no blocked host,   *)
(* starts at a permitted one, is bounded, and sends its body once; for any *)
(* hosts, policies and bound on the hops (RequestsStayInPolicy).           *)
THEOREM EgressStaysInPolicy == EgressSpec => []RequestsStayInPolicy
<1>1. (\E a \in Addresses : EgressInit(a)) => EgressInv
  BY EgressInitInv
<1>2. EgressInv => RequestsStayInPolicy
  BY DEF EgressInv
<1> QED BY <1>1, <1>2, EgressStep, PTL DEF EgressSpec

(* The classification of an address. Any part of a spelling is one of: an  *)
(* octet, two octets in one number (Low), three of them, or all four; the  *)
(* big literals stay behind these names.                                   *)
Octet == 0..255
Short == {n \in Nat : n <= 65535}
(* The blocks the comments name are the ones isPrivateV4 tests.            *)
LEMMA PrivateIsInBlock ==
    ASSUME NEW a \in Octet, NEW b \in Octet
    PROVE  IsPrivateV4(a, b) <=> InBlock(a, b)
<1> DEFINE m == a * 256 + b  Hit(x, y, n) == m \div n = (x * 256 + y) \div n
<1>1. InBlock(a, b) <=> \/ Hit(127, 0, 256) \/ Hit(10, 0, 256) \/ Hit(0, 0, 256) \/ Hit(169, 254, 1)
                        \/ Hit(172, 16, 16) \/ Hit(192, 168, 1) \/ Hit(100, 64, 64)
  BY DEF InBlock, Blocks
<1>2. m \div 256 = a /\ m \div 1 = m /\ m \div 16 = a * 16 + (b \div 16) /\ m \div 64 = a * 4 + (b \div 64)
      /\ b \div 16 \in 0..15 /\ b \div 64 \in 0..3
  BY DEF Octet
<1>3. /\ Hit(127, 0, 256) <=> a = 127
      /\ Hit(10, 0, 256) <=> a = 10
      /\ Hit(0, 0, 256) <=> a = 0
  BY <1>2
<1>4. /\ Hit(169, 254, 1) <=> a = 169 /\ b = 254
      /\ Hit(192, 168, 1) <=> a = 192 /\ b = 168
  BY <1>2 DEF Octet
<1>5. Hit(172, 16, 16) <=> a = 172 /\ b \in 16..31
  BY <1>2 DEF Octet
<1>6. Hit(100, 64, 64) <=> a = 100 /\ b \in 64..127
  BY <1>2 DEF Octet
<1> HIDE DEF Hit
<1> QED BY <1>1, <1>3, <1>4, <1>5, <1>6 DEF IsPrivateV4

(* Two octets, and what the octets of a spelling are, however many parts it has.           *)
Low(c, d) == c * 256 + d
Three(b, l) == b * 65536 + l
Four(a, b, l) == a * 16777216 + b * 65536 + l
First(r, a, b) == r # NoAddress /\ r[1] = a /\ r[2] = b /\ r[3] \in Octet /\ r[4] \in Octet

(* The parts inet_aton takes, and the octets it makes of them.             *)
FewParts(p, k) ==
    /\ k \in 1..4 /\ Len(p) = k
    /\ \A i \in 1..(k - 1) : ~(p[i] > 255)
    /\ ~(p[k] \div OctetUnit[k] > 255)
OctetsOf(p, k) ==
    /\ NormalizeV4(p) # NoAddress
    /\ \A i \in 1..4 : NormalizeV4(p)[i] = IF i < k THEN p[i] ELSE (p[k] \div OctetUnit[i]) % 256

LEMMA NormalizedIs == ASSUME NEW p, NEW k, FewParts(p, k) PROVE OctetsOf(p, k)
<1> DEFINE o(i) == (p[k] \div OctetUnit[i]) % 256  over == p[k] \div OctetUnit[k] > 255
           r == [i \in 1..4 |-> IF i < k THEN p[i] ELSE o(i)]
<1>0. Len(p) = k
  BY DEF FewParts
<1>1. NormalizeV4(p) = IF k \notin 1..4 \/ (\E i \in 1..(k - 1) : p[i] > 255) \/ over THEN NoAddress ELSE r
  BY Zenon, <1>0 DEF NormalizeV4
<1>2. k \in 1..4 /\ (\A i \in 1..(k - 1) : ~(p[i] > 255)) /\ ~over
  BY DEF FewParts
<1> HIDE DEF o, over
<1>3. NormalizeV4(p) = r
  BY <1>1, <1>2
<1>4. r # NoAddress
  <2>1. 1 \in DOMAIN r /\ DOMAIN NoAddress = {}
    BY DEF NoAddress
  <2> HIDE DEF r
  <2> QED BY <2>1
<1>5. \A i \in 1..4 : r[i] = IF i < k THEN p[i] ELSE o(i)
  OBVIOUS
<1> HIDE DEF r
<1> QED BY <1>3, <1>4, <1>5 DEF OctetsOf, o

(* The octets the last part fills.                                         *)
LEMMA Filled ==
    ASSUME NEW m \in Nat
    PROVE  /\ (m \div 1) % 256 \in Octet /\ (m \div 256) % 256 \in Octet
           /\ OctetUnit[1] = 16777216 /\ OctetUnit[2] = 65536 /\ OctetUnit[3] = 256 /\ OctetUnit[4] = 1
<1>1. OctetUnit[1] = 16777216 /\ OctetUnit[2] = 65536 /\ OctetUnit[3] = 256 /\ OctetUnit[4] = 1
  BY DEF OctetUnit
<1>2. m \div 1 \in Nat /\ m \div 256 \in Nat
  OBVIOUS
<1>3. ASSUME NEW n \in Nat PROVE n % 256 \in 0..255
  OBVIOUS
<1> QED BY <1>1, <1>2, <1>3 DEF Octet

(* What an octet and a short hold, as bounds.                              *)
LEMMA Bounds ==
    /\ \A x \in Octet : x \in Nat /\ x <= 255 /\ x \in 0..255 /\ x % 256 = x
    /\ \A x \in Short : x \in Nat /\ x <= 65535
    /\ \A x \in Nat : x <= 65535 => x \in Short
<1>1. ASSUME NEW x \in 0..255 PROVE x \in Nat /\ x <= 255 /\ x % 256 = x
  OBVIOUS
<1>2. (\A x \in Short : x \in Nat /\ x <= 65535) /\ \A x \in Nat : x <= 65535 => x \in Short
  BY SMT DEF Short
<1>3. \A x \in Octet : x \in Nat /\ x <= 255 /\ x \in 0..255 /\ x % 256 = x
  BY Zenon, <1>1 DEF Octet
<1> QED BY SMT, <1>2, <1>3

LEMMA FourParts ==
    ASSUME NEW a \in Octet, NEW b \in Octet, NEW c \in Octet, NEW d \in Octet
    PROVE  First(NormalizeV4(<<a, b, c, d>>), a, b)
<1> DEFINE p == <<a, b, c, d>>
<1>1. Len(p) = 4 /\ p[1] = a /\ p[2] = b /\ p[3] = c /\ p[4] = d
  OBVIOUS
<1> HIDE DEF p
<1>2. d \in Nat /\ d \div 1 = d /\ d % 256 = d /\ OctetUnit[4] = 1 /\ ~(d > 255)
  <2>1. d \in Nat /\ d \div 1 = d /\ d % 256 = d /\ ~(d > 255)
    BY DEF Octet
  <2>2. OctetUnit[4] = 1
    BY DEF OctetUnit
  <2> QED BY <2>1, <2>2
<1>3. \A i \in 1..(4 - 1) : ~(p[i] > 255)
  BY <1>1 DEF Octet
<1>4. ~(p[4] \div OctetUnit[4] > 255)
  BY <1>1, <1>2
<1>5. /\ NormalizeV4(p) # NoAddress
      /\ \A i \in 1..4 : NormalizeV4(p)[i] = IF i < 4 THEN p[i] ELSE (p[4] \div OctetUnit[i]) % 256
  <2>1. FewParts(p, 4)
    BY <1>1, <1>3, <1>4 DEF FewParts
  <2> QED BY <2>1, NormalizedIs DEF OctetsOf
<1>6. NormalizeV4(p)[1] = a /\ NormalizeV4(p)[2] = b /\ NormalizeV4(p)[3] = c /\ NormalizeV4(p)[4] = d
  <2>1. NormalizeV4(p)[4] = (p[4] \div OctetUnit[4]) % 256
    BY <1>5
  <2> QED BY <1>1, <1>2, <1>5, <2>1
<1> QED BY <1>5, <1>6 DEF First, p

LEMMA ThreeParts ==
    ASSUME NEW a \in Octet, NEW b \in Octet, NEW l \in Short
    PROVE  First(NormalizeV4(<<a, b, l>>), a, b)
<1> DEFINE p == <<a, b, l>>
<1>1. Len(p) = 3 /\ p[1] = a /\ p[2] = b /\ p[3] = l
  OBVIOUS
<1> HIDE DEF p
<1>2. l \in Nat /\ l \div 256 \in 0..255
  <2> DEFINE q == l \div 256
  <2>1. l \in Nat /\ l <= 65535
    BY Bounds
  <2>2. q \in Nat /\ 256 * q <= l
    BY SMT, <2>1
  <2> HIDE DEF q
  <2>3. q \in 0..255
    BY SMT, <2>1, <2>2
  <2> QED BY <2>1, <2>3 DEF q
<1>3. \A i \in 1..(3 - 1) : ~(p[i] > 255)
  BY <1>1 DEF Octet
<1>4. ~(p[3] \div OctetUnit[3] > 255)
  <2>1. p[3] \div OctetUnit[3] = l \div 256
    BY <1>1, <1>2, Filled
  <2> QED BY <1>2, <2>1
<1>5. /\ NormalizeV4(p) # NoAddress
      /\ \A i \in 1..4 : NormalizeV4(p)[i] = IF i < 3 THEN p[i] ELSE (p[3] \div OctetUnit[i]) % 256
  <2>1. FewParts(p, 3)
    BY <1>1, <1>3, <1>4 DEF FewParts
  <2> QED BY <2>1, NormalizedIs DEF OctetsOf
<1>6. NormalizeV4(p)[1] = a /\ NormalizeV4(p)[2] = b
  BY <1>1, <1>5
<1>7. NormalizeV4(p)[3] = (l \div 256) % 256 /\ NormalizeV4(p)[4] = (l \div 1) % 256
  <2>1. NormalizeV4(p)[3] = (p[3] \div OctetUnit[3]) % 256 /\ NormalizeV4(p)[4] = (p[3] \div OctetUnit[4]) % 256
    BY <1>5
  <2> QED BY <1>1, <1>2, <2>1, Filled
<1>8. NormalizeV4(p)[3] \in Octet /\ NormalizeV4(p)[4] \in Octet
  BY <1>2, <1>7, Filled
<1> QED BY <1>5, <1>6, <1>8 DEF First, p

LEMMA TwoParts ==
    ASSUME NEW a \in Octet, NEW b \in Octet, NEW l \in Short
    PROVE  First(NormalizeV4(<<a, Three(b, l)>>), a, b)
<1> DEFINE m == Three(b, l)  p == <<a, m>>
<1>1. Len(p) = 2 /\ p[1] = a /\ p[2] = m
  OBVIOUS
<1>2. m \in Nat /\ m \div 65536 = b /\ b % 256 = b /\ b \in 0..255
  <2>1. b \in Nat /\ b % 256 = b /\ b \in 0..255 /\ l \in Nat /\ l <= 65535
    BY Bounds
  <2>2. m = b * 65536 + l
    BY DEF Three
  <2> HIDE DEF m
  <2>3. m \div 65536 = b
    BY SMT, <2>1, <2>2
  <2> QED BY SMT, <2>1, <2>2, <2>3
<1> HIDE DEF p, m
<1>3. \A i \in 1..(2 - 1) : ~(p[i] > 255)
  BY <1>1 DEF Octet
<1>4. ~(p[2] \div OctetUnit[2] > 255)
  <2>1. p[2] \div OctetUnit[2] = b
    BY <1>1, <1>2, Filled
  <2> QED BY <1>2, <2>1
<1>5. /\ NormalizeV4(p) # NoAddress
      /\ \A i \in 1..4 : NormalizeV4(p)[i] = IF i < 2 THEN p[i] ELSE (p[2] \div OctetUnit[i]) % 256
  <2>1. FewParts(p, 2)
    BY <1>1, <1>3, <1>4 DEF FewParts
  <2> QED BY <2>1, NormalizedIs DEF OctetsOf
<1>6. NormalizeV4(p)[1] = a
  BY <1>1, <1>5
<1>7. NormalizeV4(p)[2] = (m \div 65536) % 256 /\ NormalizeV4(p)[3] = (m \div 256) % 256
      /\ NormalizeV4(p)[4] = (m \div 1) % 256
  <2>1. /\ NormalizeV4(p)[2] = (p[2] \div OctetUnit[2]) % 256 /\ NormalizeV4(p)[3] = (p[2] \div OctetUnit[3]) % 256
        /\ NormalizeV4(p)[4] = (p[2] \div OctetUnit[4]) % 256
    BY <1>5
  <2> QED BY <1>1, <1>2, <2>1, Filled
<1>8. NormalizeV4(p)[2] = b /\ NormalizeV4(p)[3] \in Octet /\ NormalizeV4(p)[4] \in Octet
  BY <1>2, <1>7, Filled
<1> QED BY <1>5, <1>6, <1>8 DEF First, p, m

LEMMA OnePart ==
    ASSUME NEW a \in Octet, NEW b \in Octet, NEW l \in Short
    PROVE  First(NormalizeV4(<<Four(a, b, l)>>), a, b)
<1> DEFINE m == Four(a, b, l)  p == <<m>>
<1>1. Len(p) = 1 /\ p[1] = m
  OBVIOUS
<1>2. m \in Nat /\ m \div 16777216 = a /\ a % 256 = a /\ a \in 0..255
  <2> DEFINE rest == b * 65536 + l
  <2>0. a \in Nat /\ a % 256 = a /\ a \in 0..255 /\ b \in Nat /\ b <= 255 /\ l \in Nat /\ l <= 65535
    BY Bounds
  <2>1. rest \in Nat /\ rest <= 16777215
    BY SMT, <2>0
  <2>2. m = a * 16777216 + rest
    BY SMT, <2>0 DEF Four
  <2> HIDE DEF m, rest
  <2>3. m \div 16777216 = a
    BY SMT, <2>0, <2>1, <2>2
  <2> QED BY SMT, <2>0, <2>1, <2>2, <2>3
<1>3. (m \div 65536) % 256 = b
  <2>1. a \in Nat /\ b \in Nat /\ b <= 255 /\ l \in Nat /\ l <= 65535
    BY Bounds
  <2>2. m = (a * 256 + b) * 65536 + l
    BY SMT, <2>1 DEF Four
  <2> HIDE DEF m
  <2>3. m \div 65536 = a * 256 + b
    BY SMT, <2>1, <2>2
  <2> QED BY <2>1, <2>3
<1> HIDE DEF p, m
<1>4. \A i \in 1..(1 - 1) : ~(p[i] > 255)
  OBVIOUS
<1>5. ~(p[1] \div OctetUnit[1] > 255)
  <2>1. p[1] \div OctetUnit[1] = a
    BY <1>1, <1>2, Filled
  <2> QED BY <1>2, <2>1
<1>6. /\ NormalizeV4(p) # NoAddress
      /\ \A i \in 1..4 : NormalizeV4(p)[i] = IF i < 1 THEN p[i] ELSE (p[1] \div OctetUnit[i]) % 256
  <2>1. FewParts(p, 1)
    BY <1>1, <1>4, <1>5 DEF FewParts
  <2> QED BY <2>1, NormalizedIs DEF OctetsOf
<1>7. NormalizeV4(p)[1] = (m \div 16777216) % 256 /\ NormalizeV4(p)[2] = (m \div 65536) % 256
      /\ NormalizeV4(p)[3] = (m \div 256) % 256 /\ NormalizeV4(p)[4] = (m \div 1) % 256
  <2>1. /\ NormalizeV4(p)[1] = (p[1] \div OctetUnit[1]) % 256 /\ NormalizeV4(p)[2] = (p[1] \div OctetUnit[2]) % 256
        /\ NormalizeV4(p)[3] = (p[1] \div OctetUnit[3]) % 256 /\ NormalizeV4(p)[4] = (p[1] \div OctetUnit[4]) % 256
    BY <1>6
  <2> QED BY <1>1, <1>2, <2>1, Filled
<1>8. NormalizeV4(p)[1] = a /\ NormalizeV4(p)[2] = b /\ NormalizeV4(p)[3] \in Octet /\ NormalizeV4(p)[4] \in Octet
  BY <1>2, <1>3, <1>7, Filled
<1> QED BY <1>6, <1>8 DEF First, p, m

(* A dotted host is classified by its first octets ...                     *)
LEMMA DottedHost ==
    ASSUME NEW a, NEW b, NEW p, First(NormalizeV4(p), a, b)
    PROVE  IsBlockedSsrfHost(V4(p)) <=> IsPrivateV4(a, b)
<1> DEFINE h == V4(p)
<1>1. h.kind = "v4" /\ h.parts = p
  BY DEF V4
<1> HIDE DEF h
<1>2. IsBlockedSsrfHost(h) <=> NormalizeV4(p) = NoAddress \/ IsPrivateV4(NormalizeV4(p)[1], NormalizeV4(p)[2])
  BY <1>1 DEF IsBlockedSsrfHost
<1> QED BY <1>2 DEF First, h

(* ... and an IPv4-mapped one by the octets of its seventh group.          *)
LEMMA MappedGroups ==
    ASSUME NEW a \in Octet, NEW b \in Octet, NEW g,
           \A i \in 1..5 : g[i] = 0, g[6] = AllOnes, g[7] = Low(a, b)
    PROVE  IsBlockedV6(g) <=> IsPrivateV4(a, b)
<1>1. g[1] = 0 /\ 0 \div 64 # 1018 /\ 0 \div 512 # 126 /\ 6 \in 1..7 /\ AllOnes # 0
  BY SMT DEF AllOnes
<1>2. Low(a, b) \div 256 = a /\ Low(a, b) % 256 = b
  BY SMT DEF Octet, Low
<1> HIDE DEF AllOnes
<1> QED BY SMT, <1>1, <1>2 DEF IsBlockedV6

(* What parseV6 makes of its four pieces: the groups left of the "::", the *)
(* zeros it stands for, the groups right of it, and the dotted tail's.     *)
Fill(n) == [i \in 1..n |-> 0]
Groups(r) == <<Low(r[1], r[2]), Low(r[3], r[4])>>
TailOf(h, t) ==
    IF h.tail = <<>> THEN t = <<>> ELSE NormalizeV4(h.tail) # NoAddress /\ t = Groups(NormalizeV4(h.tail))
Pieced(h, t, n) == h.left \o Fill(n) \o h.right \o t
Pieces(g, l, n, r, t) ==
    /\ Len(g) = Len(l) + n + Len(r) + Len(t)
    /\ \A i \in 1..Len(l) : g[i] = l[i]
    /\ \A i \in 1..n : g[Len(l) + i] = 0
    /\ \A i \in 1..Len(r) : g[Len(l) + n + i] = r[i]
    /\ \A i \in 1..Len(t) : g[Len(l) + n + Len(r) + i] = t[i]

LEMMA FillIs ==
    ASSUME NEW n \in Nat
    PROVE  Fill(n) \in Seq(Nat) /\ Len(Fill(n)) = n /\ \A i \in 1..n : Fill(n)[i] = 0
BY DEF Fill

LEMMA NoFill == Fill(0) = <<>>
BY DEF Fill

LEMMA JoinedTwo ==
    ASSUME NEW x \in Seq(Nat), NEW y \in Seq(Nat)
    PROVE  /\ x \o y \in Seq(Nat) /\ Len(x \o y) = Len(x) + Len(y) /\ Len(x) \in Nat /\ Len(y) \in Nat
           /\ \A i \in 1..Len(x) : (x \o y)[i] = x[i]
           /\ \A i \in 1..Len(y) : (x \o y)[Len(x) + i] = y[i]
OBVIOUS

LEMMA PiecesIn ==
    ASSUME NEW h, h.left \in Seq(Nat), h.right \in Seq(Nat), NEW t \in Seq(Nat), NEW n \in Nat
    PROVE  Pieces(Pieced(h, t, n), h.left, n, h.right, t)
<1> DEFINE l == h.left  r == h.right  f == Fill(n)  lm == l \o f  lmr == lm \o r  g == lmr \o t
<1>1. f \in Seq(Nat) /\ Len(f) = n /\ (\A i \in 1..n : f[i] = 0) /\ l \in Seq(Nat) /\ r \in Seq(Nat)
  BY FillIs
<1>2. Pieced(h, t, n) = g
  BY DEF Pieced
<1> HIDE DEF l, r, f
<1>3. lm \in Seq(Nat) /\ Len(lm) = Len(l) + n /\ (\A i \in 1..Len(l) : lm[i] = l[i])
      /\ (\A i \in 1..n : lm[Len(l) + i] = f[i]) /\ Len(l) \in Nat
  BY <1>1, JoinedTwo
<1> HIDE DEF lm
<1>4. lmr \in Seq(Nat) /\ Len(lmr) = Len(lm) + Len(r) /\ (\A i \in 1..Len(lm) : lmr[i] = lm[i])
      /\ (\A i \in 1..Len(r) : lmr[Len(lm) + i] = r[i]) /\ Len(lm) \in Nat /\ Len(r) \in Nat
  BY <1>1, <1>3, JoinedTwo
<1> HIDE DEF lmr
<1>5. Len(g) = Len(lmr) + Len(t) /\ (\A i \in 1..Len(lmr) : g[i] = lmr[i])
      /\ (\A i \in 1..Len(t) : g[Len(lmr) + i] = t[i]) /\ Len(lmr) \in Nat /\ Len(t) \in Nat
  BY <1>4, JoinedTwo
<1> HIDE DEF g
<1>6. \A i \in 1..Len(lm) : g[i] = lm[i]
  BY <1>4, <1>5
<1>7. \A i \in 1..Len(l) : g[i] = l[i]
  BY <1>3, <1>6
<1>8. \A i \in 1..n : g[Len(l) + i] = 0
  <2> TAKE i \in 1..n
  <2>1. Len(l) + i \in 1..Len(lm)
    BY <1>3
  <2> QED BY <1>1, <1>3, <1>6, <2>1
<1>9. \A i \in 1..Len(r) : g[Len(l) + n + i] = r[i]
  <2> TAKE i \in 1..Len(r)
  <2>1. Len(lm) + i \in 1..Len(lmr) /\ Len(l) + n + i = Len(lm) + i
    BY <1>3, <1>4
  <2> QED BY <1>4, <1>5, <2>1
<1>10. \A i \in 1..Len(t) : g[Len(l) + n + Len(r) + i] = t[i]
  <2> TAKE i \in 1..Len(t)
  <2>1. Len(l) + n + Len(r) + i = Len(lmr) + i
    BY <1>3, <1>4
  <2> QED BY <1>5, <2>1
<1>11. Len(g) = Len(l) + n + Len(r) + Len(t)
  BY <1>3, <1>4, <1>5
<1> QED BY <1>2, <1>7, <1>8, <1>9, <1>10, <1>11 DEF Pieces, l, r

LEMMA RestOfEight ==
    \A x, y, z, n \in Nat : x + n + y + z = 8 => x + y + z <= 8 /\ 8 - (x + y + z) = n
OBVIOUS

LEMMA ParsedV6 ==
    ASSUME NEW h, h.left \in Seq(Nat), h.right \in Seq(Nat), NEW t \in Seq(Nat), NEW n \in Nat, TailOf(h, t),
           h.dbl \in BOOLEAN, ~h.dbl => n = 0, Len(h.left) + n + Len(h.right) + Len(t) = 8
    PROVE  Pieces(ParseV6(h), h.left, n, h.right, t)
<1> DEFINE v4 == IF h.tail = <<>> THEN NoAddress ELSE NormalizeV4(h.tail)
           tail == IF v4 = NoAddress THEN <<>> ELSE Groups(v4)
           known == Len(h.left) + Len(h.right) + Len(tail)
           fill == IF h.dbl /\ known <= 8 THEN Fill(8 - known) ELSE <<>>
           groups == h.left \o fill \o h.right \o tail
           g == Pieced(h, t, n)
<1>1. ParseV6(h) = IF (h.tail # <<>> /\ v4 = NoAddress) \/ Len(groups) # 8 THEN NoAddress ELSE groups
  BY Zenon DEF ParseV6, Groups, Fill, Low
<1>2. tail = t /\ (h.tail # <<>> => v4 # NoAddress)
  <2>1. CASE h.tail = <<>>
    <3>1. v4 = NoAddress
      BY <2>1
    <3> HIDE DEF v4
    <3> QED BY <2>1, <3>1 DEF TailOf
  <2>2. CASE h.tail # <<>>
    <3>1. v4 = NormalizeV4(h.tail) /\ v4 # NoAddress /\ t = Groups(v4)
      BY <2>2 DEF TailOf
    <3> HIDE DEF v4
    <3> QED BY <2>2, <3>1
  <2> QED BY <2>1, <2>2
<1> HIDE DEF tail, v4
<1>3. fill = Fill(n)
  <2> DEFINE x == Len(h.left)  y == Len(h.right)  z == Len(t)
  <2>0. known = x + y + z /\ x \in Nat /\ y \in Nat /\ z \in Nat
    BY <1>2
  <2>1. x + n + y + z = 8
    OBVIOUS
  <2> HIDE DEF known, x, y, z
  <2>2. known <= 8 /\ 8 - known = n
    BY <2>0, <2>1
  <2>3. CASE h.dbl
    BY <2>2, <2>3
  <2>4. CASE ~h.dbl
    BY <2>4, NoFill
  <2> QED BY <2>3, <2>4
<1> HIDE DEF fill
<1>4. groups = g
  BY <1>2, <1>3 DEF Pieced
<1> HIDE DEF groups
<1>5. Pieces(g, h.left, n, h.right, t)
  BY PiecesIn
<1>6. Len(g) = 8
  BY <1>5 DEF Pieces
<1> HIDE DEF g
<1> QED BY <1>1, <1>2, <1>4, <1>5, <1>6

(* Eight groups: five zeros, all ones, and two more.                       *)
Mapped(g, x) == Len(g) = 8 /\ (\A i \in 1..5 : g[i] = 0) /\ g[6] = AllOnes /\ g[7] = x

LEMMA MappedHost ==
    ASSUME NEW a \in Octet, NEW b \in Octet, NEW h, h.kind = "v6", Mapped(ParseV6(h), Low(a, b))
    PROVE  IsBlockedSsrfHost(h) <=> IsPrivateV4(a, b)
<1> DEFINE g == ParseV6(h)
<1>1. g # NoAddress
  <2>1. Len(g) = 8 /\ Len(NoAddress) = 0
    BY DEF Mapped, NoAddress
  <2> QED BY <2>1
<1>2. IsBlockedSsrfHost(h) <=> g = NoAddress \/ IsBlockedV6(g)
  BY SMT DEF IsBlockedSsrfHost
<1>3. (\A i \in 1..5 : g[i] = 0) /\ g[6] = AllOnes /\ g[7] = Low(a, b)
  BY DEF Mapped
<1> HIDE DEF g
<1>4. IsBlockedV6(g) <=> IsPrivateV4(a, b)
  BY <1>3, MappedGroups
<1> QED BY <1>1, <1>2, <1>4

LEMMA LowType == \A x, y \in Octet : Low(x, y) \in Nat
BY SMT DEF Octet, Low

(* The tail of a dotted spelling is two groups.                            *)
LEMMA TailGroups ==
    ASSUME NEW a \in Octet, NEW b \in Octet, NEW r, First(r, a, b)
    PROVE  Groups(r) \in Seq(Nat) /\ Len(Groups(r)) = 2 /\ Groups(r)[1] = Low(a, b)
<1>1. r[1] = a /\ r[2] = b /\ r[3] \in Octet /\ r[4] \in Octet
  BY DEF First
<1>2. Low(r[1], r[2]) \in Nat /\ Low(r[3], r[4]) \in Nat
  BY <1>1, LowType
<1> QED BY <1>1, <1>2 DEF Groups

LEMMA AllOnesType == AllOnes \in Nat
BY SMT DEF AllOnes

(* A mapped address with a dotted tail, its zeros left out ...             *)
LEMMA MappedDotted ==
    ASSUME NEW a \in Octet, NEW b \in Octet, NEW p, p # <<>>, First(NormalizeV4(p), a, b)
    PROVE  IsBlockedSsrfHost(V6(<<>>, TRUE, <<AllOnes>>, p)) <=> IsPrivateV4(a, b)
<1> DEFINE r == <<AllOnes>>  none == <<>>  h == V6(none, TRUE, r, p)  t == Groups(NormalizeV4(p))
<1>1. h.kind = "v6" /\ h.left = none /\ h.dbl = TRUE /\ h.right = r /\ h.tail = p
  BY SMT DEF V6
<1>2. r \in Seq(Nat) /\ Len(r) = 1 /\ r[1] = AllOnes /\ none \in Seq(Nat) /\ Len(none) = 0
  BY SMT, AllOnesType
<1>3. t \in Seq(Nat) /\ Len(t) = 2 /\ t[1] = Low(a, b) /\ NormalizeV4(p) # NoAddress
  <2>1. NormalizeV4(p) # NoAddress
    BY DEF First
  <2> QED BY <2>1, TailGroups
<1>4. TailOf(h, t)
  BY <1>1, <1>3 DEF TailOf
<1> HIDE DEF h, r, none, t
<1>5. Len(h.left) + 5 + Len(h.right) + Len(t) = 8 /\ 5 \in Nat
  BY <1>1, <1>2, <1>3
<1>6. Pieces(ParseV6(h), h.left, 5, h.right, t)
  BY <1>1, <1>2, <1>3, <1>4, <1>5, ParsedV6
<1>7. Pieces(ParseV6(h), none, 5, r, t)
  BY <1>1, <1>6
<1> DEFINE g == ParseV6(h)
<1> HIDE DEF g
<1>8. Len(g) = 8 /\ (\A i \in 1..5 : g[0 + i] = 0) /\ g[0 + 5 + 1] = r[1] /\ g[0 + 5 + 1 + 1] = t[1]
  BY <1>2, <1>3, <1>7 DEF Pieces, g
<1>9. Mapped(g, Low(a, b))
  BY SMT, <1>2, <1>3, <1>8 DEF Mapped
<1>10. IsBlockedSsrfHost(h) <=> IsPrivateV4(a, b)
  BY <1>1, <1>9, MappedHost DEF g
<1> QED BY <1>10 DEF h, r, none

(* ... or spelled out ...                                                  *)
LEMMA MappedFull ==
    ASSUME NEW a \in Octet, NEW b \in Octet, NEW p, p # <<>>, First(NormalizeV4(p), a, b)
    PROVE  IsBlockedSsrfHost(V6(<<0, 0, 0, 0, 0, AllOnes>>, FALSE, <<>>, p)) <=> IsPrivateV4(a, b)
<1> DEFINE l == <<0, 0, 0, 0, 0, AllOnes>>  none == <<>>  h == V6(l, FALSE, none, p)
           t == Groups(NormalizeV4(p))
<1>1. h.kind = "v6" /\ h.left = l /\ h.dbl = FALSE /\ h.right = none /\ h.tail = p
  BY SMT DEF V6
<1>2. l \in Seq(Nat) /\ Len(l) = 6 /\ (\A i \in 1..5 : l[i] = 0) /\ l[6] = AllOnes
      /\ none \in Seq(Nat) /\ Len(none) = 0
  BY SMT, AllOnesType
<1>3. t \in Seq(Nat) /\ Len(t) = 2 /\ t[1] = Low(a, b) /\ NormalizeV4(p) # NoAddress
  <2>1. NormalizeV4(p) # NoAddress
    BY DEF First
  <2> QED BY <2>1, TailGroups
<1>4. TailOf(h, t)
  BY <1>1, <1>3 DEF TailOf
<1> HIDE DEF h, l, none, t
<1>5. Len(h.left) + 0 + Len(h.right) + Len(t) = 8 /\ 0 \in Nat
  BY <1>1, <1>2, <1>3
<1>6. Pieces(ParseV6(h), h.left, 0, h.right, t)
  BY <1>1, <1>2, <1>3, <1>4, <1>5, ParsedV6
<1>7. Pieces(ParseV6(h), l, 0, none, t)
  BY <1>1, <1>6
<1> DEFINE g == ParseV6(h)
<1> HIDE DEF g
<1>8. Len(g) = 8 /\ (\A i \in 1..6 : g[i] = l[i]) /\ g[6 + 0 + 0 + 1] = t[1]
  BY <1>2, <1>3, <1>7 DEF Pieces, g
<1>9. Mapped(g, Low(a, b))
  BY SMT, <1>2, <1>3, <1>8 DEF Mapped
<1>10. IsBlockedSsrfHost(h) <=> IsPrivateV4(a, b)
  BY <1>1, <1>9, MappedHost DEF g
<1> QED BY <1>10 DEF h, l, none

(* ... or in hex groups only.                                              *)
LEMMA MappedHex ==
    ASSUME NEW a \in Octet, NEW b \in Octet, NEW y \in Nat
    PROVE  IsBlockedSsrfHost(V6(<<0>>, TRUE, <<AllOnes, Low(a, b), y>>, <<>>)) <=> IsPrivateV4(a, b)
<1> DEFINE l == <<0>>  r == <<AllOnes, Low(a, b), y>>  none == <<>>  h == V6(l, TRUE, r, none)
<1>1. h.kind = "v6" /\ h.left = l /\ h.dbl = TRUE /\ h.right = r /\ h.tail = none
  BY SMT DEF V6
<1>2. /\ l \in Seq(Nat) /\ Len(l) = 1 /\ l[1] = 0 /\ none \in Seq(Nat) /\ Len(none) = 0 /\ none = <<>>
      /\ r \in Seq(Nat) /\ Len(r) = 3 /\ r[1] = AllOnes /\ r[2] = Low(a, b)
  BY SMT, AllOnesType, LowType
<1>4. TailOf(h, none)
  BY <1>1 DEF TailOf
<1> HIDE DEF h, l, none, r
<1>5. Len(h.left) + 4 + Len(h.right) + Len(none) = 8 /\ 4 \in Nat
  BY <1>1, <1>2
<1>6. Pieces(ParseV6(h), h.left, 4, h.right, none)
  BY <1>1, <1>2, <1>4, <1>5, ParsedV6
<1>7. Pieces(ParseV6(h), l, 4, r, none)
  BY <1>1, <1>6
<1> DEFINE g == ParseV6(h)
<1> HIDE DEF g
<1>8. /\ Len(g) = 8 /\ (\A i \in 1..1 : g[i] = l[i]) /\ (\A i \in 1..4 : g[1 + i] = 0)
      /\ g[1 + 4 + 1] = r[1] /\ g[1 + 4 + 2] = r[2]
  BY <1>2, <1>7 DEF Pieces, g
<1>9. Mapped(g, Low(a, b))
  <2>1. \A i \in 1..5 : g[i] = 0
    <3> TAKE i \in 1..5
    <3>1. CASE i = 1
      BY <1>2, <1>8, <3>1
    <3>2. CASE i # 1
      <4>1. i - 1 \in 1..4 /\ i = 1 + (i - 1)
        BY SMT, <3>2
      <4> QED BY SMT, <1>8, <4>1
    <3> QED BY <3>1, <3>2
  <2> QED BY SMT, <1>2, <1>8, <2>1 DEF Mapped
<1>10. IsBlockedSsrfHost(h) <=> IsPrivateV4(a, b)
  BY <1>1, <1>9, MappedHost DEF g
<1> QED BY <1>10 DEF h, l, r, none

(* The numbers that spell several octets.                                  *)
LEMMA Wholes ==
    ASSUME NEW a \in Octet, NEW b \in Octet, NEW c \in Octet, NEW d \in Octet
    PROVE  /\ Whole(0, 0, a, b) = Low(a, b) /\ Low(c, d) \in Short /\ Whole(0, 0, c, d) = Low(c, d)
           /\ Whole(0, b, c, d) = Three(b, Low(c, d)) /\ Whole(a, b, c, d) = Four(a, b, Low(c, d))
<1>1. OctetUnit[1] = 16777216 /\ OctetUnit[2] = 65536 /\ OctetUnit[3] = 256
  BY SMT DEF OctetUnit
<1>2. ASSUME NEW x \in Octet, NEW y \in Octet, NEW z \in Octet, NEW w \in Octet
      PROVE  Whole(x, y, z, w) = x * 16777216 + y * 65536 + z * 256 + w
  BY SMT, <1>1 DEF Whole
<1>0. 0 \in Octet
  BY SMT DEF Octet
<1>3. ASSUME NEW z \in Octet, NEW w \in Octet PROVE Whole(0, 0, z, w) = Low(z, w)
  <2>1. Whole(0, 0, z, w) = 0 * 16777216 + 0 * 65536 + z * 256 + w
    BY <1>0, <1>2
  <2> QED BY SMT, <2>1 DEF Low, Octet
<1>4. Whole(0, b, c, d) = Three(b, Low(c, d))
  <2>1. Whole(0, b, c, d) = 0 * 16777216 + b * 65536 + c * 256 + d
    BY <1>0, <1>2
  <2> QED BY SMT, <2>1 DEF Low, Three, Octet
<1>5. Whole(a, b, c, d) = Four(a, b, Low(c, d))
  <2>1. Whole(a, b, c, d) = a * 16777216 + b * 65536 + c * 256 + d
    BY SMT, <1>2
  <2> QED BY SMT, <2>1 DEF Low, Four, Octet
<1>6. Low(c, d) \in Short
  <2>1. c \in Nat /\ c <= 255 /\ d \in Nat /\ d <= 255
    BY Bounds
  <2>2. Low(c, d) \in Nat /\ Low(c, d) <= 65535
    BY SMT, <2>1 DEF Low
  <2> QED BY <2>2, Bounds
<1> QED BY SMT, <1>3, <1>4, <1>5, <1>6

SpelledAlike(a, b, c, d) ==
    /\ \A h \in Spellings(a, b, c, d) : IsBlockedSsrfHost(h) <=> InBlock(a, b)
    /\ IsBlockedSsrfHost(V4(<<Whole(a, b, c, d)>>)) <=> InBlock(a, b)

(* Every spelling of every IPv4 address, of any four octets, is classified *)
(* as its block is (isBlockedSsrfHost, kernel-glue.ts): dotted, with fewer *)
(* parts, as one number, and IPv4-mapped in dots or in hex groups.         *)
THEOREM SpellingsAgree ==
    ASSUME NEW a \in Octet, NEW b \in Octet, NEW c \in Octet, NEW d \in Octet
    PROVE  SpelledAlike(a, b, c, d)
<1> DEFINE l == Low(c, d)  dotted == <<a, b, c, d>>  three == <<a, b, Whole(0, 0, c, d)>>
           s1 == V4(dotted)  s2 == V4(three)  s3 == V4(<<a, Whole(0, b, c, d)>>)
           s4 == V6(<<>>, TRUE, <<AllOnes>>, dotted)
           s5 == V6(<<0, 0, 0, 0, 0, AllOnes>>, FALSE, <<>>, three)
           s6 == V6(<<0>>, TRUE, <<AllOnes, Whole(0, 0, a, b), Whole(0, 0, c, d)>>, <<>>)
           s7 == V4(<<Whole(a, b, c, d)>>)  priv == IsPrivateV4(a, b)
<1>1. a \in Octet /\ b \in Octet /\ c \in Octet /\ d \in Octet
  OBVIOUS
<1>2. Spellings(a, b, c, d) \cup {s7} = {s1, s2, s3, s4, s5, s6, s7}
  <2>1. Spellings(a, b, c, d) = {s1, s2, s3, s4, s5, s6} \cup IF a < 128 THEN {s7} ELSE {}
    BY Zenon DEF Spellings
  <2> HIDE DEF s1, s2, s3, s4, s5, s6, s7
  <2> QED BY <2>1
<1>3. /\ Whole(0, 0, a, b) = Low(a, b) /\ Whole(0, 0, c, d) = l
      /\ Whole(0, b, c, d) = Three(b, l) /\ Whole(a, b, c, d) = Four(a, b, l)
  BY SMT, <1>1, Wholes
<1>4. l \in Short
  BY Zenon, <1>1, Wholes
<1> HIDE DEF l
<1>5. l \in Nat
  BY <1>4, Bounds
<1>6. First(NormalizeV4(dotted), a, b)
  BY Zenon, <1>1, FourParts
<1>7. First(NormalizeV4(three), a, b)
  <2>1. First(NormalizeV4(<<a, b, l>>), a, b)
    BY Zenon, <1>1, <1>4, ThreeParts
  <2> QED BY Zenon, <2>1, <1>3
<1>8. First(NormalizeV4(<<a, Whole(0, b, c, d)>>), a, b)
  <2>1. First(NormalizeV4(<<a, Three(b, l)>>), a, b)
    BY Zenon, <1>1, <1>4, TwoParts
  <2> QED BY Zenon, <2>1, <1>3
<1>9. First(NormalizeV4(<<Whole(a, b, c, d)>>), a, b)
  <2>1. First(NormalizeV4(<<Four(a, b, l)>>), a, b)
    BY Zenon, <1>1, <1>4, OnePart
  <2> QED BY Zenon, <2>1, <1>3
<1>10. dotted # <<>> /\ three # <<>>
  <2>1. Len(dotted) = 4 /\ Len(three) = 3 /\ Len(<<>>) = 0
    BY SMT
  <2> QED BY SMT, <2>1
<1> HIDE DEF dotted, three
<1>11. /\ IsBlockedSsrfHost(s1) <=> priv
       /\ IsBlockedSsrfHost(s2) <=> priv
       /\ IsBlockedSsrfHost(s3) <=> priv
       /\ IsBlockedSsrfHost(s7) <=> priv
  BY Zenon, <1>6, <1>7, <1>8, <1>9, DottedHost
<1>12. IsBlockedSsrfHost(s4) <=> priv
  BY Zenon, <1>1, <1>6, <1>10, MappedDotted
<1>13. IsBlockedSsrfHost(s5) <=> priv
  BY Zenon, <1>1, <1>7, <1>10, MappedFull
<1>14. IsBlockedSsrfHost(s6) <=> priv
  <2>1. IsBlockedSsrfHost(V6(<<0>>, TRUE, <<AllOnes, Low(a, b), l>>, <<>>)) <=> priv
    BY Zenon, <1>1, <1>5, MappedHex
  <2> QED BY Zenon, <2>1, <1>3
<1>15. priv <=> InBlock(a, b)
  BY Zenon, <1>1, PrivateIsInBlock
<1> HIDE DEF priv, s1, s2, s3, s4, s5, s6, s7
<1>16. \A h \in {s1, s2, s3, s4, s5, s6, s7} : IsBlockedSsrfHost(h) <=> priv
  BY Zenon, <1>11, <1>12, <1>13, <1>14
<1>17. \A h \in Spellings(a, b, c, d) : IsBlockedSsrfHost(h) <=> InBlock(a, b)
  BY SMT, <1>2, <1>15, <1>16
<1> QED BY Zenon, <1>11, <1>15, <1>17 DEF s7, SpelledAlike

(* However a page spells an address, isBlockedSsrfHost refuses it exactly  *)
(* when its first two octets lie in one of the blocks that isPrivateV4's   *)
(* comments name; from SpellingsAgree, since no request changes the        *)
(* address that is compared (ClassifiedByAddress).                         *)
THEOREM AlwaysClassified == EgressSpec => []ClassifiedByAddress
<1> DEFINE Inv == EgressInv /\ egress.address \in Addresses
<1>1. (\E a \in Addresses : EgressInit(a)) => Inv
  <2> SUFFICES ASSUME NEW a \in Addresses, EgressInit(a) PROVE Inv
    OBVIOUS
  <2>1. egress.address = a
    BY DEF EgressInit
  <2> QED BY <2>1, EgressInitInv
<1>2. Inv /\ [EgressNext]_egress => Inv'
  <2> SUFFICES ASSUME Inv, [EgressNext]_egress PROVE Inv'
    OBVIOUS
  <2>1. EgressInv'
    BY EgressStep
  <2>2. egress'.address = egress.address
    <3>1. CASE UNCHANGED egress
      BY <3>1
    <3>2. CASE Respond
      BY <3>2 DEF Respond, EgressInv, EgressShape
    <3>3. ASSUME NEW to \in EgressHosts, Follow(to) PROVE egress'.address = egress.address
      BY <3>3 DEF Follow, EgressInv, EgressShape
    <3>4. ASSUME NEW kind, NEW allow, NEW h, NEW method, NEW body, FetchPrep(kind, allow, h, method, body)
          PROVE  egress'.address = egress.address
      BY <3>4 DEF FetchPrep, EgressInv, EgressShape
    <3> QED BY <3>1, <3>2, <3>3, <3>4 DEF EgressNext
  <2> QED BY <2>1, <2>2
<1>3. Inv => ClassifiedByAddress
  <2> DEFINE a == egress.address  x == a[1]  y == a[2]
  <2> SUFFICES ASSUME a \in Addresses, a # NoAddress
               PROVE  \A h \in Spellings(x, y, 0, 1) : IsBlockedSsrfHost(h) <=> InBlock(x, y)
    BY Zenon DEF ClassifiedByAddress
  <2>1. x \in Octet /\ y \in Octet
    <3>1. a \in (0..255) \X (0..255)
      BY SMT DEF Addresses
    <3> QED BY SMT, <3>1 DEF Octet
  <2>2. 0 \in Octet /\ 1 \in Octet
    BY SMT DEF Octet
  <2> HIDE DEF x, y
  <2>3. SpelledAlike(x, y, 0, 1)
    BY Zenon, <2>1, <2>2, SpellingsAgree
  <2> QED BY Zenon, <2>3 DEF SpelledAlike
<1> QED BY <1>1, <1>2, <1>3, PTL DEF EgressSpec

-----------------------------------------------------------------------------
(* SessionSetup, while every connection of a session sends the config it   *)
(* was created with.                                                       *)

(* No opt-in module but the one the config names.                          *)
ModulesFit(mods, cfg) ==
    \A n \in mods :
        n = cfg.modules \/ \E cat \in Catalogs : n \in cat.defaults \ cat.optIn
          \/ (cfg.modules = "all" /\ n \notin cat.optIn)

HeapShape(h) ==
    h = [mods |-> h.mods, wraps |-> h.wraps, names |-> h.names, meta |-> h.meta, fs |-> h.fs, base |-> h.base]

SetupShape ==
    /\ setup = [catalog |-> setup.catalog, config |-> setup.config, glue |-> setup.glue, heap |-> setup.heap,
                saved |-> setup.saved, stored |-> setup.stored]
    /\ setup.catalog \in Catalogs /\ setup.config.limit \in Int

(* A live kernel is as its config says; what a snapshot holds of it is     *)
(* what a restore seeds on: one wrapper, and modules that fit.             *)
SetupInv ==
    /\ SetupShape
    /\ setup.glue.on =>
          /\ setup.glue = ApplyConfig(setup.config) /\ HeapShape(setup.heap)
          /\ setup.heap.base = 0 /\ setup.heap.wraps = 1 /\ setup.heap.names = setup.config.tools
          /\ setup.heap.fs = setup.config.fs /\ setup.heap.meta = setup.catalog.available
          /\ ModulesFit(setup.heap.mods, setup.config)
    /\ setup.stored =>
          /\ HeapShape(setup.saved) /\ setup.saved.base = 0
          /\ ModulesFit(setup.saved.mods, setup.config)

(* A limit may be lowered, to no less than one call.                       *)
LEMMA CallsBounded == \A limit \in Int : CallsPerCell(limit) \in 1..ExtMaxCalls
BY SetupAssumption DEF CallsPerCell

(* What the stdlib injection selects fits the config.                      *)
LEMMA InjectFits ==
    ASSUME NEW cfg, NEW cat \in Catalogs, NEW skipped
    PROVE  ModulesFit(ResolveStdlibModules(cfg.modules, cat) \ skipped, cfg)
<1>1. cat.defaults \cap cat.optIn = {}
  BY SetupAssumption
<1>2. CASE cfg.modules = "none"
  BY <1>2 DEF ModulesFit, ResolveStdlibModules
<1>3. CASE cfg.modules = "all"
  BY <1>3 DEF ModulesFit, ResolveStdlibModules
<1>4. CASE cfg.modules = "default"
  BY <1>1, <1>4 DEF ModulesFit, ResolveStdlibModules
<1>5. CASE cfg.modules \notin {"none", "all", "default"}
  BY <1>1, <1>5 DEF ModulesFit, ResolveStdlibModules
<1> QED BY <1>2, <1>3, <1>4, <1>5

(* Seeding a fresh heap, or one that was seeded before.                    *)
LEMMA SeedResult ==
    ASSUME NEW h, HeapShape(h), NEW cfg, NEW cat, (h.base = -1 /\ h.wraps = 0) \/ h.base = 0
    PROVE  LET s == Seed(h, cfg, cat) IN
           /\ HeapShape(s) /\ s.base = 0 /\ s.wraps = 1 /\ s.names = cfg.tools
           /\ s.fs = cfg.fs /\ s.meta = cat.available /\ s.mods = h.mods
<1> DEFINE a == ApplyFsProvider(h, cfg)
           b == SeedStdlibMeta(a, cat)
<1>1. HeapShape(a) /\ a.fs = cfg.fs /\ a.mods = h.mods /\ a.base = h.base /\ a.wraps = h.wraps
  BY DEF ApplyFsProvider, HeapShape
<1> HIDE DEF a
<1>2. /\ HeapShape(b) /\ b.fs = cfg.fs /\ b.mods = h.mods /\ b.base = h.base /\ b.wraps = h.wraps
      /\ b.meta = cat.available
  BY <1>1 DEF SeedStdlibMeta, HeapShape
<1> HIDE DEF b
<1>3. Seed(h, cfg, cat) = SeedExtMeta(b, cfg)
  BY DEF Seed, a, b
<1> DEFINE base == IF b.base = -1 THEN b.wraps ELSE b.base
           c == [b EXCEPT !.base = base]
           d == [c EXCEPT !.wraps = base + 1]
           e == [d EXCEPT !.names = cfg.tools]
<1>4. base = 0 /\ base + 1 = 1
  BY <1>2
<1>5. Seed(h, cfg, cat) = e
  BY <1>3 DEF SeedExtMeta
<1> HIDE DEF base, e
<1>6. HeapShape(c) /\ c.base = base /\ c.fs = b.fs /\ c.meta = b.meta /\ c.mods = b.mods
  BY <1>2 DEF HeapShape
<1> HIDE DEF c
<1>7. HeapShape(d) /\ d.wraps = base + 1 /\ d.base = c.base /\ d.fs = c.fs /\ d.meta = c.meta /\ d.mods = c.mods
  BY <1>6 DEF HeapShape
<1> HIDE DEF d
<1>8. /\ HeapShape(e) /\ e.names = cfg.tools /\ e.wraps = d.wraps /\ e.base = d.base /\ e.fs = d.fs
      /\ e.meta = d.meta /\ e.mods = d.mods
  BY <1>7 DEF HeapShape, e
<1> QED BY <1>2, <1>4, <1>5, <1>6, <1>7, <1>8

(* A kernel that comes up from a heap h under the present config.          *)
LEMMA ComesUp ==
    ASSUME SetupInv, NEW h, HeapShape(h), (h.base = -1 /\ h.wraps = 0) \/ h.base = 0,
           ModulesFit(h.mods, setup.config),
           setup' = [setup EXCEPT !.glue = ApplyConfig(setup.config),
                                  !.heap = Seed(h, setup.config, setup.catalog)]
    PROVE  SetupInv'
<1> DEFINE s == Seed(h, setup.config, setup.catalog)
<1>1. /\ HeapShape(s) /\ s.base = 0 /\ s.wraps = 1 /\ s.names = setup.config.tools
      /\ s.fs = setup.config.fs /\ s.meta = setup.catalog.available /\ s.mods = h.mods
  BY SeedResult
<1> HIDE DEF s
<1>2. /\ SetupShape' /\ setup'.glue = ApplyConfig(setup.config) /\ setup'.heap = s
      /\ setup'.config = setup.config /\ setup'.catalog = setup.catalog
      /\ setup'.saved = setup.saved /\ setup'.stored = setup.stored
  BY DEF SetupInv, SetupShape, s
<1> QED BY <1>1, <1>2 DEF SetupInv

LEMMA FreshHeap ==
    ASSUME SetupInv, NEW skipped
    PROVE  LET h == [Bare EXCEPT !.mods = Inject(setup.config, skipped)] IN
           HeapShape(h) /\ h.base = -1 /\ h.wraps = 0 /\ ModulesFit(h.mods, setup.config)
<1>1. ModulesFit(Inject(setup.config, skipped), setup.config)
  BY InjectFits DEF Inject, SetupInv, SetupShape
<1> QED BY <1>1 DEF Bare, HeapShape

LEMMA SetupStep == ASSUME ~Reconfigure, SetupInv, SetupNext PROVE SetupInv'
<1>1. ASSUME NEW cfg \in Configs, CreateFrame(cfg) PROVE SetupInv'
  <2>1. CASE setup.config = cfg
    <3>1. setup' = setup
      BY <1>1, <2>1 DEF CreateFrame, SetupInv, SetupShape
    <3> QED BY <3>1 DEF SetupInv, SetupShape
  <2>2. CASE ~setup.glue.on /\ ~setup.stored
    <3>1. /\ SetupShape' /\ setup'.glue = setup.glue /\ setup'.stored = setup.stored
      BY <1>1, SetupAssumption DEF CreateFrame, SetupInv, SetupShape
    <3> QED BY <2>2, <3>1 DEF SetupInv
  <2> QED BY <1>1, <2>1, <2>2 DEF CreateFrame
<1>2. ASSUME NEW skipped, CreateFresh(skipped) \/ ReplaySeeds(skipped) PROVE SetupInv'
  <2> DEFINE h == [Bare EXCEPT !.mods = Inject(setup.config, skipped)]
  <2>1. HeapShape(h) /\ h.base = -1 /\ h.wraps = 0 /\ ModulesFit(h.mods, setup.config)
    BY FreshHeap
  <2>2. setup' = [setup EXCEPT !.glue = ApplyConfig(setup.config), !.heap = Seed(h, setup.config, setup.catalog)]
    BY <1>2 DEF CreateFresh, ReplaySeeds
  <2> HIDE DEF h
  <2> QED BY <2>1, <2>2, ComesUp
<1>3. CASE Save
  <2>1. /\ SetupShape' /\ setup'.glue = setup.glue /\ setup'.heap = setup.heap /\ setup'.config = setup.config
        /\ setup'.catalog = setup.catalog /\ setup'.saved = setup.heap /\ setup.glue.on
    BY <1>3 DEF Save, SetupInv, SetupShape
  <2> QED BY <2>1 DEF SetupInv
<1>4. CASE Lose
  <2>1. /\ SetupShape' /\ ~setup'.glue.on /\ setup'.config = setup.config
        /\ setup'.saved = setup.saved /\ setup'.stored = setup.stored
    BY <1>4 DEF Lose, SetupInv, SetupShape, Off
  <2> QED BY <2>1 DEF SetupInv
<1>5. CASE RestoreSeeds
  BY <1>5, ComesUp DEF RestoreSeeds, SetupInv
<1>6. ASSUME NEW cat \in Catalogs, Deploy(cat) PROVE SetupInv'
  <2>1. /\ SetupShape' /\ ~setup'.glue.on /\ setup'.config = setup.config
        /\ setup'.saved = setup.saved /\ setup'.stored = setup.stored
    BY <1>6 DEF Deploy, SetupInv, SetupShape
  <2> QED BY <2>1 DEF SetupInv
<1> QED BY <1>1, <1>2, <1>3, <1>4, <1>5, <1>6 DEF SetupNext

(* Created, restored or replayed after a deploy, a kernel enforces its     *)
(* session's config; for any builds and configs (ConfigSurvivesWake).      *)
THEOREM ConfigAlwaysSurvives == ASSUME ~Reconfigure PROVE SetupSpec => []ConfigSurvivesWake
<1>1. (\E cat \in Catalogs : SetupInit(cat)) => SetupInv
  BY DEF SetupInit, SetupInv, SetupShape, NoConfig, Off
<1>2. SetupInv /\ [SetupNext]_setup => SetupInv'
  <2>1. SetupInv /\ UNCHANGED setup => SetupInv'
    BY DEF SetupInv, SetupShape
  <2> QED BY <2>1, SetupStep
<1>3. SetupInv => ConfigSurvivesWake
  <2> SUFFICES ASSUME SetupInv, setup.glue.on PROVE ConfigSurvivesWake
    BY DEF ConfigSurvivesWake
  <2>1. /\ setup.glue.allow = setup.config.fetch /\ setup.glue.ts = setup.config.typescript
        /\ setup.glue.calls \in 1..ExtMaxCalls /\ setup.glue.tools = setup.config.tools
    BY CallsBounded DEF SetupInv, SetupShape, ApplyConfig
  <2> QED BY <2>1 DEF SetupInv, ConfigSurvivesWake, ModulesFit
<1> QED BY <1>1, <1>2, <1>3, PTL DEF SetupSpec

-----------------------------------------------------------------------------
(* EngramFs.                                                               *)

CallShape(c) == c = [pc |-> c.pc, rel |-> c.rel, body |-> c.body, todo |-> c.todo, flush |-> c.flush,
                     landed |-> c.landed]

FsShape ==
    /\ fs = [probe |-> fs.probe, foreign |-> fs.foreign, cwd |-> fs.cwd, staged |-> fs.staged,
             bucket |-> fs.bucket, rows |-> fs.rows, version |-> fs.version, calls |-> fs.calls,
             torn |-> fs.torn, made |-> fs.made, seen |-> fs.seen]
    /\ DOMAIN fs.calls = FsCallers /\ \A c \in FsCallers : CallShape(fs.calls[c])
    /\ DOMAIN fs.seen = Files /\ DOMAIN fs.bucket = Files /\ fs.version \in Int

(* No reader has seen a version that is yet to come: the bump with which   *)
(* every write ends is therefore new to all of them.  A body read under    *)
(* the present version that is not the body any more was changed by a call *)
(* that runs, or by one that rejected.                                     *)
SeenInv == \A f \in Files : fs.seen[f].version \in Int /\ fs.seen[f].version <= fs.version
LandedInv == \A c \in FsCallers : fs.calls[c].pc = "idle" => fs.calls[c].landed = {}
Accounted(f) == f \in fs.torn \/ \E c \in FsCallers : f \in fs.calls[c].landed
StaleInv == ~fs.foreign => \A f \in Files : Fresh(f) \/ Accounted(f)

CacheInv == FsShape /\ SeenInv /\ LandedInv /\ StaleInv

(* A step with which the version rises leaves every cached body behind.    *)
LEMMA VersionRises ==
    ASSUME CacheInv, fs'.version = fs.version + 1, fs'.seen = fs.seen
    PROVE  SeenInv' /\ StaleInv'
BY DEF CacheInv, FsShape, SeenInv, StaleInv, Fresh

(* A step that changes nothing a reader sees, and hides nothing changed.   *)
LEMMA NoObjectTouched ==
    ASSUME CacheInv, fs'.version = fs.version, fs'.seen = fs.seen, fs'.bucket = fs.bucket,
           fs'.foreign = fs.foreign, \A f \in Files : Accounted(f) => Accounted(f)'
    PROVE  SeenInv' /\ StaleInv'
BY DEF CacheInv, SeenInv, StaleInv, Fresh

(* One caller's call goes on.                                              *)
LEMMA CallMoves ==
    ASSUME CacheInv, NEW c \in FsCallers, NEW call, CallShape(call),
           call.pc = "idle" => call.landed = {},
           fs'.calls = [fs.calls EXCEPT ![c] = call]
    PROVE  /\ DOMAIN fs'.calls = FsCallers /\ \A d \in FsCallers : CallShape(fs'.calls[d])
           /\ fs'.calls[c] = call /\ LandedInv'
           /\ fs'.torn = fs.torn /\ fs.calls[c].landed \subseteq call.landed
                => \A f \in Files : Accounted(f) => Accounted(f)'
<1>1. /\ DOMAIN fs'.calls = FsCallers /\ fs'.calls[c] = call
      /\ \A d \in FsCallers : fs'.calls[d] = IF d = c THEN call ELSE fs.calls[d]
  BY DEF CacheInv, FsShape
<1> QED BY <1>1 DEF CacheInv, FsShape, LandedInv, Accounted

(* The call has changed an object: that file is the call's.                *)
LEMMA ObjectLands ==
    ASSUME CacheInv, NEW c \in FsCallers, NEW key, NEW body,
           fs' = [fs EXCEPT !.bucket = [fs.bucket EXCEPT ![key] = body],
                            !.calls = [fs.calls EXCEPT ![c] = Lands(fs.calls[c], key)]]
    PROVE  CacheInv'
<1> USE DEF CacheInv
<1> DEFINE call == Lands(fs.calls[c], key)
<1>1. CallShape(fs.calls[c])
  BY DEF FsShape
<1>2. CallShape(call) /\ call.pc = "upsert" /\ call.landed = fs.calls[c].landed \cup {key}
  <2> DEFINE old == fs.calls[c]
             more == old.landed \cup {key}
  <2>1. call = [[old EXCEPT !.pc = "upsert"] EXCEPT !.landed = more]
    BY <1>1 DEF CallShape, Lands
  <2> HIDE DEF call, old, more
  <2>2. CallShape(old)
    BY <1>1 DEF old
  <2>3. CallShape(call) /\ call.pc = "upsert" /\ call.landed = more
    BY <2>1, <2>2 DEF CallShape
  <2> QED BY <2>3 DEF old, more
<1> HIDE DEF call
<1>3. /\ fs'.calls = [fs.calls EXCEPT ![c] = call] /\ fs'.version = fs.version /\ fs'.seen = fs.seen
      /\ fs'.torn = fs.torn /\ fs'.foreign = fs.foreign
      /\ fs'.bucket = [fs.bucket EXCEPT ![key] = body]
  BY DEF FsShape, call
<1>4. /\ DOMAIN fs'.calls = FsCallers /\ \A d \in FsCallers : CallShape(fs'.calls[d])
      /\ fs'.calls[c] = call /\ LandedInv' /\ \A f \in Files : Accounted(f) => Accounted(f)'
  BY <1>2, <1>3, CallMoves
<1>5. FsShape'
  <2>1. fs' = [fs EXCEPT !.bucket = fs'.bucket, !.calls = fs'.calls]
    BY <1>3 DEF call
  <2>2. DOMAIN fs'.bucket = Files
    BY <1>3 DEF FsShape
  <2> QED BY <1>3, <1>4, <2>1, <2>2 DEF FsShape
<1>6. \A f \in Files : Fresh(f)' \/ Accounted(f)' \/ (~Fresh(f) /\ ~Accounted(f))
  <2> SUFFICES ASSUME NEW f \in Files PROVE Fresh(f)' \/ Accounted(f)' \/ (~Fresh(f) /\ ~Accounted(f))
    OBVIOUS
  <2>1. CASE f = key
    BY <1>2, <1>4, <2>1 DEF Accounted
  <2>2. CASE f # key
    <3>1. fs'.bucket[f] = fs.bucket[f]
      BY <1>3, <2>2 DEF FsShape
    <3> QED BY <1>3, <1>4, <3>1 DEF Fresh
  <2> QED BY <2>1, <2>2
<1> QED BY <1>3, <1>4, <1>5, <1>6 DEF SeenInv, StaleInv

(* The version rises, and nothing is anyone's any more.                    *)
LEMMA SettledCalls ==
    ASSUME CacheInv
    PROVE  /\ DOMAIN Settled = FsCallers
           /\ \A c \in FsCallers : CallShape(Settled[c]) /\ Settled[c].landed = {}
<1>1. \A c \in FsCallers : CallShape(fs.calls[c])
  BY DEF CacheInv, FsShape
<1>2. ASSUME NEW call, CallShape(call)
      PROVE  CallShape([call EXCEPT !.landed = {}]) /\ [call EXCEPT !.landed = {}].landed = {}
  BY <1>2 DEF CallShape
<1> HIDE DEF CallShape
<1> QED BY <1>1, <1>2 DEF Settled

LEMMA CacheStep == ASSUME CacheInv, FsNext PROVE CacheInv'
<1> USE DEF CacheInv
<1>1. ASSUME NEW c \in FsCallers, NEW call, CallShape(call), call.pc # "idle",
             fs.calls[c].landed \subseteq call.landed, NEW manifest, NEW made,
             fs' = [fs EXCEPT !.calls = [fs.calls EXCEPT ![c] = call], !.rows = manifest, !.made = made]
      PROVE  CacheInv'
  <2>1. /\ fs'.calls = [fs.calls EXCEPT ![c] = call] /\ fs'.version = fs.version /\ fs'.seen = fs.seen
        /\ fs'.bucket = fs.bucket /\ fs'.torn = fs.torn /\ fs'.foreign = fs.foreign
    BY <1>1 DEF FsShape
  <2>2. /\ DOMAIN fs'.calls = FsCallers /\ \A d \in FsCallers : CallShape(fs'.calls[d])
        /\ LandedInv' /\ \A f \in Files : Accounted(f) => Accounted(f)'
    BY <1>1, <2>1, CallMoves
  <2>3. FsShape'
    BY <1>1, <2>1, <2>2 DEF FsShape
  <2> QED BY <2>1, <2>2, <2>3, NoObjectTouched
<1>2. ASSUME NEW c \in FsCallers, NEW p \in FsPaths, WriteDirect(c, p) PROVE CacheInv'
  <2> DEFINE call == [pc |-> "put", rel |-> Resolve(p, fs.cwd), body |-> fs.made + 1, todo |-> <<>>,
                      flush |-> FALSE, landed |-> {}]
  <2>1. CallShape(call) /\ call.pc # "idle" /\ call.landed = {}
    BY DEF CallShape
  <2>2. fs' = [fs EXCEPT !.calls = [fs.calls EXCEPT ![c] = call], !.rows = fs.rows, !.made = fs.made + 1]
    BY <1>2 DEF WriteDirect, Moves, FsShape
  <2>3. fs.calls[c].landed = {}
    BY <1>2 DEF WriteDirect, Starts, LandedInv
  <2> HIDE DEF call
  <2> QED BY <1>1, <2>1, <2>2, <2>3
<1>3. ASSUME NEW c \in FsCallers, FlushStaged(c) PROVE CacheInv'
  <2> DEFINE order == SetToSeq({[rel |-> f, body |-> fs.staged[f]] : f \in {f \in Files : fs.staged[f] # 0}})
             call == [pc |-> "put", rel |-> Head(order).rel, body |-> Head(order).body,
                      todo |-> Tail(order), flush |-> TRUE, landed |-> {}]
  <2> HIDE DEF order
  <2>1. CallShape(call) /\ call.pc # "idle" /\ call.landed = {}
    BY DEF CallShape
  <2>2. fs' = [fs EXCEPT !.calls = [fs.calls EXCEPT ![c] = call], !.rows = fs.rows, !.made = fs.made + 1]
    BY <1>3 DEF FlushStaged, Moves, FsShape, order
  <2>3. fs.calls[c].landed = {}
    BY <1>3 DEF FlushStaged, Starts, LandedInv
  <2> HIDE DEF call
  <2> QED BY <1>1, <2>1, <2>2, <2>3
<1>4. ASSUME NEW c \in FsCallers, Put(c) PROVE CacheInv'
  <2> DEFINE key == LiveKey(fs.calls[c].rel)
             body == fs.calls[c].body
  <2>1. fs' = [fs EXCEPT !.bucket = [fs.bucket EXCEPT ![key] = body],
                         !.calls = [fs.calls EXCEPT ![c] = Lands(fs.calls[c], key)]]
    BY <1>4 DEF Put, FsShape
  <2> HIDE DEF key, body
  <2> QED BY <2>1, ObjectLands
<1>5. ASSUME NEW c \in FsCallers, Unput(c) PROVE CacheInv'
  <2> DEFINE key == fs.calls[c].rel
  <2>1. fs' = [fs EXCEPT !.bucket = [fs.bucket EXCEPT ![key] = 0],
                         !.calls = [fs.calls EXCEPT ![c] = Lands(fs.calls[c], key)]]
    BY <1>5 DEF Unput, FsShape
  <2> HIDE DEF key
  <2> QED BY <2>1, ObjectLands
<1>6. ASSUME NEW c \in FsCallers, Upsert(c) PROVE CacheInv'
  <2> DEFINE old == fs.calls[c]
             call == IF old.todo = <<>> THEN [old EXCEPT !.pc = "bump"] ELSE NextWrite(old)
             manifest == [fs.rows EXCEPT ![old.rel] = old.body]
  <2>1. CallShape(old)
    BY DEF FsShape
  <2>2. CallShape(call) /\ call.pc # "idle" /\ call.landed = old.landed
    <3> HIDE DEF old
    <3> QED BY <2>1 DEF CallShape, NextWrite
  <2>3. fs' = [fs EXCEPT !.calls = [fs.calls EXCEPT ![c] = call], !.rows = manifest, !.made = fs.made]
    BY <1>6 DEF Upsert, FsShape
  <2> HIDE DEF call, manifest
  <2> QED BY <1>1, <2>2, <2>3
<1>7. ASSUME NEW c \in FsCallers, Bump(c) PROVE CacheInv'
  <2> DEFINE calls == [Settled EXCEPT ![c] = Rest]
             staged == StagedAfter(fs.calls[c])
  <2>1. fs' = [fs EXCEPT !.version = fs.version + 1, !.torn = {}, !.calls = calls, !.staged = staged]
    BY <1>7 DEF Bump, FsShape
  <2>2. CallShape(Rest) /\ Rest.landed = {}
    BY DEF CallShape, Rest
  <2>3. DOMAIN calls = FsCallers /\ \A d \in FsCallers : CallShape(calls[d]) /\ calls[d].landed = {}
    BY <2>2, SettledCalls
  <2> HIDE DEF calls, staged
  <2>4. /\ fs'.version = fs.version + 1 /\ fs'.seen = fs.seen /\ fs'.version \in Int /\ fs'.calls = calls
        /\ fs'.bucket = fs.bucket
    BY <2>1 DEF FsShape
  <2>5. FsShape' /\ LandedInv'
    BY <2>1, <2>3, <2>4 DEF FsShape, LandedInv
  <2> QED BY <2>4, <2>5, VersionRises
<1>8. ASSUME NEW c \in FsCallers, Rejects(c) PROVE CacheInv'
  <2> DEFINE staged == StagedAfter(fs.calls[c])
  <2>1. fs' = [fs EXCEPT !.calls = [fs.calls EXCEPT ![c] = Rest],
                         !.torn = fs.torn \cup fs.calls[c].landed, !.staged = staged]
    BY <1>8 DEF Rejects, FsShape
  <2> HIDE DEF staged
  <2>2. /\ fs'.calls = [fs.calls EXCEPT ![c] = Rest] /\ fs'.version = fs.version /\ fs'.seen = fs.seen
        /\ fs'.bucket = fs.bucket /\ fs'.foreign = fs.foreign
        /\ fs'.torn = fs.torn \cup fs.calls[c].landed
    BY <2>1 DEF FsShape
  <2>3. CallShape(Rest) /\ Rest.landed = {}
    BY DEF CallShape, Rest
  <2>4. /\ DOMAIN fs'.calls = FsCallers /\ \A d \in FsCallers : CallShape(fs'.calls[d]) /\ LandedInv'
    BY <2>2, <2>3, CallMoves
  <2>5. FsShape'
    BY <2>1, <2>2, <2>4 DEF FsShape
  <2>6. \A f \in Files : Accounted(f) => Accounted(f)'
    BY <2>2 DEF Accounted, FsShape
  <2> QED BY <2>2, <2>4, <2>5, <2>6, NoObjectTouched
<1>9. ASSUME NEW c \in FsCallers, NEW p \in FsPaths, DeleteFile(c, p) PROVE CacheInv'
  <2> DEFINE rel == Resolve(p, fs.cwd)
             call == IF fs.rows[rel] = 0 THEN Rest
                     ELSE [pc |-> "unput", rel |-> rel, body |-> 0, todo |-> <<>>, flush |-> FALSE,
                           landed |-> {}]
  <2> HIDE DEF rel
  <2>1. CallShape(call) /\ call.landed = {}
    BY DEF CallShape, Rest
  <2>2. PICK staged : fs' = [fs EXCEPT !.calls = [fs.calls EXCEPT ![c] = call], !.made = fs.made + 1,
                                      !.staged = staged]
    BY <1>9 DEF DeleteFile, Moves, FsShape, rel
  <2>3. fs.calls[c].landed = {}
    BY <1>9 DEF DeleteFile, Starts, LandedInv
  <2> HIDE DEF call
  <2>4. /\ fs'.calls = [fs.calls EXCEPT ![c] = call] /\ fs'.version = fs.version /\ fs'.seen = fs.seen
        /\ fs'.bucket = fs.bucket /\ fs'.foreign = fs.foreign /\ fs'.torn = fs.torn
    BY <2>2 DEF FsShape
  <2>5. /\ DOMAIN fs'.calls = FsCallers /\ \A d \in FsCallers : CallShape(fs'.calls[d])
        /\ LandedInv' /\ \A f \in Files : Accounted(f) => Accounted(f)'
    BY <2>1, <2>3, <2>4, CallMoves
  <2>6. FsShape'
    BY <2>2, <2>4, <2>5 DEF FsShape
  <2> QED BY <2>4, <2>5, <2>6, NoObjectTouched
<1>10. ASSUME fs'.calls = fs.calls, fs'.torn = fs.torn
       PROVE  LandedInv' /\ \A f \in Files : Accounted(f) => Accounted(f)'
  BY <1>10 DEF LandedInv, Accounted
<1>11. ASSUME NEW p \in FsPaths, Chdir(p) \/ StageWrite(p) PROVE CacheInv'
  <2>1. /\ FsShape' /\ fs'.version = fs.version /\ fs'.seen = fs.seen /\ fs'.bucket = fs.bucket
        /\ fs'.calls = fs.calls /\ fs'.foreign = fs.foreign /\ fs'.torn = fs.torn
    BY <1>11 DEF Chdir, StageWrite, FsShape
  <2> QED BY <1>10, <2>1, NoObjectTouched
<1>12. CASE DiscardStaged
  <2>1. /\ FsShape' /\ fs'.version = fs.version /\ fs'.seen = fs.seen /\ fs'.bucket = fs.bucket
        /\ fs'.calls = fs.calls /\ fs'.foreign = fs.foreign /\ fs'.torn = fs.torn
    BY <1>12 DEF DiscardStaged, FsShape
  <2> QED BY <1>10, <2>1, NoObjectTouched
<1>13. ASSUME NEW p \in FsPaths, NEW body \in BOOLEAN, GatewayWrites(p, body) PROVE CacheInv'
  <2> DEFINE bucket == [fs.bucket EXCEPT ![Resolve(p, <<>>)] = IF body THEN fs.made + 1 ELSE 0]
  <2>1. fs' = [fs EXCEPT !.bucket = bucket, !.made = fs.made + 1, !.foreign = TRUE]
    BY <1>13 DEF GatewayWrites, FsShape
  <2>2. DOMAIN bucket = Files
    BY DEF FsShape
  <2> HIDE DEF bucket
  <2>3. /\ FsShape' /\ fs'.version = fs.version /\ fs'.seen = fs.seen /\ fs'.foreign
        /\ fs'.calls = fs.calls /\ fs'.torn = fs.torn
    BY <2>1, <2>2 DEF FsShape
  <2> QED BY <1>10, <2>3 DEF SeenInv, StaleInv
<1>14. CASE GatewayReconciled
  <2>1. fs' = [fs EXCEPT !.rows = fs.bucket, !.version = fs.version + 1, !.foreign = FALSE, !.torn = {},
                         !.calls = Settled]
    BY <1>14 DEF GatewayReconciled, FsShape
  <2>2. /\ fs'.version = fs.version + 1 /\ fs'.seen = fs.seen /\ fs'.version \in Int /\ fs'.calls = Settled
    BY <2>1 DEF FsShape
  <2>3. FsShape' /\ LandedInv'
    BY <2>1, <2>2, SettledCalls DEF FsShape, LandedInv
  <2> QED BY <2>2, <2>3, VersionRises
<1>15. ASSUME NEW f \in Files, ReadFile(f) PROVE CacheInv'
  <2> DEFINE r == [version |-> fs.version, body |-> fs.bucket[f]]
  <2>1. fs' = [fs EXCEPT !.seen = [fs.seen EXCEPT ![f] = r]]
    BY <1>15 DEF ReadFile, FsShape
  <2>2. /\ FsShape' /\ fs'.version = fs.version /\ fs'.bucket = fs.bucket /\ fs'.calls = fs.calls
        /\ fs'.foreign = fs.foreign /\ fs'.torn = fs.torn /\ fs'.seen = [fs.seen EXCEPT ![f] = r]
    BY <2>1 DEF FsShape
  <2>3. \A g \in Files : fs'.seen[g] = IF g = f THEN r ELSE fs.seen[g]
    BY <2>2 DEF FsShape
  <2>4. SeenInv'
    BY <2>2, <2>3 DEF SeenInv, FsShape
  <2>5. StaleInv'
    BY <1>10, <2>2, <2>3 DEF StaleInv, Fresh
  <2> QED BY <1>10, <2>2, <2>4, <2>5
<1> QED
  BY <1>2, <1>3, <1>4, <1>5, <1>6, <1>7, <1>8, <1>9, <1>11, <1>12, <1>13, <1>14, <1>15 DEF FsNext

LEMMA CacheInitInv == ASSUME NEW probe, FsInit(probe) PROVE CacheInv
<1>1. FsShape
  BY DEF FsInit, FsShape, CallShape, Rest
<1>2. SeenInv /\ LandedInv /\ StaleInv
  BY DEF FsInit, SeenInv, LandedInv, StaleInv, Fresh, Rest
<1> QED BY <1>1, <1>2 DEF CacheInv

LEMMA CacheUnchanged == CacheInv /\ UNCHANGED fs => CacheInv'
BY DEF CacheInv, FsShape, SeenInv, LandedInv, StaleInv, Fresh, Accounted

(* A cache keyed by fsVersion serves no stale body once the writes have    *)
(* returned, but for the files that a call which rejected half way had     *)
(* changed, until the version rises next: however the steps of any number  *)
(* of callers interleave, wherever they reject, and whatever keys their    *)
(* paths resolve to (CacheIsFresh).                                        *)
THEOREM CacheAlwaysFresh == FsSpec => []CacheIsFresh
<1>1. (\E probe \in {NoProbe} \cup Probes : FsInit(probe)) => CacheInv
  BY CacheInitInv
<1>2. CacheInv /\ [FsNext]_fs => CacheInv'
  BY CacheStep, CacheUnchanged
<1>3. CacheInv => CacheIsFresh
  BY DEF CacheInv, LandedInv, StaleInv, Accounted, CacheIsFresh, Returned
<1> QED BY <1>1, <1>2, <1>3, PTL DEF FsSpec

(* One segment more of a path.                                             *)
OneMore(out, seg) ==
    IF out = FsError \/ seg \in Here THEN out
    ELSE IF seg # Parent THEN Append(out, seg)
    ELSE IF out = <<>> THEN FsError ELSE Front(out)

Normalizes(G, segs) ==
    /\ G[0] = <<>>
    /\ \A k \in 0..(Len(segs) - 1) : G[k + 1] = OneMore(G[k], segs[k + 1])
    /\ NormalizeSegments(segs) = G[Len(segs)]

(* One more segment leaves a sequence of segments.                         *)
LEMMA OneMoreType ==
    ASSUME NEW A, NEW out \in Seq(A \cup {Parent}), NEW seg \in A
    PROVE  OneMore(out, seg) \in Seq(A \cup {Parent})
<1> DEFINE B == A \cup {Parent}
<1>1. FsError \in Seq(B)
  BY DEF FsError
<1>2. Append(out, seg) \in Seq(B)
  OBVIOUS
<1>3. out # <<>> => Front(out) \in Seq(B)
  <2>1. out # <<>> => Len(out) - 1 \in 0..Len(out)
    OBVIOUS
  <2> QED BY <2>1 DEF Front
<1> HIDE DEF B
<1>4. CASE out = FsError \/ seg \in Here
  BY <1>1, <1>4 DEF OneMore, B
<1>5. CASE ~(out = FsError \/ seg \in Here) /\ seg = Parent
  BY <1>1, <1>3, <1>5 DEF OneMore, B
<1>6. CASE ~(out = FsError \/ seg \in Here) /\ seg # Parent
  BY <1>2, <1>6 DEF OneMore, B
<1> QED BY <1>4, <1>5, <1>6

(* The fold of NormalizeSegments, one segment at a time.                   *)
LEMMA NormalizeUnfolds ==
    ASSUME NEW A, NEW segs \in Seq(A)
    PROVE  \E G : Normalizes(G, segs)
<1> DEFINE n == Len(segs)
           V == Seq(A \cup {Parent})
           step == [i \in 1..n |-> [x \in V |-> OneMore(x, segs[i])]]
           Sol(f) == f = [s \in SUBSET (DOMAIN segs) |->
                            IF s = {} THEN <<>> ELSE OneMore(f[s \ {Max(s)}], segs[Max(s)])]
           ch == CHOOSE f : Sol(f)
<1>1. NormalizeSegments(segs) = ch[DOMAIN segs]
  BY DEF NormalizeSegments, FoldLeft, MapThenFoldSet, OneMore
<1>2. DOMAIN segs = 1..n /\ n \in Nat /\ \A i \in 1..n : segs[i] \in A
  OBVIOUS
<1>3. step \in [1..n -> [V -> V]]
  <2>1. ASSUME NEW i \in 1..n, NEW x \in V PROVE OneMore(x, segs[i]) \in V
    BY <1>2, OneMoreType
  <2> HIDE DEF V
  <2> QED BY <2>1
<1>4. PICK it \in [SUBSET (1..n) -> V] : FoldsOver(it, n, <<>>, step)
  <2>1. <<>> \in V
    OBVIOUS
  <2> HIDE DEF V, step, n
  <2> QED BY <1>2, <1>3, <2>1, FoldExists
<1>5. Sol(it)
  <2>1. ASSUME NEW s \in SUBSET (1..n), s # {}
        PROVE  step[Max(s)][it[s \ {Max(s)}]] = OneMore(it[s \ {Max(s)}], segs[Max(s)])
    <3>1. Max(s) \in 1..n
      BY <1>2, <2>1, MaxOfNumbers
    <3>2. it[s \ {Max(s)}] \in V
      <4> HIDE DEF V
      <4> QED BY <1>4
    <3> HIDE DEF V
    <3> QED BY <3>1, <3>2
  <2>2. it = [s \in SUBSET (1..n) |-> IF s = {} THEN <<>> ELSE step[Max(s)][it[s \ {Max(s)}]]]
    BY <1>4 DEF FoldsOver
  <2> HIDE DEF step
  <2> QED BY <1>2, <2>1, <2>2
<1>6. Sol(ch)
  <2> HIDE DEF Sol
  <2> QED BY <1>5
<1> DEFINE G == [k \in 0..n |-> ch[1..k]]
<1>7. ASSUME NEW k \in 0..(n - 1)
      PROVE  G[k + 1] = OneMore(G[k], segs[k + 1])
  <2>1. 1..(k + 1) \in SUBSET (1..n) /\ k \in Nat
    BY <1>2
  <2>2. ch[1..(k + 1)] = OneMore(ch[1..k], segs[k + 1])
    <3> HIDE DEF ch, n
    <3> DEFINE s == 1..(k + 1)
    <3>1. s \in SUBSET (DOMAIN segs) /\ Max(s) = k + 1 /\ s # {} /\ s \ {k + 1} = 1..k
      BY <1>2, <2>1, FirstNumbers
    <3> HIDE DEF s
    <3>2. ch[s] = IF s = {} THEN <<>> ELSE OneMore(ch[s \ {Max(s)}], segs[Max(s)])
      BY <1>6, <3>1
    <3>3. ch[s] = OneMore(ch[1..k], segs[k + 1])
      BY <3>1, <3>2
    <3> QED BY <3>3 DEF s
  <2>3. k \in 0..n /\ k + 1 \in 0..n
    OBVIOUS
  <2> HIDE DEF ch
  <2> QED BY <2>2, <2>3
<1>8. G[0] = <<>>
  <2>1. 0 \in 0..n /\ 1..0 = {} /\ {} \in SUBSET (DOMAIN segs)
    BY <1>2
  <2> HIDE DEF ch
  <2> QED BY <1>6, <2>1
<1>9. NormalizeSegments(segs) = G[n]
  <2> HIDE DEF ch
  <2> QED BY <1>1, <1>2
<1> HIDE DEF G
<1>10. Normalizes(G, segs)
  BY <1>7, <1>8, <1>9 DEF Normalizes
<1> QED
  BY <1>10

Dots == Here \cup {Parent}

(* ".." is neither "" nor ".".                                             *)
LEMMA ParentIsNotHere == Parent \notin Here
BY Zenon DEF Parent, Here

Climbs(segs, k) == Cardinality({i \in 1..k : segs[i] = Parent})
Descents(segs, k) == Cardinality({i \in 1..k : segs[i] \notin Dots})

(* The ".." and the names among the first k segments, one by one.          *)
LEMMA CountsStep ==
    ASSUME NEW segs
    PROVE  /\ Climbs(segs, 0) = 0 /\ Descents(segs, 0) = 0
           /\ \A k \in Nat :
                /\ Climbs(segs, k) \in Nat /\ Descents(segs, k) \in Nat
                /\ Climbs(segs, k + 1) = IF segs[k + 1] = Parent THEN Climbs(segs, k) + 1
                                         ELSE Climbs(segs, k)
                /\ Descents(segs, k + 1) = IF segs[k + 1] \notin Dots
                                           THEN Descents(segs, k) + 1 ELSE Descents(segs, k)
<1>1. Climbs(segs, 0) = 0 /\ Descents(segs, 0) = 0
  <2>1. 1..0 = {}
    OBVIOUS
  <2> QED BY <2>1, FS_EmptySet DEF Climbs, Descents
<1>2. ASSUME NEW k \in Nat
      PROVE  /\ Climbs(segs, k) \in Nat /\ Descents(segs, k) \in Nat
             /\ Climbs(segs, k + 1) = IF segs[k + 1] = Parent THEN Climbs(segs, k) + 1
                                      ELSE Climbs(segs, k)
             /\ Descents(segs, k + 1) = IF segs[k + 1] \notin Dots
                                        THEN Descents(segs, k) + 1 ELSE Descents(segs, k)
  <2> DEFINE U(n) == {i \in 1..n : segs[i] = Parent}
             D(n) == {i \in 1..n : segs[i] \notin Dots}
  <2>1. IsFiniteSet(U(k)) /\ IsFiniteSet(D(k))
    <3>1. IsFiniteSet(1..k)
      BY FS_Interval
    <3> QED BY <3>1, FS_Subset
  <2>2. k + 1 \notin U(k) /\ k + 1 \notin D(k)
    OBVIOUS
  <2>3. U(k + 1) = IF segs[k + 1] = Parent THEN U(k) \cup {k + 1} ELSE U(k)
    OBVIOUS
  <2>4. D(k + 1) = IF segs[k + 1] \notin Dots THEN D(k) \cup {k + 1} ELSE D(k)
    OBVIOUS
  <2> HIDE DEF U, D
  <2>5. Cardinality(U(k)) \in Nat /\ Cardinality(D(k)) \in Nat
    BY <2>1, FS_CardinalityType
  <2>6. /\ Cardinality(U(k) \cup {k + 1}) = Cardinality(U(k)) + 1
        /\ Cardinality(D(k) \cup {k + 1}) = Cardinality(D(k)) + 1
    BY <2>1, <2>2, FS_AddElement
  <2>7. /\ Climbs(segs, k) = Cardinality(U(k)) /\ Climbs(segs, k + 1) = Cardinality(U(k + 1))
        /\ Descents(segs, k) = Cardinality(D(k)) /\ Descents(segs, k + 1) = Cardinality(D(k + 1))
    BY DEF Climbs, Descents, U, D
  <2> QED BY <2>3, <2>4, <2>5, <2>6, <2>7
<1> QED BY <1>1, <1>2

(* The counts of a prefix.                                                 *)
LEMMA CountsOfPrefix ==
    ASSUME NEW A, NEW segs \in Seq(A), NEW k \in 0..Len(segs)
    PROVE  Ups(SubSeq(segs, 1, k)) = Climbs(segs, k) /\ Names(SubSeq(segs, 1, k)) = Descents(segs, k)
<1>1. Len(SubSeq(segs, 1, k)) = k /\ \A i \in 1..k : SubSeq(segs, 1, k)[i] = segs[i]
  OBVIOUS
<1> DEFINE q == SubSeq(segs, 1, k)
<1> HIDE DEF q
<1>2. Len(q) = k /\ \A i \in 1..k : q[i] = segs[i]
  BY <1>1 DEF q
<1>3. /\ {i \in 1..Len(q) : q[i] = Parent} = {i \in 1..k : segs[i] = Parent}
      /\ {i \in 1..Len(q) : q[i] \notin Dots} = {i \in 1..k : segs[i] \notin Dots}
  BY <1>2
<1>4. Ups(q) = Climbs(segs, k) /\ Names(q) = Descents(segs, k)
  BY <1>3 DEF Ups, Names, Climbs, Descents, Dots
<1> QED BY <1>4 DEF q

Clean(s) == \A i \in 1..Len(s) : s[i] \notin Dots

(* A clean path is not the error.                                          *)
LEMMA CleanIsNoError == ASSUME NEW s, Clean(s) PROVE s # FsError
<1>1. 1 \in 1..Len(FsError) /\ FsError[1] = Parent
  BY DEF FsError
<1> QED BY <1>1 DEF Clean, Dots

(* A name appended to a clean path leaves it clean.                        *)
LEMMA AppendClean ==
    ASSUME NEW A, NEW s \in Seq(A), Clean(s), NEW g \in A, g \notin Dots
    PROVE  Append(s, g) \in Seq(A) /\ Clean(Append(s, g)) /\ Len(Append(s, g)) = Len(s) + 1
<1> DEFINE r == Append(s, g)  n == Len(s)
<1>1. /\ r \in Seq(A) /\ n \in Nat /\ Len(r) = n + 1
      /\ \A i \in 1..(n + 1) : r[i] = IF i = n + 1 THEN g ELSE s[i]
  OBVIOUS
<1>2. \A i \in 1..n : s[i] \notin Dots
  BY DEF Clean
<1> HIDE DEF r, n
<1>3. ASSUME NEW i \in 1..(n + 1) PROVE r[i] \notin Dots
  <2>1. i = n + 1 \/ i \in 1..n
    BY <1>1
  <2> QED BY <1>1, <1>2, <2>1
<1>4. Clean(r)
  BY <1>1, <1>3 DEF Clean
<1> QED BY <1>1, <1>4 DEF r, n

(* A clean path without its last segment is clean.                         *)
LEMMA FrontClean ==
    ASSUME NEW A, NEW s \in Seq(A), Clean(s), s # <<>>
    PROVE  Front(s) \in Seq(A) /\ Clean(Front(s)) /\ Len(Front(s)) = Len(s) - 1 /\ Len(s) >= 1
<1> DEFINE r == Front(s)  n == Len(s)
<1>1. n \in Nat /\ n >= 1
  OBVIOUS
<1>2. r \in Seq(A) /\ Len(r) = n - 1 /\ \A i \in 1..(n - 1) : r[i] = s[i]
  <2>1. r = SubSeq(s, 1, n - 1)
    BY DEF Front
  <2>2. n - 1 \in 0..n
    BY <1>1
  <2>3. SubSeq(s, 1, n - 1) \in Seq(A)
    BY <1>1
  <2>4. Len(SubSeq(s, 1, n - 1)) = n - 1
    <3> DEFINE m == n - 1
    <3>1. m \in Nat /\ m <= Len(s)
      BY <1>1
    <3> HIDE DEF m
    <3>2. Len(SubSeq(s, 1, m)) = m
      BY <3>1
    <3> QED BY <3>2 DEF m
  <2>5. \A i \in 1..(n - 1) : SubSeq(s, 1, n - 1)[i] = s[i]
    BY <1>1
  <2> QED BY <2>1, <2>3, <2>4, <2>5
<1>3. \A i \in 1..n : s[i] \notin Dots
  BY DEF Clean
<1> HIDE DEF r, n
<1>4. ASSUME NEW i \in 1..(n - 1) PROVE r[i] \notin Dots
  <2>1. i \in 1..n
    BY <1>1
  <2> QED BY <1>2, <1>3, <2>1
<1>5. Clean(r)
  BY <1>2, <1>4 DEF Clean
<1> QED BY <1>1, <1>2, <1>5 DEF r, n

(* Where the resolution of the first k segments stands.                    *)
Standing(out, A, segs, k) ==
    \/ out = FsError /\ \E i \in 0..k : Climbs(segs, i) > Descents(segs, i)
    \/ /\ out \in Seq(A) /\ Clean(out) /\ Len(out) = Descents(segs, k) - Climbs(segs, k)
       /\ \A i \in 0..k : Climbs(segs, i) <= Descents(segs, i)

(* One more segment: an error that has climbed out of the root, or a path. *)
LEMMA StandingStep ==
    ASSUME NEW A, NEW segs \in Seq(A), NEW k \in 0..(Len(segs) - 1), NEW out, Standing(out, A, segs, k)
    PROVE  Standing(OneMore(out, segs[k + 1]), A, segs, k + 1)
<1> DEFINE seg == segs[k + 1]  r == OneMore(out, seg)  c == Climbs(segs, k)  d == Descents(segs, k)
           cc == Climbs(segs, k + 1)  dd == Descents(segs, k + 1)
<1>1. k \in Nat /\ seg \in A /\ 0..(k + 1) = 0..k \cup {k + 1}
  OBVIOUS
<1>2. /\ c \in Nat /\ d \in Nat
      /\ cc = IF seg = Parent THEN c + 1 ELSE c
      /\ dd = IF seg \notin Dots THEN d + 1 ELSE d
  BY <1>1, CountsStep
<1>3. /\ Climbs(segs, k) = c /\ Descents(segs, k) = d
      /\ Climbs(segs, k + 1) = cc /\ Descents(segs, k + 1) = dd
  OBVIOUS
<1>4. r = IF out = FsError \/ seg \in Here THEN out
          ELSE IF seg # Parent THEN Append(out, seg)
          ELSE IF out = <<>> THEN FsError ELSE Front(out)
  BY DEF OneMore
<1> HIDE DEF seg, r, c, d, cc, dd
<1>a. (seg \in Here /\ seg # Parent /\ seg \in Dots) \/ (seg \notin Here /\ seg = Parent /\ seg \in Dots)
      \/ (seg \notin Here /\ seg # Parent /\ seg \notin Dots)
  BY ParentIsNotHere DEF Dots
<1>5. CASE out = FsError
  <2>1. r = FsError /\ ~Clean(out)
    BY <1>4, <1>5, CleanIsNoError
  <2>2. \E i \in 0..k : Climbs(segs, i) > Descents(segs, i)
    BY <2>1 DEF Standing
  <2>3. \E i \in 0..(k + 1) : Climbs(segs, i) > Descents(segs, i)
    BY <1>1, <2>2
  <2>4. Standing(r, A, segs, k + 1)
    BY <2>1, <2>3 DEF Standing
  <2> QED BY <2>4 DEF r, seg
<1>6. CASE out # FsError
  <2>1. /\ out \in Seq(A) /\ Clean(out) /\ Len(out) = d - c
        /\ \A i \in 0..k : Climbs(segs, i) <= Descents(segs, i)
    BY <1>3, <1>6 DEF Standing
  <2>2. c <= d
    <3>1. k \in 0..k
      BY <1>1
    <3> QED BY <1>3, <2>1, <3>1
  <2>3. ASSUME cc <= dd, r \in Seq(A), Clean(r), Len(r) = dd - cc
        PROVE  Standing(r, A, segs, k + 1)
    <3>1. \A i \in 0..(k + 1) : Climbs(segs, i) <= Descents(segs, i)
      BY <1>1, <1>3, <2>1, <2>3
    <3> QED BY <1>3, <2>3, <3>1 DEF Standing
  <2> DEFINE n == Len(out)
  <2>4. CASE seg \in Here
    <3>1. r = out /\ cc = c /\ dd = d
      BY <1>2, <1>4, <1>a, <2>4
    <3> QED BY <2>1, <2>2, <2>3, <3>1 DEF r, seg
  <2>5. CASE seg \notin Dots
    <3>1. r = Append(out, seg) /\ cc = c /\ dd = d + 1
      BY <1>2, <1>4, <1>6, <1>a, <2>5
    <3>2. r \in Seq(A) /\ Clean(r) /\ Len(r) = n + 1
      BY <1>1, <2>1, <2>5, <3>1, AppendClean
    <3>3. n = d - c
      BY <2>1
    <3> HIDE DEF n
    <3>4. cc <= dd /\ Len(r) = dd - cc
      BY <1>2, <2>2, <3>1, <3>2, <3>3
    <3> QED BY <2>3, <3>2, <3>4 DEF r, seg
  <2>6. CASE seg = Parent /\ out = <<>>
    <3>1. r = FsError /\ cc = c + 1 /\ dd = d
      BY <1>2, <1>4, <1>6, <1>a, <2>6
    <3>2. 0 = d - c
      BY <2>1, <2>6
    <3>3. cc > dd
      BY <1>2, <3>1, <3>2
    <3>4. \E i \in 0..(k + 1) : Climbs(segs, i) > Descents(segs, i)
      BY <1>1, <1>3, <3>3
    <3>5. Standing(r, A, segs, k + 1)
      BY <3>1, <3>4 DEF Standing
    <3> QED BY <3>5 DEF r, seg
  <2>7. CASE seg = Parent /\ out # <<>>
    <3>1. r = Front(out) /\ cc = c + 1 /\ dd = d
      BY <1>2, <1>4, <1>6, <1>a, <2>7
    <3>2. r \in Seq(A) /\ Clean(r) /\ Len(r) = n - 1 /\ n >= 1
      BY <2>1, <2>7, <3>1, FrontClean
    <3>3. n = d - c
      BY <2>1
    <3> HIDE DEF n
    <3>4. cc <= dd /\ Len(r) = dd - cc
      BY <1>2, <2>2, <3>1, <3>2, <3>3
    <3> QED BY <2>3, <3>2, <3>4 DEF r, seg
  <2> QED BY <1>a, <2>4, <2>5, <2>6, <2>7
<1> QED BY <1>5, <1>6

(* An error exactly when the path climbs out of the root on its way.       *)
LEMMA NormalizeStands ==
    ASSUME NEW A, NEW segs \in Seq(A)
    PROVE  Standing(NormalizeSegments(segs), A, segs, Len(segs))
<1> DEFINE n == Len(segs)
<1>1. PICK G : Normalizes(G, segs)
  BY NormalizeUnfolds
<1> DEFINE S == {k \in 0..n : Standing(G[k], A, segs, k)}
<1>2. n \in Nat
  OBVIOUS
<1>3. 0 \in S
  <2>1. G[0] = <<>> /\ Clean(<<>>) /\ <<>> \in Seq(A) /\ Len(<<>>) = 0
    BY <1>1 DEF Normalizes, Clean
  <2>2. Climbs(segs, 0) = 0 /\ Descents(segs, 0) = 0
    BY CountsStep
  <2>3. \A i \in 0..0 : Climbs(segs, i) <= Descents(segs, i)
    BY <2>2
  <2>4. Standing(<<>>, A, segs, 0)
    <3>1. 0 = Descents(segs, 0) - Climbs(segs, 0)
      BY <2>2
    <3> QED BY <2>1, <2>3, <3>1 DEF Standing
  <2> QED BY <1>2, <2>1, <2>4
<1>4. ASSUME NEW k \in 0..(n - 1), k \in S PROVE k + 1 \in S
  <2>1. Standing(OneMore(G[k], segs[k + 1]), A, segs, k + 1)
    BY <1>4, StandingStep
  <2>2. G[k + 1] = OneMore(G[k], segs[k + 1])
    BY <1>1 DEF Normalizes
  <2>3. k + 1 \in 0..n
    BY <1>2
  <2> QED BY <2>1, <2>2, <2>3
<1>5. 0..n \subseteq S
  <2> HIDE DEF S, n
  <2> QED BY <1>2, <1>3, <1>4, BoundedInduction
<1>6. n \in S
  BY <1>2, <1>5
<1> QED BY <1>1, <1>6 DEF Normalizes

Keeps(out, A, segs, m, k) ==
    /\ out \in Seq(A) /\ Clean(out)
    /\ k <= m => Len(out) = k
    /\ k >= m => Len(out) >= m
    /\ \A i \in 1..Len(out) : i <= m => out[i] = segs[i]

(* One more segment keeps the first m names.                               *)
LEMMA KeepsStep ==
    ASSUME NEW A, NEW segs \in Seq(A), NEW m \in 0..Len(segs),
           \A i \in 1..m : segs[i] \notin Dots, \A i \in 1..Len(segs) : segs[i] # Parent,
           NEW k \in 0..(Len(segs) - 1), NEW out, Keeps(out, A, segs, m, k)
    PROVE  Keeps(OneMore(out, segs[k + 1]), A, segs, m, k + 1)
<1> DEFINE seg == segs[k + 1]  r == OneMore(out, seg)  n == Len(out)
<1>1. k \in Nat /\ m \in Nat /\ seg \in A /\ seg # Parent /\ (k + 1 <= m => seg \notin Dots)
  OBVIOUS
<1>2. /\ out \in Seq(A) /\ Clean(out) /\ n \in Nat
      /\ k <= m => n = k
      /\ k >= m => n >= m
      /\ \A i \in 1..n : i <= m => out[i] = segs[i]
  BY DEF Keeps
<1>3. out # FsError
  BY <1>2, CleanIsNoError
<1>4. CASE seg \in Here
  <2>1. r = out /\ ~(k + 1 <= m)
    BY <1>1, <1>4 DEF OneMore, Dots
  <2> HIDE DEF seg, r, n
  <2>2. k >= m
    BY <1>1, <2>1
  <2>3. Len(r) = n /\ (k + 1 <= m => n = k + 1) /\ (k + 1 >= m => n >= m)
    BY <1>1, <1>2, <2>1, <2>2 DEF n
  <2>4. Keeps(r, A, segs, m, k + 1)
    BY <1>2, <2>1, <2>3 DEF Keeps
  <2> QED BY <2>4 DEF r, seg
<1>5. CASE seg \notin Here
  <2>1. r = Append(out, seg) /\ seg \notin Dots
    BY <1>1, <1>3, <1>5 DEF OneMore, Dots
  <2>2. r \in Seq(A) /\ Clean(r) /\ Len(r) = n + 1
    BY <1>1, <1>2, <2>1, AppendClean DEF Dots
  <2>3. \A i \in 1..(n + 1) : r[i] = IF i <= n THEN out[i] ELSE seg
    <3> HIDE DEF seg, r
    <3> QED BY <1>1, <1>2, <2>1
  <2> HIDE DEF r, n
  <2>4. (k + 1 <= m => n + 1 = k + 1) /\ (k + 1 >= m => n + 1 >= m)
    BY <1>1, <1>2
  <2>5. ASSUME NEW i \in 1..(n + 1), i <= m PROVE r[i] = segs[i]
    <3>1. CASE i <= n
      <4>1. i \in 1..n
        BY <1>2, <3>1
      <4> QED BY <1>2, <2>3, <2>5, <3>1, <4>1
    <3>2. CASE ~(i <= n)
      <4>1. i = n + 1
        BY <1>2, <3>2
      <4>2. k < m /\ n = k
        BY <1>1, <1>2, <2>5, <4>1
      <4> QED BY <2>3, <3>2, <4>1, <4>2
    <3> QED BY <3>1, <3>2
  <2>6. Keeps(r, A, segs, m, k + 1)
    BY <2>2, <2>4, <2>5 DEF Keeps
  <2> QED BY <2>6 DEF r
<1> QED BY <1>4, <1>5

(* A path without ".." keeps the m names it starts with.                   *)
LEMMA NormalizeKeeps ==
    ASSUME NEW A, NEW segs \in Seq(A), NEW m \in 0..Len(segs),
           \A i \in 1..m : segs[i] \notin Dots, \A i \in 1..Len(segs) : segs[i] # Parent
    PROVE  Keeps(NormalizeSegments(segs), A, segs, m, Len(segs))
<1> DEFINE n == Len(segs)
<1>1. PICK G : Normalizes(G, segs)
  BY NormalizeUnfolds
<1> DEFINE S == {k \in 0..n : Keeps(G[k], A, segs, m, k)}
<1>2. n \in Nat /\ m \in Nat
  OBVIOUS
<1>3. 0 \in S
  <2>1. Keeps(<<>>, A, segs, m, 0)
    <3>1. (0 <= m => Len(<<>>) = 0) /\ (0 >= m => Len(<<>>) >= m)
      BY <1>2
    <3> QED BY <3>1 DEF Keeps, Clean
  <2> QED BY <1>1, <1>2, <2>1 DEF Normalizes
<1>4. ASSUME NEW k \in 0..(n - 1), k \in S PROVE k + 1 \in S
  <2>1. Keeps(OneMore(G[k], segs[k + 1]), A, segs, m, k + 1)
    BY <1>4, KeepsStep
  <2>2. G[k + 1] = OneMore(G[k], segs[k + 1])
    BY <1>1 DEF Normalizes
  <2>3. k + 1 \in 0..n
    BY <1>2
  <2> QED BY <2>1, <2>2, <2>3
<1>5. 0..n \subseteq S
  <2> HIDE DEF S, n
  <2> QED BY <1>2, <1>3, <1>4, BoundedInduction
<1>6. n \in S
  BY <1>2, <1>5
<1> QED BY <1>1, <1>6 DEF Normalizes

(* A path that was resolved resolves to itself.                            *)
LEMMA ResolvedAgain ==
    ASSUME NEW A, NEW s \in Seq(A), Clean(s)
    PROVE  NormalizeSegments(s) = s /\ (s # <<>> => LiveKey(s) = s)
<1> DEFINE r == NormalizeSegments(s)  n == Len(s)
<1>1. \A i \in 1..n : s[i] \notin Dots
  BY DEF Clean
<1>2. n \in Nat /\ n \in 0..n /\ \A i \in 1..n : s[i] # Parent
  BY <1>1 DEF Dots
<1>3. Keeps(r, A, s, n, n)
  BY <1>1, <1>2, NormalizeKeeps
<1>4. r \in Seq(A) /\ Len(r) = n /\ \A i \in 1..n : r[i] = s[i]
  <2> HIDE DEF n, r
  <2>1. r \in Seq(A) /\ Len(r) = n
    BY <1>2, <1>3 DEF Keeps
  <2> QED BY <1>2, <1>3, <2>1 DEF Keeps
<1>5. r = s
  <2> HIDE DEF r
  <2> QED BY <1>4
<1>6. <<>> \o s = s
  OBVIOUS
<1>7. s # <<>> => LiveKey(s) = s
  BY <1>5, <1>6 DEF LiveKey, Resolve
<1> QED BY <1>5, <1>7

(* A clean path is names only.                                             *)
LEMMA CleanCounts ==
    ASSUME NEW A, NEW s \in Seq(A), Clean(s)
    PROVE  Ups(s) = 0 /\ Names(s) = Len(s)
<1> DEFINE n == Len(s)
<1>1. \A i \in 1..n : s[i] \notin Dots
  BY DEF Clean
<1>2. {i \in 1..n : s[i] = Parent} = {} /\ {i \in 1..n : s[i] \notin Here \cup {Parent}} = 1..n
  BY <1>1 DEF Dots
<1>3. Cardinality(1..n) = n
  <2>1. n \in Nat
    OBVIOUS
  <2> HIDE DEF n
  <2>2. Cardinality(1..n) = IF 1 > n THEN 0 ELSE n - 1 + 1
    BY <2>1, FS_Interval
  <2> QED BY <2>1, <2>2
<1> QED BY <1>2, <1>3, FS_EmptySet DEF Ups, Names

(* A path that counts no ".." has none.                                    *)
LEMMA NoUps ==
    ASSUME NEW A, NEW s \in Seq(A), Ups(s) = 0
    PROVE  \A i \in 1..Len(s) : s[i] # Parent
<1> DEFINE T == {i \in 1..Len(s) : s[i] = Parent}
<1>1. IsFiniteSet(T)
  <2>1. IsFiniteSet(1..Len(s))
    BY FS_Interval
  <2> QED BY <2>1, FS_Subset
<1>2. Cardinality(T) = 0
  BY DEF Ups
<1> HIDE DEF T
<1>3. T = {}
  BY <1>1, <1>2, FS_EmptySet
<1> QED BY <1>3 DEF T

(* Paths of any length, in any working directory.                          *)
THEOREM PathsStayUnderRoot ==
    ASSUME NEW A, NEW p \in [abs : BOOLEAN, segs : Seq(A)], NEW cwd \in Seq(A), Clean(cwd)
    PROVE  StaysUnderRoot(p, cwd)
<1> DEFINE all == IF p.abs THEN StripWsPrefix(p.segs) ELSE cwd \o p.segs
           rel == Resolve(p, cwd)
           n == Len(all)
<1>1. p.abs \in BOOLEAN /\ p.segs \in Seq(A)
  OBVIOUS
<1>2. all \in Seq(A) /\ n \in Nat
  <2>1. StripWsPrefix(p.segs) \in Seq(A)
    BY <1>1 DEF StripWsPrefix
  <2>2. cwd \o p.segs \in Seq(A)
    BY <1>1
  <2>3. all \in Seq(A)
    BY <2>1, <2>2
  <2> HIDE DEF all
  <2> QED BY <2>3
<1>3. rel = NormalizeSegments(all)
  BY DEF Resolve
<1> HIDE DEF rel
<1>4. Standing(rel, A, all, n)
  <2> HIDE DEF all
  <2> QED BY <1>2, <1>3, NormalizeStands
<1>5. \A i \in 0..n : Ups(SubSeq(all, 1, i)) = Climbs(all, i) /\ Names(SubSeq(all, 1, i)) = Descents(all, i)
  <2> HIDE DEF all
  <2> QED BY <1>2, CountsOfPrefix
<1>6. (rel = FsError) = \E i \in 0..n : Ups(SubSeq(all, 1, i)) > Names(SubSeq(all, 1, i))
  <2> HIDE DEF all, n
  <2>1. \A i \in 0..n : Climbs(all, i) \in Nat /\ Descents(all, i) \in Nat
    <3> TAKE i \in 0..n
    <3>1. i \in Nat
      BY <1>2
    <3> QED BY <3>1, CountsStep
  <2>2. CASE rel = FsError
    <3>1. ~Clean(rel)
      BY <2>2, CleanIsNoError
    <3>2. \E i \in 0..n : Climbs(all, i) > Descents(all, i)
      BY <1>4, <3>1 DEF Standing
    <3> QED BY <1>5, <2>2, <3>2
  <2>3. CASE rel # FsError
    <3>1. \A i \in 0..n : Climbs(all, i) <= Descents(all, i)
      BY <1>4, <2>3 DEF Standing
    <3>2. \A i \in 0..n : ~(Climbs(all, i) > Descents(all, i))
      BY <2>1, <3>1
    <3> QED BY <1>5, <2>3, <3>2
  <2> QED BY <2>2, <2>3
<1>7. ASSUME rel # FsError
      PROVE  /\ Ups(rel) = 0 /\ Names(rel) = Len(rel) /\ Len(rel) = Names(all) - Ups(all)
             /\ rel # <<>> => LiveKey(rel) = rel
  <2>1. rel \in Seq(A) /\ Clean(rel) /\ Len(rel) = Descents(all, n) - Climbs(all, n)
    BY <1>4, <1>7 DEF Standing
  <2>2. Descents(all, n) = Names(all) /\ Climbs(all, n) = Ups(all)
    BY DEF Descents, Climbs, Names, Ups, Dots
  <2> HIDE DEF all, n
  <2> QED BY <2>1, <2>2, CleanCounts, ResolvedAgain
<1>8. ASSUME ~p.abs, Ups(p.segs) = 0 PROVE IsPrefix(cwd, rel)
  <2> DEFINE m == Len(cwd)  w == Len(p.segs)
  <2>1. all = cwd \o p.segs
    BY <1>8
  <2>2. m \in Nat /\ w \in Nat /\ n = m + w
        /\ \A i \in 1..(m + w) : all[i] = IF i <= m THEN cwd[i] ELSE p.segs[i - m]
    <3> DEFINE q == p.segs
    <3>1. q \in Seq(A) /\ n = Len(cwd \o q) /\ m \in Nat /\ w \in Nat /\ w = Len(q)
      BY <1>1, <2>1
    <3> HIDE DEF q, all, n
    <3>2. Len(cwd \o q) = m + w
      BY <3>1
    <3>3. \A i \in 1..(m + w) : (cwd \o q)[i] = IF i <= m THEN cwd[i] ELSE q[i - m]
      BY <3>1
    <3> QED BY <2>1, <3>1, <3>2, <3>3 DEF q
  <2>3. \A i \in 1..w : p.segs[i] # Parent
    BY <1>1, <1>8, NoUps
  <2>4. \A i \in 1..m : cwd[i] \notin Dots
    BY DEF Clean
  <2> HIDE DEF all, n, m, w
  <2>5. \A i \in 1..m : all[i] \notin Dots /\ all[i] = cwd[i]
    <3> TAKE i \in 1..m
    <3>1. i \in 1..(m + w) /\ i <= m
      BY <2>2
    <3> QED BY <2>2, <2>4, <3>1
  <2>6. \A i \in 1..n : all[i] # Parent
    <3> TAKE i \in 1..n
    <3>1. CASE i <= m
      <4>1. i \in 1..m
        BY <2>2, <3>1
      <4> QED BY <2>5, <4>1 DEF Dots
    <3>2. CASE ~(i <= m)
      <4>1. i - m \in 1..w /\ i \in 1..(m + w)
        BY <2>2, <3>2
      <4> QED BY <2>2, <2>3, <3>2, <4>1
    <3> QED BY <3>1, <3>2
  <2>7. m \in 0..n
    BY <2>2
  <2>8. Keeps(rel, A, all, m, n)
    BY <1>2, <1>3, <2>5, <2>6, <2>7, NormalizeKeeps DEF n
  <2>9. rel \in Seq(A) /\ Len(rel) >= m /\ \A i \in 1..m : rel[i] = cwd[i]
    <3>1. n >= m
      BY <2>2
    <3>2. Len(rel) >= m /\ rel \in Seq(A) /\ \A i \in 1..Len(rel) : i <= m => rel[i] = all[i]
      BY <2>8, <3>1 DEF Keeps
    <3>3. ASSUME NEW i \in 1..m PROVE rel[i] = cwd[i]
      <4>1. i \in 1..Len(rel) /\ i <= m
        BY <2>2, <3>2
      <4> QED BY <2>5, <3>2, <4>1
    <3> QED BY <3>2, <3>3
  <2>10. SubSeq(cwd, 1, m) = SubSeq(rel, 1, m)
    BY <2>2, <2>9 DEF m
  <2> QED BY <2>2, <2>9, <2>10 DEF IsPrefix, m
<1> QED BY <1>6, <1>7, <1>8 DEF StaysUnderRoot, rel

(* The probes of the model are paths of FsSegments.                        *)
LEMMA ProbesStay ==
    ASSUME NEW probe \in Probes
    PROVE  StaysUnderRoot(probe.path, probe.cwd)
<1> DEFINE A == FsSegments
<1>1. \A k \in Nat : BoundedSeq(A, k) \subseteq Seq(A)
  BY DEF BoundedSeq, SeqOf
<1>2. probe.path \in [abs : BOOLEAN, segs : Seq(A)]
  BY <1>1 DEF Probes
<1>3. PICK q \in Seq(A) : probe.cwd = Resolve([abs |-> TRUE, segs |-> q], <<>>) /\ probe.cwd # FsError
  BY <1>1 DEF Probes
<1>4. StripWsPrefix(q) \in Seq(A)
  BY DEF StripWsPrefix
<1>5. Standing(probe.cwd, A, StripWsPrefix(q), Len(StripWsPrefix(q)))
  BY <1>3, <1>4, NormalizeStands DEF Resolve
<1>6. probe.cwd \in Seq(A) /\ Clean(probe.cwd)
  BY <1>3, <1>5 DEF Standing
<1> QED BY <1>2, <1>6, PathsStayUnderRoot

(* No step changes the probe.                                              *)
LEMMA ProbeStays ==
    ASSUME FsShape, FsNext
    PROVE  fs'.probe = fs.probe
<1>2. ASSUME NEW c \in FsCallers, Put(c) \/ Upsert(c) \/ Bump(c) \/ Rejects(c) \/ Unput(c) PROVE fs'.probe = fs.probe
  BY <1>2 DEF Put, Upsert, Bump, Rejects, Unput, FsShape
<1>3. ASSUME NEW c \in FsCallers, FlushStaged(c) PROVE fs'.probe = fs.probe
  BY <1>3 DEF FlushStaged, Moves, FsShape
<1>4. ASSUME NEW c \in FsCallers, NEW p \in FsPaths, WriteDirect(c, p) \/ DeleteFile(c, p)
      PROVE  fs'.probe = fs.probe
  BY <1>4 DEF WriteDirect, DeleteFile, Moves, FsShape
<1>5. ASSUME NEW p \in FsPaths, Chdir(p) \/ StageWrite(p) PROVE fs'.probe = fs.probe
  BY <1>5 DEF Chdir, StageWrite, FsShape
<1>6. ASSUME NEW p \in FsPaths, NEW body \in BOOLEAN, GatewayWrites(p, body) PROVE fs'.probe = fs.probe
  BY <1>6 DEF GatewayWrites, FsShape
<1>7. CASE DiscardStaged \/ GatewayReconciled
  BY <1>7 DEF DiscardStaged, GatewayReconciled, FsShape
<1>8. ASSUME NEW f \in Files, ReadFile(f) PROVE fs'.probe = fs.probe
  BY <1>8 DEF ReadFile, FsShape
<1> QED BY <1>2, <1>3, <1>4, <1>5, <1>6, <1>7, <1>8 DEF FsNext

ProbeInv == CacheInv /\ fs.probe \in {NoProbe} \cup Probes

(* Every path a behaviour asks about resolves to a key under the session's *)
(* root or is refused (KeysStayUnderRoot), for any set of segments; paths  *)
(* of any length are PathsStayUnderRoot.                                   *)
THEOREM KeysAlwaysUnderRoot == FsSpec => []KeysStayUnderRoot
<1>1. (\E probe \in {NoProbe} \cup Probes : FsInit(probe)) => ProbeInv
  <2> SUFFICES ASSUME NEW probe \in {NoProbe} \cup Probes, FsInit(probe) PROVE ProbeInv
    OBVIOUS
  <2>1. fs.probe = probe
    BY DEF FsInit
  <2> QED BY <2>1, CacheInitInv DEF ProbeInv
<1>2. ProbeInv /\ [FsNext]_fs => ProbeInv'
  <2>1. ProbeInv /\ UNCHANGED fs => ProbeInv'
    BY CacheUnchanged DEF ProbeInv
  <2>2. ProbeInv /\ FsNext => ProbeInv'
    BY CacheStep, ProbeStays DEF ProbeInv, CacheInv
  <2> QED BY <2>1, <2>2
<1>3. ProbeInv => KeysStayUnderRoot
  BY ProbesStay DEF ProbeInv, KeysStayUnderRoot
<1> QED BY <1>1, <1>2, <1>3, PTL DEF FsSpec

-----------------------------------------------------------------------------
(* EngramClient.                                                           *)

ConnType == [id : ClIds, st : {"connecting", "open", "closed"}]

(* The connects are numbered from 1 without gaps, whatever became of them. *)
ClientTypeOK ==
    /\ cl \in [sessions : [ClIds -> Nat], pending : [ClIds -> Nat],
               conns : [Started -> ConnType], raced : SUBSET ClIds]
    /\ \E k \in Nat : Started = 1..k

(* What pending names is still connecting; what sessions names once was    *)
(* open, under that id.                                                    *)
RegistryInv ==
    \A id \in ClIds :
        /\ cl.pending[id] # 0 => Connecting(cl.pending[id]) /\ cl.conns[cl.pending[id]].id = id
        /\ cl.sessions[id] # 0 => /\ cl.sessions[id] \in Started
                                  /\ cl.conns[cl.sessions[id]].id = id
                                  /\ cl.conns[cl.sessions[id]].st # "connecting"

(* The converse, for the ids no closeAll raced: every connect under way is *)
(* the pending one, every open connection the registered one, and there is *)
(* not one of each.                                                        *)
OwnedInv ==
    \A id \in ClIds \ cl.raced :
        /\ cl.pending[id] = 0 \/ cl.sessions[id] = 0
        /\ \A n \in Started : cl.conns[n].id = id =>
              /\ cl.conns[n].st = "connecting" => cl.pending[id] = n
              /\ cl.conns[n].st = "open" => cl.sessions[id] = n

ClientInv == ClientTypeOK /\ RegistryInv /\ OwnedInv

(* A new client satisfies it.                                              *)
LEMMA ClientInitInv == ClientInit => ClientInv
<1> SUFFICES ASSUME ClientInit PROVE ClientInv
  OBVIOUS
<1>1. Started = {}
  BY DEF ClientInit, Started
<1>2. Started = 1..0 /\ 0 \in Nat
  BY <1>1
<1>3. cl.conns \in [Started -> ConnType]
  BY <1>1 DEF ClientInit
<1> QED
  BY <1>1, <1>2, <1>3 DEF ClientInit, ClientInv, ClientTypeOK, RegistryInv, OwnedInv

LEMMA ClientFields ==
    ClientTypeOK => /\ cl.sessions \in [ClIds -> Nat] /\ cl.pending \in [ClIds -> Nat]
                    /\ cl.conns \in [Started -> ConnType] /\ cl.raced \in SUBSET ClIds
BY DEF ClientTypeOK

LEMMA NoConnectZero == ClientTypeOK => 0 \notin Started
BY DEF ClientTypeOK

(* The next connect gets a number no connect has.                          *)
LEMMA FreshConnect ==
    ASSUME ClientTypeOK
    PROVE  LET n == Cardinality(Started) + 1 IN
           /\ n \in Nat \ {0} /\ n \notin Started
           /\ \E k \in Nat : Started \cup {n} = 1..k
<1> PICK k \in Nat : Started = 1..k
  BY DEF ClientTypeOK
<1>1. Cardinality(Started) = k
  BY FS_Interval
<1>2. k + 1 \in Nat /\ 1..(k + 1) = (1..k) \cup {k + 1}
  OBVIOUS
<1> QED BY <1>1, <1>2

LEMMA ClientSessionInv == ASSUME ClientInv, NEW id \in ClIds, ClientSession(id) PROVE ClientInv'
<1> DEFINE n == Cardinality(Started) + 1
           conns == [m \in Started \cup {n} |->
                        IF m = n THEN [id |-> id, st |-> "connecting"] ELSE cl.conns[m]]
<1> USE DEF ClientInv
<1>1. n \in Nat \ {0} /\ n \notin Started /\ \E k \in Nat : Started \cup {n} = 1..k
  BY FreshConnect
<1>2. /\ cl.sessions[id] = 0 /\ cl.pending[id] = 0
      /\ cl' = [cl EXCEPT !.pending[id] = n, !.conns = conns]
  BY DEF ClientSession
<1> HIDE DEF n
<1>3. /\ cl'.sessions = cl.sessions /\ cl'.raced = cl.raced /\ cl'.conns = conns
      /\ cl'.pending = [cl.pending EXCEPT ![id] = n]
      /\ cl' \in [sessions : [ClIds -> Nat], pending : [ClIds -> Nat],
                  conns : [Started \cup {n} -> ConnType], raced : SUBSET ClIds]
  <2>1. conns \in [Started \cup {n} -> ConnType]
    BY DEF ClientTypeOK, ConnType
  <2> HIDE DEF conns
  <2> QED BY <1>1, <1>2, <2>1 DEF ClientTypeOK
<1>4. Started' = Started \cup {n}
  BY <1>3 DEF Started
<1>5. ClientTypeOK'
  BY <1>1, <1>3, <1>4 DEF ClientTypeOK
<1>6. \A m \in Started : cl'.conns[m] = cl.conns[m]
  BY <1>1, <1>3
<1>7. cl'.conns[n] = [id |-> id, st |-> "connecting"]
  BY <1>3
<1> HIDE DEF conns
<1>8. n # 0 /\ n \notin Started /\ cl.pending \in [ClIds -> Nat]
  BY <1>1 DEF ClientTypeOK
<1>9. RegistryInv'
  <2> SUFFICES ASSUME NEW i \in ClIds
               PROVE  /\ cl'.pending[i] # 0 => /\ cl'.pending[i] \in Started'
                                               /\ cl'.conns[cl'.pending[i]].st = "connecting"
                                               /\ cl'.conns[cl'.pending[i]].id = i
                      /\ cl'.sessions[i] # 0 => /\ cl'.sessions[i] \in Started'
                                                /\ cl'.conns[cl'.sessions[i]].id = i
                                                /\ cl'.conns[cl'.sessions[i]].st # "connecting"
    BY DEF RegistryInv, Connecting
  <2>1. cl'.pending[i] = IF i = id THEN n ELSE cl.pending[i]
    BY <1>3, <1>8
  <2> QED
    BY <1>3, <1>4, <1>6, <1>7, <2>1 DEF RegistryInv, Connecting
<1>10. OwnedInv'
  <2> SUFFICES ASSUME NEW i \in ClIds \ cl.raced
               PROVE  /\ cl'.pending[i] = 0 \/ cl'.sessions[i] = 0
                      /\ \A m \in Started' : cl'.conns[m].id = i =>
                            /\ cl'.conns[m].st = "connecting" => cl'.pending[i] = m
                            /\ cl'.conns[m].st = "open" => cl'.sessions[i] = m
    BY <1>3 DEF OwnedInv
  <2>1. cl'.pending[i] = IF i = id THEN n ELSE cl.pending[i]
    BY <1>3, <1>8
  <2>2. cl'.sessions[i] = cl.sessions[i]
    BY <1>3
  <2> QED
    BY NoConnectZero, <1>2, <1>4, <1>6, <1>7, <2>1, <2>2 DEF OwnedInv
<1> QED BY <1>5, <1>9, <1>10

(* A connect that succeeds registers itself, one that fails is forgotten.  *)
LEMMA ConnectSettlesInv ==
    ASSUME ClientInv, NEW n \in Started, NEW ok \in BOOLEAN, ConnectSettles(n, ok) PROVE ClientInv'
<1> USE DEF ClientInv
<1> DEFINE id == cl.conns[n].id
           st == IF ok THEN "open" ELSE "closed"
<1>1. id = cl.conns[n].id /\ id \in ClIds /\ cl.conns[n].st = "connecting" /\ n # 0 /\ n \in Nat
  BY NoConnectZero DEF ClientTypeOK, ConnType, ConnectSettles, Connecting
<1>2. /\ cl'.raced = cl.raced
      /\ cl'.pending = [cl.pending EXCEPT ![id] = 0]
      /\ cl'.sessions = [cl.sessions EXCEPT ![id] = IF ok THEN n ELSE @]
      /\ cl'.conns = [cl.conns EXCEPT ![n].st = st]
      /\ cl' = [sessions |-> cl'.sessions, pending |-> cl'.pending, conns |-> cl'.conns, raced |-> cl'.raced]
  BY DEF ConnectSettles, ClientTypeOK
<1>3. Started' = Started /\ cl'.conns \in [Started -> ConnType]
  <2>1. Started' = Started
    BY <1>1, <1>2 DEF Started
  <2>2. cl'.conns \in [Started -> ConnType]
    BY ClientFields, <1>1, <1>2 DEF ConnType
  <2> QED BY <2>1, <2>2
<1>4. \A m \in Started : cl'.conns[m] = IF m = n THEN [cl.conns[m] EXCEPT !.st = st] ELSE cl.conns[m]
  BY <1>2 DEF ClientTypeOK
<1>5. \A m \in Started : /\ cl'.conns[m].id = cl.conns[m].id
                         /\ cl'.conns[m].st = IF m = n THEN st ELSE cl.conns[m].st
  BY <1>4 DEF ClientTypeOK, ConnType
<1>6. \A i \in ClIds : /\ cl'.pending[i] = IF i = id THEN 0 ELSE cl.pending[i]
                       /\ cl'.sessions[i] = IF i = id /\ ok THEN n ELSE cl.sessions[i]
  BY <1>2 DEF ClientTypeOK
<1> HIDE DEF id
<1>7. ClientTypeOK'
  <2>1. cl'.pending \in [ClIds -> Nat] /\ cl'.sessions \in [ClIds -> Nat] /\ cl'.raced \in SUBSET ClIds
    BY <1>1, <1>2 DEF ClientTypeOK
  <2> QED BY <1>2, <1>3, <2>1 DEF ClientTypeOK
<1>8. RegistryInv'
  <2> SUFFICES ASSUME NEW i \in ClIds
               PROVE  /\ cl'.pending[i] # 0 => /\ cl'.pending[i] \in Started
                                               /\ cl'.conns[cl'.pending[i]].st = "connecting"
                                               /\ cl'.conns[cl'.pending[i]].id = i
                      /\ cl'.sessions[i] # 0 => /\ cl'.sessions[i] \in Started
                                                /\ cl'.conns[cl'.sessions[i]].id = i
                                                /\ cl'.conns[cl'.sessions[i]].st # "connecting"
    BY <1>3 DEF RegistryInv, Connecting
  <2>1. CASE i = id
    <3>1. cl'.pending[i] = 0 /\ cl'.sessions[i] = IF ok THEN n ELSE cl.sessions[i]
      BY <1>6, <2>1
    <3>2. cl'.conns[n].id = i /\ cl'.conns[n].st # "connecting"
      BY <1>1, <1>5, <2>1
    <3> QED BY <1>5, <3>1, <3>2 DEF RegistryInv
  <2>2. CASE i # id
    <3>1. cl'.pending[i] = cl.pending[i] /\ cl'.sessions[i] = cl.sessions[i]
      BY <1>6, <2>2
    <3>2. \A m \in Started : cl.conns[m].id = i => m # n
      BY <1>1, <2>2
    <3> QED BY <1>5, <3>1, <3>2 DEF RegistryInv, Connecting
  <2> QED BY <2>1, <2>2
<1>9. OwnedInv'
  <2>1. \A i \in ClIds \ cl.raced : i = id => cl.pending[i] = n /\ cl.sessions[i] = 0
    BY <1>1 DEF OwnedInv
  <2> QED BY NoConnectZero, <1>1, <1>2, <1>3, <1>5, <1>6, <2>1 DEF OwnedInv
<1> QED BY <1>7, <1>8, <1>9

(* close(id) of a registered session.                                      *)
LEMMA ClientCloseInv == ASSUME ClientInv, NEW id \in ClIds, ClientClose(id) PROVE ClientInv'
<1> USE DEF ClientInv
<1> DEFINE n == cl.sessions[id]
<1>1. n \in Started /\ n # 0 /\ cl.conns[n].id = id /\ cl.conns[n].st # "connecting"
  BY DEF ClientClose, RegistryInv
<1>2. /\ cl'.raced = cl.raced /\ cl'.pending = cl.pending
      /\ cl'.sessions = [cl.sessions EXCEPT ![id] = 0]
      /\ cl'.conns = [cl.conns EXCEPT ![n].st = "closed"]
      /\ cl' = [sessions |-> cl'.sessions, pending |-> cl'.pending, conns |-> cl'.conns, raced |-> cl'.raced]
  BY DEF ClientClose, ClientTypeOK
<1>3. Started' = Started /\ cl'.conns \in [Started -> ConnType]
  <2>1. Started' = Started
    BY <1>1, <1>2 DEF Started
  <2>2. cl'.conns \in [Started -> ConnType]
    BY ClientFields, <1>1, <1>2 DEF ConnType
  <2> QED BY <2>1, <2>2
<1>4. \A m \in Started : /\ cl'.conns[m].id = cl.conns[m].id
                         /\ cl'.conns[m].st = IF m = n THEN "closed" ELSE cl.conns[m].st
  BY <1>2 DEF ClientTypeOK, ConnType
<1>5. \A i \in ClIds : cl'.pending[i] = cl.pending[i] /\ cl'.sessions[i] = IF i = id THEN 0 ELSE cl.sessions[i]
  BY <1>2 DEF ClientTypeOK
<1>6. ClientTypeOK'
  <2>1. cl'.pending \in [ClIds -> Nat] /\ cl'.sessions \in [ClIds -> Nat] /\ cl'.raced \in SUBSET ClIds
    BY <1>2 DEF ClientTypeOK
  <2> QED BY <1>2, <1>3, <2>1 DEF ClientTypeOK
<1>7. RegistryInv'
  BY <1>1, <1>3, <1>4, <1>5 DEF RegistryInv, Connecting
<1>8. OwnedInv'
  BY <1>1, <1>2, <1>3, <1>4, <1>5 DEF OwnedInv
<1> QED BY <1>6, <1>7, <1>8

(* The holder closes its session, which stays registered.                  *)
LEMMA HolderClosesInv == ASSUME ClientInv, NEW n \in Started, HolderCloses(n) PROVE ClientInv'
<1> USE DEF ClientInv
<1>1. /\ cl'.raced = cl.raced /\ cl'.pending = cl.pending /\ cl'.sessions = cl.sessions
      /\ cl'.conns = [cl.conns EXCEPT ![n].st = "closed"]
      /\ cl' = [sessions |-> cl'.sessions, pending |-> cl'.pending, conns |-> cl'.conns, raced |-> cl'.raced]
  BY DEF HolderCloses, ClientTypeOK
<1>2. Started' = Started /\ cl'.conns \in [Started -> ConnType]
  <2>1. Started' = Started
    BY <1>1 DEF Started
  <2>2. cl'.conns \in [Started -> ConnType]
    BY ClientFields, <1>1 DEF ConnType
  <2> QED BY <2>1, <2>2
<1>3. \A m \in Started : /\ cl'.conns[m].id = cl.conns[m].id
                         /\ cl'.conns[m].st = IF m = n THEN "closed" ELSE cl.conns[m].st
  BY <1>1 DEF ClientTypeOK, ConnType
<1>4. ClientTypeOK'
  BY <1>1, <1>2 DEF ClientTypeOK
<1>5. RegistryInv'
  BY <1>1, <1>2, <1>3 DEF RegistryInv, Connecting, HolderCloses
<1>6. OwnedInv'
  BY <1>1, <1>2, <1>3 DEF OwnedInv
<1> QED BY <1>4, <1>5, <1>6

(* closeAll forgets the connects under way and excepts their ids.          *)
LEMMA CloseAllInv == ASSUME ClientInv, CloseAll PROVE ClientInv'
<1> USE DEF ClientInv
<1> DEFINE raced == {cl.conns[n].id : n \in {m \in Started : Connecting(m)}}
           held(n) == \E i \in ClIds : cl.sessions[i] = n
<1>1. /\ cl'.raced = cl.raced \cup raced
      /\ cl'.pending = [i \in ClIds |-> 0] /\ cl'.sessions = [i \in ClIds |-> 0]
      /\ cl'.conns = [n \in Started |-> IF held(n) THEN [cl.conns[n] EXCEPT !.st = "closed"] ELSE cl.conns[n]]
      /\ cl' = [sessions |-> cl'.sessions, pending |-> cl'.pending, conns |-> cl'.conns, raced |-> cl'.raced]
  BY DEF CloseAll, ClientTypeOK
<1>2. Started' = Started /\ cl'.conns \in [Started -> ConnType]
  <2>1. Started' = Started
    BY <1>1 DEF Started
  <2>2. cl'.conns \in [Started -> ConnType]
    <3>1. \A n \in Started : cl.conns[n] \in ConnType /\ [cl.conns[n] EXCEPT !.st = "closed"] \in ConnType
      BY ClientFields DEF ConnType
    <3> QED BY <1>1, <3>1
  <2> QED BY <2>1, <2>2
<1>3. \A m \in Started : /\ cl'.conns[m].id = cl.conns[m].id
                         /\ cl'.conns[m].st = IF held(m) THEN "closed" ELSE cl.conns[m].st
  BY <1>1 DEF ClientTypeOK, ConnType
<1>4. raced \subseteq ClIds
  BY DEF ClientTypeOK, ConnType
<1>5. ClientTypeOK'
  <2>1. cl'.pending \in [ClIds -> Nat] /\ cl'.sessions \in [ClIds -> Nat] /\ cl'.raced \in SUBSET ClIds
    BY <1>1, <1>4 DEF ClientTypeOK
  <2> QED BY <1>1, <1>2, <2>1 DEF ClientTypeOK
<1>6. RegistryInv'
  BY <1>1 DEF RegistryInv
<1>7. OwnedInv'
  <2> SUFFICES ASSUME NEW i \in ClIds \ cl'.raced, NEW n \in Started, cl.conns[n].id = i
               PROVE  cl'.conns[n].st \notin {"connecting", "open"}
    BY <1>1, <1>2, <1>3 DEF OwnedInv
  <2>1. cl.conns[n].st # "connecting" /\ i \in ClIds \ cl.raced
    BY <1>1 DEF Connecting
  <2> QED BY <1>3, <2>1 DEF OwnedInv
<1> QED BY <1>5, <1>6, <1>7

(* ClientInv is an invariant of the client.                                *)
THEOREM ClientInvariant == ClientSpec => []ClientInv
<1>1. ClientInv /\ [ClientNext]_cl => ClientInv'
  <2> SUFFICES ASSUME ClientInv, [ClientNext]_cl PROVE ClientInv'
    OBVIOUS
  <2>1. CASE UNCHANGED cl
    <3>1. Started' = Started /\ cl' = cl
      BY <2>1 DEF Started
    <3>2. ClientTypeOK' /\ OwnedInv'
      BY <3>1 DEF ClientInv, ClientTypeOK, OwnedInv
    <3>3. RegistryInv'
      BY <3>1 DEF ClientInv, RegistryInv, Connecting
    <3> QED BY <3>2, <3>3 DEF ClientInv
  <2>2. CASE ClientNext
    BY <2>2, ClientSessionInv, ConnectSettlesInv, ClientCloseInv, HolderClosesInv, CloseAllInv DEF ClientNext
  <2> QED BY <2>1, <2>2
<1> QED BY ClientInitInv, <1>1, PTL DEF ClientSpec

(* However session, close and closeAll of any number of callers meet the   *)
(* connects under way, callers for one id share one connection, and an     *)
(* open one is the registered one (OneSessionPerId).                       *)
THEOREM OneConnectionPerId == ClientSpec => []OneSessionPerId
<1>1. ClientInv => OneSessionPerId
  <2> SUFFICES ASSUME ClientInv, NEW id \in ClIds \ cl.raced
               PROVE  /\ Cardinality({n \in Started : cl.conns[n].id = id /\ cl.conns[n].st # "closed"}) <= 1
                      /\ \A n \in Started : cl.conns[n].id = id /\ cl.conns[n].st = "open" => cl.sessions[id] = n
    BY DEF OneSessionPerId
  <2> DEFINE S == {n \in Started : cl.conns[n].id = id /\ cl.conns[n].st # "closed"}
             m == IF cl.pending[id] # 0 THEN cl.pending[id] ELSE cl.sessions[id]
  <2>1. \A n \in Started : cl.conns[n].id = id /\ cl.conns[n].st = "open" => cl.sessions[id] = n
    BY DEF ClientInv, OwnedInv
  <2>2. S \subseteq {m}
    <3> SUFFICES ASSUME NEW n \in S PROVE n = m
      OBVIOUS
    <3>1. n # 0 /\ cl.conns[n].st \in {"connecting", "open"}
      BY NoConnectZero DEF ClientInv, ClientTypeOK, ConnType
    <3> QED BY <3>1 DEF ClientInv, OwnedInv
  <2>3. Cardinality(S) <= 1
    <3>1. IsFiniteSet({m}) /\ Cardinality({m}) = 1
      BY FS_Singleton
    <3> QED BY <2>2, <3>1, FS_Subset
  <2> QED BY <2>1, <2>3
<1> QED BY ClientInvariant, <1>1, PTL

-----------------------------------------------------------------------------
(* SdkSession.                                                             *)

Namespaces == SeModules \cup SeConnect
HeapType == [host : {"base", "ext", "sdk"}, ns : SUBSET Namespaces, ctx : [SeKeys -> Nat]]
EvalType == [pc : {"new", "queued", "running", "done", "failed"}, sock : Nat, sent : Nat, final : Nat,
             shared : BOOLEAN]

SessionTypeOK ==
    se \in [http : BOOLEAN, link : {"closed", "opening", "ready"}, sock : Nat,
           boot : SUBSET Namespaces, fns : SUBSET Namespaces,
           heap : HeapType, warm : BOOLEAN, snap : HeapType, captured : Nat,
           evals : [SeEvals -> EvalType], made : Nat, want : [SeKeys -> Nat], unkept : SUBSET SeKeys]

(* The snapshot has the ctx the user expects, and so has the VM.           *)
CtxInv == \A k \in SeKeys \ se.unkept : se.snap.ctx[k] = se.want[k] /\ se.heap.ctx[k] = se.want[k]

(* An eval nobody shared the session with is the only one asked, and what  *)
(* captureFinal holds is what its own cell sent.                           *)
FinalInv ==
    /\ \A e \in Asked : ~se.evals[e].shared => Asked = {e} /\ se.captured = se.evals[e].sent
    /\ FinalIsOwn

SessionInv == SessionTypeOK /\ CtxInv /\ FinalInv

(* What the VM holds when a frame has woken it.                            *)
LEMMA WokenCtx ==
    SessionTypeOK /\ CtxInv =>
        Woken \in HeapType /\ \A k \in SeKeys \ se.unkept : Woken.ctx[k] = se.want[k]
<1>1. \A h \in HeapType : /\ [h EXCEPT !.host = "ext"] \in HeapType
                          /\ [h EXCEPT !.host = "ext"].ctx = h.ctx
  BY DEF HeapType
<1> QED BY <1>1 DEF Woken, CtxInv, SessionTypeOK

(* A step that leaves the evals and the captured final alone.              *)
LEMMA FinalUnchanged ==
    ASSUME FinalInv, se'.evals = se.evals, se'.captured = se.captured
    PROVE  FinalInv'
<1>1. Asked' = Asked
  BY DEF Asked
<1> QED BY <1>1 DEF FinalInv, FinalIsOwn

(* A step that leaves the ctx, the snapshot and the expectation alone, or  *)
(* goes back to the snapshot.                                              *)
LEMMA CtxUnchanged ==
    ASSUME CtxInv, se'.heap \in {se.heap, se.snap}, se'.snap = se.snap, se'.want = se.want,
           se'.unkept = se.unkept
    PROVE  CtxInv'
BY DEF CtxInv

(* A step that ran a cell, and committed it.                               *)
LEMMA CtxAfterCell ==
    ASSUME se'.snap = se'.heap, \A k \in SeKeys \ se'.unkept : se'.heap.ctx[k] = se'.want[k]
    PROVE  CtxInv'
BY DEF CtxInv

LEMMA SessionInitInv == ASSUME NEW http \in BOOLEAN, SessionInit(http) PROVE SessionInv
<1>1. EmptyHeap \in HeapType /\ NotAsked \in EvalType
  BY DEF EmptyHeap, HeapType, NotAsked, EvalType, NoValue
<1>2. SessionTypeOK
  BY <1>1 DEF SessionInit, SessionTypeOK, Namespaces, NoValue
<1>3. CtxInv
  BY DEF SessionInit, CtxInv, EmptyHeap
<1>4. FinalInv
  BY DEF SessionInit, FinalInv, FinalIsOwn, Asked, NotAsked
<1> QED BY <1>2, <1>3, <1>4 DEF SessionInv

(* The socket opens or drops; the kernel is evicted.                       *)
LEMMA LinkInv == ASSUME SessionInv, OpenSocket \/ LinkDrops \/ EvictVm PROVE SessionInv'
<1>1. SessionTypeOK'
  <2>0. se.sock + 1 \in Nat /\ se.made + 1 \in Nat
    BY DEF SessionInv, SessionTypeOK
  <2>1. CASE OpenSocket
    BY <2>0, <2>1 DEF SessionInv, OpenSocket, SessionTypeOK
  <2>2. CASE LinkDrops
    BY <2>0, <2>2 DEF SessionInv, LinkDrops, SessionTypeOK
  <2>3. CASE EvictVm
    BY <2>0, <2>3 DEF SessionInv, EvictVm, SessionTypeOK
  <2> QED BY <2>1, <2>2, <2>3
<1>2. CtxInv'
  <2>1. /\ se'.heap \in {se.heap, se.snap} /\ se'.snap = se.snap /\ se'.want = se.want
        /\ se'.unkept = se.unkept
    BY DEF SessionInv, OpenSocket, LinkDrops, EvictVm, SessionTypeOK
  <2> QED BY <2>1, CtxUnchanged DEF SessionInv
<1>3. FinalInv'
  <2>1. se'.evals = se.evals /\ se'.captured = se.captured
    BY DEF SessionInv, OpenSocket, LinkDrops, EvictVm, SessionTypeOK
  <2> QED BY <2>1, FinalUnchanged DEF SessionInv
<1> QED BY <1>1, <1>2, <1>3 DEF SessionInv

(* The bootstrap seeds what is absent, and only that.                      *)
LEMMA OnReadyInv == ASSUME SessionInv, OnReady PROVE SessionInv'
<1> DEFINE expected == [k \in SeKeys |-> IF k \in SeSeed /\ se.want[k] = NoValue THEN SeedValue ELSE se.want[k]]
           h == Bootstrapped(Woken)
<1> DEFINE kept == {k \in se.unkept : h.ctx[k] # se.want[k]}
<1>1. Woken \in HeapType /\ \A k \in SeKeys \ se.unkept : Woken.ctx[k] = se.want[k]
  BY WokenCtx DEF SessionInv
<1>2. /\ h \in HeapType /\ expected \in [SeKeys -> Nat] /\ kept \in SUBSET SeKeys
      /\ \A k \in SeKeys : h.ctx[k] = IF k \in SeSeed /\ Woken.ctx[k] = NoValue THEN SeedValue ELSE Woken.ctx[k]
      /\ \A k \in SeKeys : expected[k] = IF k \in SeSeed /\ se.want[k] = NoValue THEN SeedValue ELSE se.want[k]
  BY <1>1 DEF SessionInv, SessionTypeOK, Bootstrapped, CtxSeed, HeapType, Namespaces, SeedValue
<1>3. \A k \in SeKeys \ kept : h.ctx[k] = expected[k]
  BY <1>1, <1>2 DEF SeedValue, NoValue
<1>4. se' = [Runs(h) EXCEPT !.link = "ready", !.want = expected]
  BY DEF OnReady
<1> HIDE DEF h, expected
<1>5. Runs(h) = [se EXCEPT !.heap = h, !.warm = TRUE, !.snap = h, !.unkept = kept]
  BY DEF Runs
<1> HIDE DEF kept
<1>6. /\ SessionTypeOK' /\ se'.heap = h /\ se'.snap = h /\ se'.want = expected /\ se'.unkept = kept
      /\ se'.evals = se.evals /\ se'.captured = se.captured
  BY <1>2, <1>4, <1>5 DEF SessionInv, SessionTypeOK
<1> QED BY <1>3, <1>6, CtxAfterCell, FinalUnchanged DEF SessionInv

(* A reset drops the snapshot and the expectation with it.                 *)
LEMMA ResetSessionInv == ASSUME SessionInv, ResetSession PROVE SessionInv'
<1>1. EmptyHeap \in HeapType
  BY DEF EmptyHeap, HeapType, NoValue
<1>2. /\ SessionTypeOK' /\ se'.evals = se.evals /\ se'.captured = se.captured /\ se'.snap = se'.heap
      /\ \/ se'.heap = se.snap /\ se'.want = se.want /\ se'.unkept = se.unkept
         \/ se'.heap = EmptyHeap /\ se'.want = [k \in SeKeys |-> NoValue]
  <2>0. se.made + 1 \in Nat
    BY DEF SessionInv, SessionTypeOK
  <2>1. CASE se.http
    BY <2>0, <2>1 DEF ResetSession, SessionInv, SessionTypeOK
  <2>2. CASE ~se.http
    BY <1>1, <2>0, <2>2 DEF ResetSession, SessionInv, SessionTypeOK, NoValue
  <2> QED BY <2>1, <2>2
<1>3. CtxInv'
  BY <1>2 DEF CtxInv, SessionInv, EmptyHeap
<1> QED BY <1>2, <1>3, FinalUnchanged DEF SessionInv

(* ctx.set is one cell, which commits, runs and fails to, or is refused.   *)
LEMMA CtxSetInv == ASSUME SessionInv, NEW k \in SeKeys, NEW outcome, CtxSet(k, outcome) PROVE SessionInv'
<1> DEFINE v == se.made + 2
           h == [Woken EXCEPT !.ctx[k] = v]
           want == [se.want EXCEPT ![k] = v]
<1>1. /\ Woken \in HeapType /\ \A j \in SeKeys \ se.unkept : Woken.ctx[j] = se.want[j]
      /\ se.made + 1 \in Nat
  BY WokenCtx DEF SessionInv, SessionTypeOK
<1>2. /\ v \in Nat /\ h \in HeapType /\ want \in [SeKeys -> Nat]
      /\ h.ctx = [Woken.ctx EXCEPT ![k] = v]
      /\ \A j \in SeKeys : /\ want[j] = IF j = k THEN v ELSE se.want[j]
                           /\ h.ctx[j] = IF j = k THEN v ELSE Woken.ctx[j]
  BY <1>1 DEF SessionInv, SessionTypeOK, HeapType
<1>3. CASE outcome = "commits"
  <2> DEFINE kept == {j \in se.unkept : h.ctx[j] # se.want[j]} \ {k}
  <2>1. /\ kept \in SUBSET SeKeys
        /\ \A j \in SeKeys \ kept : h.ctx[j] = want[j]
    BY <1>1, <1>2 DEF SessionInv, SessionTypeOK
  <2>2. se' = [se EXCEPT !.heap = h, !.warm = TRUE, !.snap = h, !.made = se.made + 1, !.want = want,
                         !.unkept = kept]
    BY <1>3 DEF CtxSet, Runs, SessionInv, SessionTypeOK
  <2> HIDE DEF h, v, want, kept
  <2>3. /\ SessionTypeOK' /\ se'.heap = h /\ se'.snap = h /\ se'.want = want /\ se'.unkept = kept
        /\ se'.evals = se.evals /\ se'.captured = se.captured
    BY <1>1, <1>2, <2>1, <2>2 DEF SessionInv, SessionTypeOK
  <2> QED BY <2>1, <2>3, CtxAfterCell, FinalUnchanged DEF SessionInv
<1>4. CASE outcome # "commits"
  <2> DEFINE heap == IF outcome = "volatile" THEN h ELSE se.heap
             warm == IF outcome = "volatile" THEN TRUE ELSE se.warm
             unkept == se.unkept \cup {k}
  <2>1. /\ unkept \in SUBSET SeKeys /\ heap \in HeapType /\ warm \in BOOLEAN
        /\ \A j \in SeKeys \ unkept : heap.ctx[j] = want[j] /\ se.snap.ctx[j] = want[j]
    BY <1>1, <1>2 DEF SessionInv, SessionTypeOK, CtxInv
  <2>2. se' = [se EXCEPT !.heap = heap, !.warm = warm, !.made = se.made + 1, !.want = want,
                         !.unkept = unkept]
    <3> HIDE DEF h
    <3> QED BY <1>4 DEF CtxSet, SessionInv, SessionTypeOK, h
  <2> HIDE DEF h, v, want, heap, warm, unkept
  <2>3. /\ SessionTypeOK' /\ se'.heap = heap /\ se'.snap = se.snap /\ se'.want = want
        /\ se'.unkept = unkept /\ se'.evals = se.evals /\ se'.captured = se.captured
    BY <1>1, <1>2, <2>1, <2>2 DEF SessionInv, SessionTypeOK
  <2>4. CtxInv'
    BY <2>1, <2>3 DEF CtxInv
  <2> QED BY <2>3, <2>4, FinalUnchanged DEF SessionInv
<1> QED BY <1>3, <1>4

(* A host module's shim is one cell, if it is sent.                        *)
LEMMA DefineHostModuleInv ==
    ASSUME SessionInv, NEW m \in SeModules, NEW sent \in BOOLEAN, DefineHostModule(m, sent)
    PROVE  SessionInv'
<1> DEFINE h == [Woken EXCEPT !.ns = @ \cup {m}]
           kept == {k \in se.unkept : h.ctx[k] # se.want[k]}
<1>1. Woken \in HeapType /\ \A k \in SeKeys \ se.unkept : Woken.ctx[k] = se.want[k]
  BY WokenCtx DEF SessionInv
<1>2. /\ h \in HeapType /\ h.ctx = Woken.ctx /\ kept \in SUBSET SeKeys
      /\ \A k \in SeKeys \ kept : h.ctx[k] = se.want[k]
  BY <1>1 DEF HeapType, Namespaces, SessionInv, SessionTypeOK
<1>3. /\ se' = [(IF sent THEN Runs(h) ELSE se) EXCEPT !.fns = @ \cup {m}, !.boot = @ \cup {m}]
      /\ se.fns \cup {m} \in SUBSET Namespaces /\ se.boot \cup {m} \in SUBSET Namespaces
  BY DEF DefineHostModule, SessionInv, SessionTypeOK, Namespaces
<1>4. Runs(h) = [se EXCEPT !.heap = h, !.warm = TRUE, !.snap = h, !.unkept = kept]
  BY DEF Runs
<1> HIDE DEF h, kept
<1>5. CASE sent
  <2>1. se' = [se EXCEPT !.heap = h, !.warm = TRUE, !.snap = h, !.unkept = kept,
                         !.fns = se.fns \cup {m}, !.boot = se.boot \cup {m}]
    BY <1>3, <1>4, <1>5 DEF SessionInv, SessionTypeOK
  <2>2. /\ SessionTypeOK' /\ se'.want = se.want /\ se'.evals = se.evals /\ se'.captured = se.captured
        /\ se'.heap = h /\ se'.snap = h /\ se'.unkept = kept
    BY <1>2, <1>3, <2>1 DEF SessionInv, SessionTypeOK
  <2> QED BY <1>2, <2>2, CtxAfterCell, FinalUnchanged DEF SessionInv
<1>6. CASE ~sent
  <2>1. se' = [se EXCEPT !.fns = se.fns \cup {m}, !.boot = se.boot \cup {m}]
    BY <1>3, <1>6
  <2>2. /\ SessionTypeOK' /\ se'.want = se.want /\ se'.evals = se.evals /\ se'.captured = se.captured
        /\ se'.heap = se.heap /\ se'.snap = se.snap /\ se'.unkept = se.unkept
    BY <1>3, <2>1 DEF SessionInv, SessionTypeOK
  <2> QED BY <2>2, CtxUnchanged, FinalUnchanged DEF SessionInv
<1> QED BY <1>5, <1>6

(* A step that changes the evals only, and at most the captured final.     *)
LEMMA EvalStepFrame ==
    ASSUME SessionInv, NEW evals \in [SeEvals -> EvalType], NEW captured \in Nat,
           NEW link \in {"closed", "opening", "ready"},
           se' = [se EXCEPT !.evals = evals, !.captured = captured, !.link = link]
    PROVE  SessionTypeOK' /\ CtxInv' /\ se'.evals = evals /\ se'.captured = captured
<1>1. /\ SessionTypeOK' /\ se'.evals = evals /\ se'.captured = captured
      /\ se'.heap = se.heap /\ se'.want = se.want /\ se'.snap = se.snap /\ se'.unkept = se.unkept
  BY DEF SessionInv, SessionTypeOK
<1> QED BY <1>1, CtxUnchanged DEF SessionInv

(* The call is made: who else is asked shares the session from now on.     *)
LEMMA EvalCoreInv == ASSUME SessionInv, NEW e \in SeEvals, EvalCore(e) PROVE SessionInv'
<1> DEFINE evals == [d \in SeEvals |->
                        IF d = e THEN [NotAsked EXCEPT !.pc = "queued", !.shared = Asked # {}]
                        ELSE [se.evals[d] EXCEPT !.shared = @ \/ d \in Asked]]
<1>1. \A d \in SeEvals : /\ evals[d] \in EvalType
                         /\ d = e => /\ evals[d].pc = "queued" /\ evals[d].sent = NoValue
                                     /\ evals[d].shared = (Asked # {})
                         /\ d # e => /\ evals[d].pc = se.evals[d].pc /\ evals[d].sent = se.evals[d].sent
                                     /\ evals[d].final = se.evals[d].final
                                     /\ ~evals[d].shared => ~se.evals[d].shared /\ d \notin Asked
  BY DEF NotAsked, EvalType, NoValue, SessionInv, SessionTypeOK
<1>2. evals \in [SeEvals -> EvalType] /\ NoValue \in Nat
  BY <1>1 DEF NoValue
<1>3. se' = [se EXCEPT !.evals = evals, !.captured = NoValue, !.link = se.link] /\ se.evals[e].pc = "new"
  BY DEF EvalCore, SessionInv, SessionTypeOK
<1> HIDE DEF evals
<1>4. SessionTypeOK' /\ CtxInv' /\ se'.evals = evals /\ se'.captured = NoValue
  <2>1. se.link \in {"closed", "opening", "ready"}
    BY DEF SessionInv, SessionTypeOK
  <2> QED BY <1>2, <1>3, <2>1, EvalStepFrame
<1>5. Asked' = Asked \cup {e}
  BY <1>1, <1>4 DEF Asked
<1>6. ASSUME NEW d \in Asked', ~se'.evals[d].shared
      PROVE  Asked' = {d} /\ se'.captured = se'.evals[d].sent
  <2>1. d = e
    BY <1>1, <1>4, <1>5, <1>6 DEF Asked
  <2> QED BY <1>1, <1>4, <1>5, <1>6, <2>1
<1>7. FinalIsOwn'
  BY <1>1, <1>4 DEF FinalIsOwn, SessionInv, FinalInv
<1> QED BY <1>4, <1>6, <1>7 DEF SessionInv, FinalInv

(* The cell starts: its rpc was the next.                                  *)
LEMMA CellBeginsInv == ASSUME SessionInv, NEW e \in SeEvals, CellBegins(e) PROVE SessionInv'
<1> DEFINE evals == [se.evals EXCEPT ![e] = [@ EXCEPT !.pc = "running", !.sock = se.sock]]
<1> DEFINE kept == {k \in se.unkept : Woken.ctx[k] # se.want[k]}
<1>1. /\ Woken \in HeapType /\ kept \in SUBSET SeKeys
      /\ \A k \in SeKeys \ kept : Woken.ctx[k] = se.want[k]
  BY WokenCtx DEF SessionInv, SessionTypeOK
<1>2. /\ evals \in [SeEvals -> EvalType]
      /\ \A d \in SeEvals : /\ evals[d].sent = se.evals[d].sent /\ evals[d].final = se.evals[d].final
                            /\ evals[d].shared = se.evals[d].shared
                            /\ evals[d].pc = IF d = e THEN "running" ELSE se.evals[d].pc
  BY DEF SessionInv, SessionTypeOK, EvalType
<1>3. se' = [Runs(Woken) EXCEPT !.evals = evals] /\ se.evals[e].pc = "queued"
  BY ZenonT(60) DEF CellBegins, Runs, SessionInv, SessionTypeOK, EvalType
<1> HIDE DEF evals
<1>4. /\ SessionTypeOK' /\ se'.heap = Woken /\ se'.snap = Woken /\ se'.want = se.want
      /\ se'.unkept = kept /\ se'.evals = evals /\ se'.captured = se.captured
  <2>1. Runs(Woken) = [se EXCEPT !.heap = Woken, !.warm = TRUE, !.snap = Woken, !.unkept = kept]
    BY DEF Runs
  <2> HIDE DEF kept
  <2> QED BY <1>1, <1>2, <1>3, <2>1 DEF SessionInv, SessionTypeOK
<1>5. Asked' = Asked
  BY <1>2, <1>3, <1>4 DEF Asked
<1>6. FinalInv'
  <2>1. \A d \in Asked' : ~se'.evals[d].shared => Asked' = {d} /\ se'.captured = se'.evals[d].sent
    BY <1>2, <1>4, <1>5 DEF SessionInv, FinalInv, Asked
  <2>2. FinalIsOwn'
    BY <1>2, <1>4 DEF SessionInv, FinalInv, FinalIsOwn
  <2> QED BY <2>1, <2>2 DEF FinalInv
<1> QED BY <1>1, <1>4, <1>6, CtxAfterCell DEF SessionInv

(* host.final reaches captureFinal while its own cell runs.                *)
LEMMA HostFinalInv == ASSUME SessionInv, NEW e \in SeEvals, NEW v \in Nat, HostFinal(e, v) PROVE SessionInv'
<1> DEFINE evals == [se.evals EXCEPT ![e] = [@ EXCEPT !.sent = v]]
<1>1. /\ evals \in [SeEvals -> EvalType]
      /\ \A d \in SeEvals : /\ evals[d].pc = se.evals[d].pc /\ evals[d].final = se.evals[d].final
                            /\ evals[d].shared = se.evals[d].shared
                            /\ evals[d].sent = IF d = e THEN v ELSE se.evals[d].sent
  BY DEF SessionInv, SessionTypeOK, EvalType
<1>2. /\ se' = [se EXCEPT !.evals = evals, !.captured = v, !.link = se.link]
      /\ se.evals[e].pc = "running" /\ se.link \in {"closed", "opening", "ready"}
  BY DEF HostFinal, SessionInv, SessionTypeOK
<1> HIDE DEF evals
<1>3. SessionTypeOK' /\ CtxInv' /\ se'.evals = evals /\ se'.captured = v
  BY <1>1, <1>2, EvalStepFrame
<1>4. Asked' = Asked /\ e \in Asked
  BY <1>1, <1>2, <1>3 DEF Asked
<1>5. \A d \in Asked' : ~se'.evals[d].shared => Asked' = {d} /\ se'.captured = se'.evals[d].sent
  <2> SUFFICES ASSUME NEW d \in Asked, ~se'.evals[d].shared
               PROVE  Asked = {d} /\ se'.captured = se'.evals[d].sent
    BY <1>4
  <2>1. Asked = {d}
    BY <1>1, <1>3 DEF SessionInv, FinalInv, Asked
  <2> QED BY <1>1, <1>3, <1>4, <2>1
<1>6. FinalIsOwn'
  BY <1>1, <1>2, <1>3 DEF SessionInv, FinalInv, FinalIsOwn
<1> QED BY <1>3, <1>5, <1>6 DEF SessionInv, FinalInv

(* The reply: the eval reports what captureFinal holds.                    *)
LEMMA EvalRepliesInv == ASSUME SessionInv, NEW e \in SeEvals, EvalReplies(e) PROVE SessionInv'
<1> DEFINE evals == [se.evals EXCEPT ![e] = [@ EXCEPT !.pc = "done", !.final = se.captured]]
<1>1. /\ evals \in [SeEvals -> EvalType]
      /\ \A d \in SeEvals : /\ evals[d].sent = se.evals[d].sent /\ evals[d].shared = se.evals[d].shared
                            /\ evals[d].pc = IF d = e THEN "done" ELSE se.evals[d].pc
                            /\ evals[d].final = IF d = e THEN se.captured ELSE se.evals[d].final
  <2>1. se.captured \in Nat /\ se.evals \in [SeEvals -> EvalType]
    BY DEF SessionInv, SessionTypeOK
  <2>2. \A r \in EvalType : LET q == [r EXCEPT !.pc = "done", !.final = se.captured] IN
             /\ q \in EvalType /\ q.sent = r.sent /\ q.shared = r.shared
             /\ q.pc = "done" /\ q.final = se.captured
    BY <2>1 DEF EvalType
  <2> QED BY <2>1, <2>2
<1>2. /\ se' = [se EXCEPT !.evals = evals, !.captured = se.captured, !.link = se.link]
      /\ se.evals[e].pc = "running" /\ se.link \in {"closed", "opening", "ready"} /\ se.captured \in Nat
  BY DEF EvalReplies, SessionInv, SessionTypeOK, EvalType
<1> HIDE DEF evals
<1>3. SessionTypeOK' /\ CtxInv' /\ se'.evals = evals /\ se'.captured = se.captured
  BY <1>1, <1>2, EvalStepFrame
<1>4. Asked' = Asked \ {e} /\ e \in Asked
  <2>1. \A d \in SeEvals : se'.evals[d].pc = IF d = e THEN "done" ELSE se.evals[d].pc
    BY <1>1, <1>3
  <2> QED BY <1>2, <2>1 DEF Asked
<1>5. \A d \in Asked' : ~se'.evals[d].shared => Asked' = {d} /\ se'.captured = se'.evals[d].sent
  BY <1>1, <1>3, <1>4 DEF SessionInv, FinalInv, Asked
<1>6. FinalIsOwn'
  <2>1. ~se.evals[e].shared => se.captured = se.evals[e].sent
    BY <1>4 DEF SessionInv, FinalInv
  <2> QED BY <1>1, <1>3, <2>1 DEF SessionInv, FinalInv, FinalIsOwn
<1> QED BY <1>3, <1>5, <1>6 DEF SessionInv, FinalInv

(* The call fails and the socket with it.                                  *)
LEMMA EvalFailsInv == ASSUME SessionInv, NEW e \in SeEvals, EvalFails(e) PROVE SessionInv'
<1> DEFINE evals == [se.evals EXCEPT ![e] = [@ EXCEPT !.pc = "failed"]]
           link == IF se.http THEN se.link ELSE "closed"
<1>1. /\ evals \in [SeEvals -> EvalType]
      /\ \A d \in SeEvals : /\ evals[d].sent = se.evals[d].sent /\ evals[d].shared = se.evals[d].shared
                            /\ evals[d].final = se.evals[d].final
                            /\ evals[d].pc = IF d = e THEN "failed" ELSE se.evals[d].pc
  BY DEF SessionInv, SessionTypeOK, EvalType
<1>2. /\ se' = [se EXCEPT !.evals = evals, !.captured = se.captured, !.link = link]
      /\ se.evals[e].pc = "running" /\ link \in {"closed", "opening", "ready"} /\ se.captured \in Nat
  BY DEF EvalFails, SessionInv, SessionTypeOK, EvalType
<1> HIDE DEF evals, link
<1>3. SessionTypeOK' /\ CtxInv' /\ se'.evals = evals /\ se'.captured = se.captured
  BY <1>1, <1>2, EvalStepFrame
<1>4. Asked' = Asked \ {e} /\ e \in Asked
  BY <1>1, <1>2, <1>3 DEF Asked
<1>5. \A d \in Asked' : ~se'.evals[d].shared => Asked' = {d} /\ se'.captured = se'.evals[d].sent
  BY <1>1, <1>3, <1>4 DEF SessionInv, FinalInv, Asked
<1>6. FinalIsOwn'
  BY <1>1, <1>3 DEF SessionInv, FinalInv, FinalIsOwn
<1> QED BY <1>3, <1>5, <1>6 DEF SessionInv, FinalInv

(* SessionInv is an invariant of a session, over either transport.         *)
THEOREM SessionInvariant == SessionSpec => []SessionInv
<1>1. (\E http \in BOOLEAN : SessionInit(http)) => SessionInv
  BY SessionInitInv
<1>2. SessionInv /\ [SessionNext]_se => SessionInv'
  <2> SUFFICES ASSUME SessionInv, [SessionNext]_se PROVE SessionInv'
    OBVIOUS
  <2>1. CASE UNCHANGED se
    BY <2>1, FinalUnchanged, CtxUnchanged DEF SessionInv, SessionTypeOK
  <2>2. CASE SessionNext
    BY <2>2, LinkInv, OnReadyInv, ResetSessionInv, CtxSetInv, DefineHostModuleInv, EvalCoreInv,
       CellBeginsInv, HostFinalInv, EvalRepliesInv, EvalFailsInv DEF SessionNext
  <2> QED BY <2>1, <2>2
<1> QED BY <1>1, <1>2, PTL DEF SessionSpec

(* ctx holds the value last set, or the seed, across evictions, restores,  *)
(* reconnects and re-run bootstraps, for every key whose set committed     *)
(* (CtxKeepsLatest).                                                       *)
THEOREM CtxAlwaysLatest == SessionSpec => []CtxKeepsLatest
<1>1. SessionInv => CtxKeepsLatest
  BY DEF SessionInv, CtxInv, CtxKeepsLatest
<1> QED BY <1>1, SessionInvariant, PTL

(* An eval that was alone on its session reports its own cell's final      *)
(* (FinalIsOwn).                                                           *)
THEOREM FinalAlwaysOwn == SessionSpec => []FinalIsOwn
<1>1. SessionInv => FinalIsOwn
  BY DEF SessionInv, FinalInv
<1> QED BY <1>1, SessionInvariant, PTL

-----------------------------------------------------------------------------
(* SdkFiles.                                                               *)

Bytes == Seq(Int)

-----------------------------------------------------------------------------
Extends(all, part) == all \o part

Joins(G, parts) ==
    /\ G[0] = <<>>
    /\ \A k \in 0..(Len(parts) - 1) : G[k + 1] = Extends(G[k], parts[k + 1])
    /\ Joined(parts) = G[Len(parts)]

(* A part is appended.                                                     *)
LEMMA ExtendsType ==
    ASSUME NEW all \in Bytes, NEW part \in Bytes
    PROVE  Extends(all, part) \in Bytes
BY DEF Extends, Bytes

(* The fold of Joined, one part at a time.                                 *)
LEMMA JoinedUnfolds ==
    ASSUME NEW parts \in Seq(Bytes)
    PROVE  \E G : Joins(G, parts)
<1> DEFINE n == Len(parts)
           V == Bytes
           step == [i \in 1..n |-> [x \in V |-> Extends(x, parts[i])]]
           Sol(f) == f = [s \in SUBSET (DOMAIN parts) |->
                            IF s = {} THEN <<>> ELSE Extends(f[s \ {Max(s)}], parts[Max(s)])]
           ch == CHOOSE f : Sol(f)
<1>1. Joined(parts) = ch[DOMAIN parts]
  BY DEF Joined, FoldLeft, MapThenFoldSet, Extends
<1>2. DOMAIN parts = 1..n /\ n \in Nat /\ \A i \in 1..n : parts[i] \in Bytes
  OBVIOUS
<1>3. step \in [1..n -> [V -> V]]
  <2>1. ASSUME NEW i \in 1..n, NEW x \in V PROVE Extends(x, parts[i]) \in V
    BY <1>2, ExtendsType
  <2> HIDE DEF V
  <2> QED BY <2>1
<1>4. PICK it \in [SUBSET (1..n) -> V] : FoldsOver(it, n, <<>>, step)
  <2>1. <<>> \in V
    BY DEF Bytes
  <2> HIDE DEF V, step, n
  <2> QED BY <1>2, <1>3, <2>1, FoldExists
<1>5. Sol(it)
  <2>1. ASSUME NEW s \in SUBSET (1..n), s # {}
        PROVE  step[Max(s)][it[s \ {Max(s)}]] = Extends(it[s \ {Max(s)}], parts[Max(s)])
    <3>1. Max(s) \in 1..n
      BY <1>2, <2>1, MaxOfNumbers
    <3>2. it[s \ {Max(s)}] \in V
      <4> HIDE DEF V
      <4> QED BY <1>4
    <3> HIDE DEF V
    <3> QED BY <3>1, <3>2
  <2>2. it = [s \in SUBSET (1..n) |-> IF s = {} THEN <<>> ELSE step[Max(s)][it[s \ {Max(s)}]]]
    BY <1>4 DEF FoldsOver
  <2> HIDE DEF step
  <2> QED BY <1>2, <2>1, <2>2
<1>6. Sol(ch)
  <2> HIDE DEF Sol
  <2> QED BY <1>5
<1> DEFINE G == [k \in 0..n |-> ch[1..k]]
<1>7. ASSUME NEW k \in 0..(n - 1)
      PROVE  G[k + 1] = Extends(G[k], parts[k + 1])
  <2>1. 1..(k + 1) \in SUBSET (1..n) /\ k \in Nat
    BY <1>2
  <2>2. ch[1..(k + 1)] = Extends(ch[1..k], parts[k + 1])
    <3> HIDE DEF ch, n
    <3> DEFINE s == 1..(k + 1)
    <3>1. s \in SUBSET (DOMAIN parts) /\ Max(s) = k + 1 /\ s # {} /\ s \ {k + 1} = 1..k
      BY <1>2, <2>1, FirstNumbers
    <3> HIDE DEF s
    <3>2. ch[s] = IF s = {} THEN <<>> ELSE Extends(ch[s \ {Max(s)}], parts[Max(s)])
      BY <1>6, <3>1
    <3>3. ch[s] = Extends(ch[1..k], parts[k + 1])
      BY <3>1, <3>2
    <3> QED BY <3>3 DEF s
  <2>3. k \in 0..n /\ k + 1 \in 0..n
    OBVIOUS
  <2> HIDE DEF ch
  <2> QED BY <2>2, <2>3
<1>8. G[0] = <<>>
  <2>1. 0 \in 0..n /\ 1..0 = {} /\ {} \in SUBSET (DOMAIN parts)
    BY <1>2
  <2> HIDE DEF ch
  <2> QED BY <1>6, <2>1
<1>9. Joined(parts) = G[n]
  <2> HIDE DEF ch
  <2> QED BY <1>1, <1>2
<1> HIDE DEF G
<1>10. Joins(G, parts)
  BY <1>7, <1>8, <1>9 DEF Joins
<1> QED
  BY <1>10

(* Slices are byte strings.                                                *)
LEMMA SlicesOf ==
    ASSUME NEW b \in Bytes
    PROVE  Slices(b) \in Seq(Bytes)
<1> DEFINE n == (Len(b) + UpChunk - 1) \div UpChunk
           hi(k) == IF k * UpChunk < Len(b) THEN k * UpChunk ELSE Len(b)
<1>1. Len(b) \in Nat /\ UpChunk \in Nat \ {0}
  BY SdkFilesAssumption DEF Bytes
<1>2. n \in Nat
  <2> DEFINE m == Len(b) + UpChunk - 1
  <2>1. m \in Nat
    BY <1>1
  <2> HIDE DEF m
  <2>2. m \div UpChunk \in Nat
    BY <1>1, <2>1
  <2> QED BY <2>2 DEF m
<1>3. ASSUME NEW k \in 1..n PROVE SubSeq(b, (k - 1) * UpChunk + 1, hi(k)) \in Bytes
  <2>1. k \in Nat /\ k - 1 \in Nat
    BY <1>2
  <2>2. k * UpChunk \in Nat /\ (k - 1) * UpChunk \in Nat
    BY <1>1, <2>1
  <2> DEFINE lo == (k - 1) * UpChunk + 1  h == hi(k)
  <2>3. lo \in Nat /\ lo >= 1 /\ h \in Nat /\ h <= Len(b)
    BY <1>1, <2>2
  <2> HIDE DEF lo, h
  <2>4. SubSeq(b, lo, h) \in Bytes
    BY <2>3 DEF Bytes
  <2> QED BY <2>4 DEF lo, h
<1>4. Slices(b) = [k \in 1..n |-> SubSeq(b, (k - 1) * UpChunk + 1, hi(k))]
  BY DEF Slices
<1> HIDE DEF n, hi
<1> QED BY <1>2, <1>3, <1>4

(* So are the frames sent so far.                                          *)
LEMMA SendChunkType ==
    ASSUME NEW sent \in Seq(Bytes), NEW part \in Bytes
    PROVE  SendChunk(sent, part) \in Seq(Bytes)
<1>1. sent \o Slices(part) \in Seq(Bytes)
  BY SlicesOf
<1>2. <<part>> \in Seq(Bytes)
  OBVIOUS
<1> QED BY <1>1, <1>2 DEF SendChunk

Sends(G, parts) ==
    /\ G[0] = <<>>
    /\ \A k \in 0..(Len(parts) - 1) : G[k + 1] = SendChunk(G[k], parts[k + 1])
    /\ FoldLeft(SendChunk, <<>>, parts) = G[Len(parts)]

(* The fold of FramesOf, one part at a time.                               *)
LEMMA SendsUnfolds ==
    ASSUME NEW parts \in Seq(Bytes)
    PROVE  \E G : Sends(G, parts)
<1> DEFINE n == Len(parts)
           V == Seq(Bytes)
           step == [i \in 1..n |-> [x \in V |-> SendChunk(x, parts[i])]]
           Sol(f) == f = [s \in SUBSET (DOMAIN parts) |->
                            IF s = {} THEN <<>> ELSE SendChunk(f[s \ {Max(s)}], parts[Max(s)])]
           ch == CHOOSE f : Sol(f)
<1>1. FoldLeft(SendChunk, <<>>, parts) = ch[DOMAIN parts]
  BY DEF FoldLeft, MapThenFoldSet
<1>2. DOMAIN parts = 1..n /\ n \in Nat /\ \A i \in 1..n : parts[i] \in Bytes
  OBVIOUS
<1>3. step \in [1..n -> [V -> V]]
  <2>1. ASSUME NEW i \in 1..n, NEW x \in V PROVE SendChunk(x, parts[i]) \in V
    BY <1>2, SendChunkType
  <2> HIDE DEF V
  <2> QED BY <2>1
<1>4. PICK it \in [SUBSET (1..n) -> V] : FoldsOver(it, n, <<>>, step)
  <2>1. <<>> \in V
    OBVIOUS
  <2> HIDE DEF V, step, n
  <2> QED BY <1>2, <1>3, <2>1, FoldExists
<1>5. Sol(it)
  <2>1. ASSUME NEW s \in SUBSET (1..n), s # {}
        PROVE  step[Max(s)][it[s \ {Max(s)}]] = SendChunk(it[s \ {Max(s)}], parts[Max(s)])
    <3>1. Max(s) \in 1..n
      BY <1>2, <2>1, MaxOfNumbers
    <3>2. it[s \ {Max(s)}] \in V
      <4> HIDE DEF V
      <4> QED BY <1>4
    <3> HIDE DEF V
    <3> QED BY <3>1, <3>2
  <2>2. it = [s \in SUBSET (1..n) |-> IF s = {} THEN <<>> ELSE step[Max(s)][it[s \ {Max(s)}]]]
    BY <1>4 DEF FoldsOver
  <2> HIDE DEF step
  <2> QED BY <1>2, <2>1, <2>2
<1>6. Sol(ch)
  <2> HIDE DEF Sol
  <2> QED BY <1>5
<1> DEFINE G == [k \in 0..n |-> ch[1..k]]
<1>7. ASSUME NEW k \in 0..(n - 1)
      PROVE  G[k + 1] = SendChunk(G[k], parts[k + 1])
  <2>1. 1..(k + 1) \in SUBSET (1..n) /\ k \in Nat
    BY <1>2
  <2>2. ch[1..(k + 1)] = SendChunk(ch[1..k], parts[k + 1])
    <3> HIDE DEF ch, n
    <3> DEFINE s == 1..(k + 1)
    <3>1. s \in SUBSET (DOMAIN parts) /\ Max(s) = k + 1 /\ s # {} /\ s \ {k + 1} = 1..k
      BY <1>2, <2>1, FirstNumbers
    <3> HIDE DEF s
    <3>2. ch[s] = IF s = {} THEN <<>> ELSE SendChunk(ch[s \ {Max(s)}], parts[Max(s)])
      BY <1>6, <3>1
    <3>3. ch[s] = SendChunk(ch[1..k], parts[k + 1])
      BY <3>1, <3>2
    <3> QED BY <3>3 DEF s
  <2>3. k \in 0..n /\ k + 1 \in 0..n
    OBVIOUS
  <2> HIDE DEF ch
  <2> QED BY <2>2, <2>3
<1>8. G[0] = <<>>
  <2>1. 0 \in 0..n /\ 1..0 = {} /\ {} \in SUBSET (DOMAIN parts)
    BY <1>2
  <2> HIDE DEF ch
  <2> QED BY <1>6, <2>1
<1>9. FoldLeft(SendChunk, <<>>, parts) = G[n]
  <2> HIDE DEF ch
  <2> QED BY <1>1, <1>2
<1> HIDE DEF G
<1>10. Sends(G, parts)
  BY <1>7, <1>8, <1>9 DEF Sends
<1> QED
  BY <1>10

-----------------------------------------------------------------------------
(* The frames cut what is left of the data after the first a bytes.        *)
CutsAt(pos, frames, data, a) ==
    /\ pos \in [0..Len(frames) -> Nat]
    /\ pos[0] = a /\ pos[Len(frames)] = Len(data)
    /\ \A k \in 0..Len(frames) : pos[k] <= Len(data)
    /\ \A k \in 1..Len(frames) : /\ pos[k - 1] <= pos[k]
                                 /\ frames[k] = SubSeq(data, pos[k - 1] + 1, pos[k])

Cut(frames, data, a) == \E pos : CutsAt(pos, frames, data, a)

(* A product grows with its first factor.                                  *)
LEMMA Products ==
    ASSUME NEW a \in Nat, NEW b \in Nat, NEW u \in Nat, a <= b
    PROVE  a * u \in Nat /\ b * u \in Nat /\ a * u <= b * u /\ (a + 1) * u = a * u + u
OBVIOUS

(* The number of slices of n bytes.                                        *)
LEMMA Quotient ==
    ASSUME NEW n \in Nat \ {0}, NEW u \in Nat \ {0}
    PROVE  LET q == (n + u - 1) \div u IN q \in Nat \ {0} /\ (q - 1) * u < n /\ n <= q * u
<1> DEFINE m == n + u - 1  q == m \div u  r == m % u
<1>1. m \in Nat /\ m >= u
  OBVIOUS
<1> HIDE DEF m
<1>2. q \in Nat /\ r \in 0..(u - 1) /\ m = u * q + r
  BY <1>1
<1> HIDE DEF q, r
<1>3. q # 0
  BY <1>1, <1>2
<1>4. PICK p \in Nat : q = p + 1
  BY <1>2, <1>3
<1>5. u * q = p * u + u /\ q * u = p * u + u /\ (q - 1) * u = p * u /\ p * u \in Nat
  BY <1>4
<1>6. m = n + u - 1
  BY DEF m
<1> DEFINE x == p * u
<1>7. m = x + u + r /\ x \in Nat /\ (q - 1) * u = x /\ q * u = x + u
  BY <1>2, <1>5
<1> HIDE DEF x
<1>8. x < n /\ n <= x + u
  BY <1>2, <1>6, <1>7
<1> QED BY <1>2, <1>3, <1>7, <1>8 DEF q, m

(* The slices of a part cut it.                                            *)
LEMMA SlicesCut ==
    ASSUME NEW b \in Bytes, b # <<>>
    PROVE  Cut(Slices(b), b, 0) /\ Slices(b) # <<>>
<1> DEFINE n == Len(b)  u == UpChunk  q == (n + u - 1) \div u
           hi(k) == IF k * u < n THEN k * u ELSE n
           pos == [k \in 0..q |-> hi(k)]
           F == Slices(b)
<1>1. n \in Nat \ {0} /\ u \in Nat \ {0}
  BY SdkFilesAssumption DEF Bytes
<1>2. F = [k \in 1..q |-> SubSeq(b, (k - 1) * u + 1, hi(k))]
  BY DEF Slices
<1>3. q \in Nat \ {0} /\ (q - 1) * u < n /\ n <= q * u
  <2> HIDE DEF n, u
  <2> QED BY <1>1, Quotient
<1> HIDE DEF q, F, u, n
<1>4. \A k \in 0..q : hi(k) \in Nat /\ hi(k) <= n
  <2> TAKE k \in 0..q
  <2>1. k * u \in Nat
    BY <1>1
  <2> QED BY <1>1, <2>1
<1>5. F \in Seq(Bytes) /\ Len(F) = q
  <2>1. F \in Seq(Bytes)
    BY SlicesOf DEF F
  <2>2. DOMAIN F = 1..q
    BY <1>2
  <2>3. DOMAIN F = 1..Len(F) /\ Len(F) \in Nat
    BY <2>1
  <2> QED BY <1>3, <2>1, <2>2, <2>3
<1>6. hi(0) = 0 /\ hi(q) = n
  <2>1. 0 * u = 0
    BY <1>1
  <2>2. q * u \in Nat
    BY <1>1, <1>3
  <2> QED BY <1>1, <1>3, <2>1, <2>2
<1>7. ASSUME NEW k \in 1..q
      PROVE  hi(k - 1) <= hi(k) /\ hi(k - 1) = (k - 1) * u
  <2>1. k - 1 \in Nat /\ q - 1 \in Nat /\ k - 1 <= q - 1 /\ k \in Nat
    BY <1>3
  <2> DEFINE x == (k - 1) * u  y == (q - 1) * u  z == k * u
  <2>2. x \in Nat /\ y \in Nat /\ x <= y
    BY <1>1, <2>1, Products
  <2>3. z = x + u
    <3> DEFINE p == k - 1
    <3>1. p \in Nat /\ k = p + 1
      BY <2>1
    <3> HIDE DEF p
    <3>2. k * u = p * u + u
      BY <1>1, <3>1
    <3> QED BY <3>2 DEF p
  <2>4. y < n
    BY <1>3
  <2> HIDE DEF x, y, z
  <2>5. x < n
    BY <1>1, <2>2, <2>4
  <2>6. hi(k - 1) = x /\ hi(k) = IF z < n THEN z ELSE n
    BY <2>5 DEF x, z
  <2>7. x <= IF z < n THEN z ELSE n
    BY <1>1, <2>2, <2>3, <2>5
  <2> HIDE DEF hi
  <2> QED BY <2>6, <2>7 DEF x
<1>8. ASSUME NEW k \in 1..q
      PROVE  F[k] = SubSeq(b, pos[k - 1] + 1, pos[k]) /\ pos[k - 1] <= pos[k]
  <2>1. k - 1 \in 0..q /\ k \in 0..q
    BY <1>3
  <2> HIDE DEF hi
  <2>2. pos[k - 1] = hi(k - 1) /\ pos[k] = hi(k)
    BY <2>1
  <2> QED BY <1>2, <1>7, <2>2
<1>9. CutsAt(pos, F, b, 0)
  <2>1. 0 \in 0..q /\ q \in 0..q /\ 0..Len(F) = 0..q /\ 1..Len(F) = 1..q /\ Len(b) = n
    BY <1>3, <1>5 DEF n
  <2> HIDE DEF hi
  <2>2. pos \in [0..q -> Nat] /\ pos[0] = 0 /\ pos[q] = n /\ \A k \in 0..q : pos[k] <= n
    BY <1>4, <1>6, <2>1
  <2> HIDE DEF pos
  <2> QED BY <1>5, <1>8, <2>1, <2>2 DEF CutsAt
<1>10. F # <<>>
  BY <1>3, <1>5
<1> HIDE DEF pos
<1> QED BY <1>9, <1>10 DEF Cut, F

(* A cut of one string, then one of the next.                              *)
LEMMA CutAppend ==
    ASSUME NEW F \in Seq(Bytes), NEW D \in Bytes, Cut(F, D, 0), NEW H \in Seq(Bytes), NEW b \in Bytes,
           Cut(H, b, 0)
    PROVE  Cut(F \o H, D \o b, 0)
<1> DEFINE n == Len(F)  m == Len(H)  d == Len(D)  e == Len(b)
<1>1. PICK p : CutsAt(p, F, D, 0)
  BY DEF Cut
<1>2. PICK r : CutsAt(r, H, b, 0)
  BY DEF Cut
<1> DEFINE pos == [k \in 0..(n + m) |-> IF k <= n THEN p[k] ELSE d + r[k - n]]
           A == F \o H  B == D \o b
<1>3. n \in Nat /\ m \in Nat /\ d \in Nat /\ e \in Nat
  BY DEF Bytes
<1>4. /\ Len(A) = n + m /\ A \in Seq(Bytes)
      /\ \A k \in 1..(n + m) : A[k] = IF k <= n THEN F[k] ELSE H[k - n]
  OBVIOUS
<1>5. /\ Len(B) = d + e /\ B \in Bytes
      /\ \A k \in 1..(d + e) : B[k] = IF k <= d THEN D[k] ELSE b[k - d]
  BY DEF Bytes
<1>6. /\ p \in [0..n -> Nat] /\ p[0] = 0 /\ p[n] = d
      /\ \A k \in 0..n : p[k] <= d
      /\ \A k \in 1..n : p[k - 1] <= p[k] /\ F[k] = SubSeq(D, p[k - 1] + 1, p[k])
  BY <1>1 DEF CutsAt
<1>7. /\ r \in [0..m -> Nat] /\ r[0] = 0 /\ r[m] = e
      /\ \A k \in 0..m : r[k] <= e
      /\ \A k \in 1..m : r[k - 1] <= r[k] /\ H[k] = SubSeq(b, r[k - 1] + 1, r[k])
  BY <1>2 DEF CutsAt
<1>8. D \in Seq(Int) /\ b \in Seq(Int) /\ B \in Seq(Int)
  BY <1>5 DEF Bytes
<1>9. \A x, y \in Nat : x <= y /\ y <= d => SubSeq(B, x + 1, y) = SubSeq(D, x + 1, y)
  <2> TAKE x, y \in Nat
  <2> HAVE x <= y /\ y <= d
  <2> HIDE DEF B, d, e
  <2>1. \A k \in (x + 1)..y : B[k] = D[k]
    BY <1>3, <1>5
  <2>2. Len(D) = d /\ d <= Len(B)
    BY <1>3, <1>5 DEF d
  <2> QED BY <1>3, <1>8, <2>1, <2>2
<1>10. \A x, y \in Nat : x <= y /\ y <= e => SubSeq(B, d + x + 1, d + y) = SubSeq(b, x + 1, y)
  <2> TAKE x, y \in Nat
  <2> HAVE x <= y /\ y <= e
  <2> HIDE DEF B, d, e
  <2>1. \A k \in 1..(y - x) : B[d + x + k] = b[x + k]
    <3> TAKE k \in 1..(y - x)
    <3> DEFINE j == d + x + k
    <3>1. j \in 1..(d + e) /\ ~(j <= d) /\ j - d = x + k
      BY <1>3
    <3> HIDE DEF j
    <3>2. B[j] = b[j - d]
      BY <1>5, <3>1
    <3> QED BY <3>1, <3>2 DEF j
  <2>2. Len(b) = e /\ Len(B) = d + e
    BY <1>5 DEF e
  <2> DEFINE S == SubSeq(B, d + x + 1, d + y)  T == SubSeq(b, x + 1, y)
  <2>3. S \in Seq(Int) /\ Len(S) = y - x /\ \A k \in 1..(y - x) : S[k] = B[d + x + k]
    <3> DEFINE l == d + x + 1  h == d + y
    <3>1. l \in Nat /\ h \in Nat /\ l >= 1 /\ l <= h + 1 /\ h <= Len(B) /\ h - l + 1 = y - x
      BY <1>3, <2>2
    <3>2. \A k \in 1..(y - x) : l + k - 1 = d + x + k
      BY <1>3
    <3> HIDE DEF l, h
    <3>3. SubSeq(B, l, h) \in Seq(Int) /\ Len(SubSeq(B, l, h)) = h - l + 1
          /\ \A k \in 1..(h - l + 1) : SubSeq(B, l, h)[k] = B[l + k - 1]
      BY <1>8, <3>1
    <3> QED BY <3>1, <3>2, <3>3 DEF l, h
  <2>4. T \in Seq(Int) /\ Len(T) = y - x /\ \A k \in 1..(y - x) : T[k] = b[x + k]
    <3> DEFINE l == x + 1
    <3>1. l \in Nat /\ l >= 1 /\ l <= y + 1 /\ y <= Len(b) /\ y - l + 1 = y - x
      BY <1>3, <2>2
    <3>2. \A k \in 1..(y - x) : l + k - 1 = x + k
      OBVIOUS
    <3> HIDE DEF l
    <3>3. SubSeq(b, l, y) \in Seq(Int) /\ Len(SubSeq(b, l, y)) = y - l + 1
          /\ \A k \in 1..(y - l + 1) : SubSeq(b, l, y)[k] = b[l + k - 1]
      BY <1>8, <3>1
    <3> QED BY <3>1, <3>2, <3>3 DEF l
  <2> HIDE DEF S, T
  <2>5. S = T
    BY <2>1, <2>3, <2>4
  <2> QED BY <2>5 DEF S, T
<1> HIDE DEF n, m, d, e, A, B
<1>11. pos \in [0..(n + m) -> Nat] /\ pos[0] = 0 /\ pos[n + m] = d + e
       /\ \A k \in 0..(n + m) : pos[k] <= d + e
  <2>1. \A k \in 0..(n + m) : pos[k] \in Nat /\ pos[k] <= d + e
    <3> TAKE k \in 0..(n + m)
    <3>1. CASE k <= n
      <4>1. k \in 0..n
        BY <1>3, <3>1
      <4>2. p[k] \in Nat /\ p[k] <= d
        BY <1>6, <4>1
      <4> QED BY <1>3, <3>1, <4>2
    <3>2. CASE ~(k <= n)
      <4>1. k - n \in 0..m
        BY <1>3, <3>2
      <4>2. r[k - n] \in Nat /\ r[k - n] <= e
        BY <1>7, <4>1
      <4> QED BY <1>3, <3>2, <4>2
    <3> QED BY <3>1, <3>2
  <2>2. pos[0] = 0
    BY <1>3, <1>6
  <2>3. pos[n + m] = d + e
    <3>1. CASE m = 0
      <4>1. n + m = n /\ n \in 0..(n + m)
        BY <1>3, <3>1
      <4>2. e = 0
        BY <1>7, <3>1
      <4> QED BY <1>3, <1>6, <4>1, <4>2
    <3>2. CASE m # 0
      <4> DEFINE j == n + m
      <4>1. ~(j <= n) /\ j - n = m /\ j \in 0..(n + m)
        BY <1>3, <3>2
      <4> HIDE DEF j
      <4>2. pos[j] = d + r[j - n]
        BY <4>1
      <4> QED BY <1>7, <4>1, <4>2 DEF j
    <3> QED BY <3>1, <3>2
  <2> HIDE DEF pos
  <2>4. pos = [k \in 0..(n + m) |-> pos[k]]
    BY DEF pos
  <2> QED BY <2>1, <2>2, <2>3, <2>4
<1>12. ASSUME NEW k \in 1..(n + m)
       PROVE  pos[k - 1] <= pos[k] /\ A[k] = SubSeq(B, pos[k - 1] + 1, pos[k])
  <2>1. k - 1 \in 0..(n + m) /\ k \in 0..(n + m)
    BY <1>3
  <2>2. CASE k <= n
    <3>1. k \in 1..n /\ k - 1 <= n /\ k \in 0..n /\ k - 1 \in 0..n
      BY <1>3, <2>2
    <3>2. pos[k] = p[k] /\ pos[k - 1] = p[k - 1] /\ A[k] = F[k]
      BY <1>4, <2>1, <2>2, <3>1
    <3>3. p[k] \in Nat /\ p[k - 1] \in Nat /\ p[k] <= d /\ p[k - 1] <= p[k]
          /\ F[k] = SubSeq(D, p[k - 1] + 1, p[k])
      BY <1>6, <3>1
    <3> HIDE DEF pos
    <3> QED BY <1>9, <3>2, <3>3
  <2>3. CASE ~(k <= n)
    <3> DEFINE j == k - n
    <3>1. j \in 1..m /\ j \in 0..m /\ j - 1 \in 0..m /\ k = n + j /\ (k - 1 <= n <=> j = 1) /\ k - 1 - n = j - 1
      BY <1>3, <2>3
    <3>2. A[k] = H[j]
      BY <1>4, <2>3
    <3>3. pos[k] = d + r[j]
      BY <2>1, <2>3
    <3>4. pos[k - 1] = d + r[j - 1]
      <4>1. CASE j = 1
        <5>1. k - 1 = n /\ j - 1 = 0
          BY <1>3, <3>1, <4>1
        <5>2. pos[k - 1] = p[n]
          BY <1>3, <2>1, <5>1
        <5> HIDE DEF pos, j
        <5> QED BY <1>3, <1>6, <1>7, <5>1, <5>2
      <4>2. CASE j # 1
        BY <2>1, <3>1, <4>2
      <4> QED BY <4>1, <4>2
    <3> HIDE DEF pos, j
    <3>5. r[j] \in Nat /\ r[j - 1] \in Nat /\ r[j - 1] <= r[j] /\ r[j] <= e
          /\ H[j] = SubSeq(b, r[j - 1] + 1, r[j])
      BY <1>7, <3>1
    <3> DEFINE x == r[j - 1]  y == r[j]
    <3>6. SubSeq(B, d + x + 1, d + y) = SubSeq(b, x + 1, y)
      BY <1>10, <3>5
    <3>7. d + x <= d + y
      <4>1. x \in Nat /\ y \in Nat /\ x <= y
        BY <3>5
      <4> HIDE DEF x, y
      <4> QED BY <1>3, <4>1
    <3> QED BY <3>2, <3>3, <3>4, <3>5, <3>6, <3>7
  <2> QED BY <2>2, <2>3
<1> HIDE DEF pos
<1>13. CutsAt(pos, A, B, 0)
  BY <1>3, <1>4, <1>5, <1>11, <1>12 DEF CutsAt
<1> QED BY <1>13 DEF Cut, A, B

(* The cuts of nothing.                                                    *)
LEMMA CutNothing ==
    /\ Cut(<<>>, <<>>, 0) /\ Cut(<< <<>> >>, <<>>, 0)
    /\ \A D \in Bytes : Cut(<<>>, D, 0) => D = <<>>
<1>1. Cut(<<>>, <<>>, 0)
  <2> DEFINE pos == [k \in 0..0 |-> 0]
  <2>1. CutsAt(pos, <<>>, <<>>, 0)
    BY DEF CutsAt
  <2> QED BY <2>1 DEF Cut
<1>2. Cut(<< <<>> >>, <<>>, 0)
  <2> DEFINE pos == [k \in 0..1 |-> 0]  F == << <<>> >>
  <2>1. Len(F) = 1 /\ F[1] = <<>> /\ SubSeq(<<>>, 1, 0) = <<>>
    OBVIOUS
  <2>2. CutsAt(pos, F, <<>>, 0)
    <3> HIDE DEF F
    <3>1. pos \in [0..Len(F) -> Nat] /\ pos[0] = 0 /\ pos[Len(F)] = 0 /\ \A k \in 0..Len(F) : pos[k] <= 0
      BY <2>1
    <3>2. ASSUME NEW k \in 1..Len(F) PROVE pos[k - 1] <= pos[k] /\ F[k] = SubSeq(<<>>, pos[k - 1] + 1, pos[k])
      <4> DEFINE lo == pos[k - 1] + 1  hi == pos[k]
      <4>1. k = 1 /\ pos[k - 1] = 0 /\ pos[k] = 0
        BY <2>1
      <4>2. lo = 1 /\ hi = 0
        BY <4>1
      <4>3. pos[k - 1] <= pos[k]
        BY <4>1
      <4> HIDE DEF pos, lo, hi
      <4>4. F[k] = SubSeq(<<>>, lo, hi)
        BY <2>1, <4>1, <4>2
      <4> QED BY <4>3, <4>4 DEF lo, hi
    <3>3. Len(<<>>) = 0
      OBVIOUS
    <3> HIDE DEF pos
    <3> QED BY <3>1, <3>2, <3>3 DEF CutsAt
  <2> HIDE DEF pos
  <2> QED BY <2>2 DEF Cut, F
<1>3. ASSUME NEW D \in Bytes, Cut(<<>>, D, 0) PROVE D = <<>>
  <2>1. PICK pos : CutsAt(pos, <<>>, D, 0)
    BY <1>3 DEF Cut
  <2>2. Len(D) = 0
    BY <2>1 DEF CutsAt
  <2> QED BY <2>2 DEF Bytes
<1> QED BY <1>1, <1>2, <1>3

(* The frames of writeFile cut its data.                                   *)
LEMMA FramesCut ==
    ASSUME NEW parts \in Seq(Bytes)
    PROVE  /\ FramesOf(parts) \in Seq(Bytes) /\ FramesOf(parts) # <<>>
           /\ Joined(parts) \in Bytes /\ Cut(FramesOf(parts), Joined(parts), 0)
<1> DEFINE n == Len(parts)
<1>1. PICK G : Sends(G, parts)
  BY SendsUnfolds
<1>2. PICK J : Joins(J, parts)
  BY JoinedUnfolds
<1> DEFINE Ok(F, D) == F \in Seq(Bytes) /\ D \in Bytes /\ Cut(F, D, 0)
           S == {k \in 0..n : Ok(G[k], J[k])}
<1>3. n \in Nat
  OBVIOUS
<1>4. 0 \in S
  <2>1. G[0] = <<>> /\ J[0] = <<>> /\ <<>> \in Seq(Bytes) /\ <<>> \in Bytes
    BY <1>1, <1>2 DEF Sends, Joins, Bytes
  <2>2. Cut(G[0], J[0], 0)
    BY <2>1, CutNothing
  <2>3. Ok(G[0], J[0])
    BY <2>1, <2>2
  <2> HIDE DEF Ok
  <2> QED BY <1>3, <2>3
<1>5. ASSUME NEW k \in 0..(n - 1), k \in S PROVE k + 1 \in S
  <2> DEFINE F == G[k]  D == J[k]  b == parts[k + 1]
  <2>1. Ok(F, D)
    BY <1>5
  <2>2. b \in Bytes /\ k + 1 \in 0..n
    BY <1>3
  <2>3. G[k + 1] = SendChunk(F, b) /\ J[k + 1] = D \o b
    BY <1>1, <1>2 DEF Sends, Joins, Extends
  <2> HIDE DEF F, D, b
  <2>4. Ok(SendChunk(F, b), D \o b)
    <3>0. F \in Seq(Bytes) /\ D \in Bytes /\ Cut(F, D, 0)
      BY <2>1
    <3>1. SendChunk(F, b) \in Seq(Bytes) /\ D \o b \in Bytes
      BY <2>2, <3>0, SendChunkType, ExtendsType DEF Extends
    <3>2. CASE b # <<>>
      <4>1. SendChunk(F, b) = F \o Slices(b)
        BY <3>2 DEF SendChunk
      <4>2. Slices(b) \in Seq(Bytes) /\ Cut(Slices(b), b, 0)
        BY <2>2, <3>2, SlicesOf, SlicesCut
      <4>3. Cut(F \o Slices(b), D \o b, 0)
        BY <2>2, <3>0, <4>2, CutAppend
      <4> QED BY <3>1, <4>1, <4>3
    <3>3. CASE b = <<>>
      <4>1. D \o b = D
        BY <3>0, <3>3 DEF Bytes
      <4>2. CASE F = <<>>
        <5>1. SendChunk(F, b) = << <<>> >> /\ D = <<>>
          BY <3>0, <3>3, <4>2, CutNothing DEF SendChunk
        <5>2. Cut(<< <<>> >>, <<>>, 0)
          BY CutNothing
        <5> QED BY <3>1, <4>1, <5>1, <5>2
      <4>3. CASE F # <<>>
        <5>1. SendChunk(F, b) = F
          BY <3>3, <4>3 DEF SendChunk
        <5> QED BY <3>0, <3>1, <4>1, <5>1
      <4> QED BY <4>2, <4>3
    <3> QED BY <3>2, <3>3
  <2> HIDE DEF Ok
  <2> QED BY <2>2, <2>3, <2>4
<1>6. 0..n \subseteq S
  <2> HIDE DEF S, n
  <2> QED BY <1>3, <1>4, <1>5, BoundedInduction
<1>7. n \in S
  BY <1>3, <1>6
<1> DEFINE F == G[n]
<1>8. F \in Seq(Bytes) /\ Joined(parts) \in Bytes /\ Cut(F, Joined(parts), 0)
  BY <1>2, <1>7 DEF Joins
<1>9. FramesOf(parts) = IF F = <<>> THEN << <<>> >> ELSE F
  BY <1>1 DEF FramesOf, Sends
<1> HIDE DEF F
<1>10. CASE F = <<>>
  <2>1. Joined(parts) = <<>> /\ FramesOf(parts) = << <<>> >>
    BY <1>8, <1>9, <1>10, CutNothing
  <2>2. << <<>> >> \in Seq(Bytes) /\ << <<>> >> # <<>>
    <3>1. <<>> \in Bytes
      BY DEF Bytes
    <3> QED BY <3>1
  <2> QED BY <1>8, <2>1, <2>2, CutNothing
<1>11. CASE F # <<>>
  BY <1>8, <1>9, <1>11
<1> QED BY <1>10, <1>11

(* The next frame is the next of the data, and the others cut the rest.    *)
LEMMA CutTail ==
    ASSUME NEW F \in Seq(Bytes), NEW D \in Bytes, NEW a \in Nat, Cut(F, D, a), F # <<>>
    PROVE  LET w == Len(Head(F)) IN
           /\ Head(F) \in Bytes /\ w \in Nat /\ a + w <= Len(D)
           /\ Head(F) = SubSeq(D, a + 1, a + w)
           /\ Tail(F) \in Seq(Bytes) /\ Cut(Tail(F), D, a + w)
           /\ Len(F) = 1 => a + w = Len(D)
           /\ Len(F) # 1 => Tail(F) # <<>>
<1> DEFINE n == Len(F)  d == Len(D)  h == Head(F)  t == Tail(F)  w == Len(h)
<1>1. PICK p : CutsAt(p, F, D, a)
  BY DEF Cut
<1>2. n \in Nat /\ n >= 1 /\ d \in Nat /\ h = F[1] /\ h \in Bytes /\ w \in Nat
      /\ t \in Seq(Bytes) /\ Len(t) = n - 1 /\ \A k \in 1..(n - 1) : t[k] = F[k + 1]
  <2>1. F[1] \in Bytes /\ n \in Nat /\ n >= 1 /\ d \in Nat
    BY DEF Bytes
  <2>2. t \in Seq(Bytes) /\ Len(t) = n - 1 /\ \A k \in 1..(n - 1) : t[k] = F[k + 1]
    OBVIOUS
  <2>3. h = F[1]
    OBVIOUS
  <2>4. w \in Nat
    BY <2>1, <2>3 DEF Bytes
  <2> QED BY <2>1, <2>2, <2>3, <2>4
<1> HIDE DEF n, d, h, t, w
<1>3. /\ p \in [0..n -> Nat] /\ p[0] = a /\ p[n] = d
      /\ \A k \in 0..n : p[k] <= d
      /\ \A k \in 1..n : p[k - 1] <= p[k] /\ F[k] = SubSeq(D, p[k - 1] + 1, p[k])
  BY <1>1 DEF CutsAt, n, d
<1>4. p[1] \in Nat /\ a <= p[1] /\ p[1] <= d /\ h = SubSeq(D, a + 1, p[1])
  <2>1. 1 \in 1..n /\ 1 \in 0..n /\ 1 - 1 = 0
    BY <1>2
  <2>2. p[1 - 1] <= p[1] /\ F[1] = SubSeq(D, p[1 - 1] + 1, p[1])
    BY <1>3, <2>1
  <2> QED BY <1>2, <1>3, <2>1, <2>2
<1>5. p[1] = a + w
  <2> DEFINE x == p[1]
  <2>1. x \in Nat /\ a <= x /\ x <= d
    BY <1>4
  <2> HIDE DEF x
  <2>2. Len(SubSeq(D, a + 1, x)) = x - a
    <3> DEFINE l == a + 1
    <3>1. l \in Nat /\ l >= 1 /\ l <= x + 1 /\ x <= Len(D) /\ x - l + 1 = x - a
      BY <2>1 DEF d
    <3> HIDE DEF l
    <3>2. Len(SubSeq(D, l, x)) = x - l + 1
      BY <2>1, <3>1 DEF Bytes
    <3> QED BY <3>1, <3>2 DEF l
  <2>3. w = x - a
    BY <1>4, <2>2 DEF x, w
  <2> QED BY <2>1, <2>3 DEF x
<1>6. Cut(t, D, a + w)
  <2> DEFINE m == n - 1
             q == [k \in 0..m |-> p[k + 1]]
  <2>1. m \in Nat /\ n = m + 1 /\ Len(t) = m
    BY <1>2
  <2> HIDE DEF m
  <2>2. \A k \in 0..m : k + 1 \in 0..n /\ k + 1 \in 1..n
    BY <2>1
  <2>3. q \in [0..m -> Nat] /\ \A k \in 0..m : q[k] <= d
    <3>1. \A k \in 0..m : p[k + 1] \in Nat /\ p[k + 1] <= d
      BY <1>3, <2>2
    <3> QED BY <3>1
  <2>4. q[0] = a + w /\ q[m] = d
    <3>1. 0 \in 0..m /\ m \in 0..m /\ 0 + 1 = 1
      BY <2>1
    <3> QED BY <1>3, <1>5, <2>1, <3>1
  <2>5. ASSUME NEW k \in 1..m PROVE q[k - 1] <= q[k] /\ t[k] = SubSeq(D, q[k - 1] + 1, q[k])
    <3> DEFINE j == k + 1
    <3>1. j \in 1..n /\ j - 1 = k /\ k - 1 \in 0..m /\ k \in 0..m /\ k - 1 + 1 = k
      BY <2>1
    <3>2. q[k] = p[j] /\ q[k - 1] = p[j - 1]
      BY <3>1
    <3>3. t[k] = F[j]
      BY <1>2, <2>1
    <3> HIDE DEF j, q
    <3>4. p[j - 1] <= p[j] /\ F[j] = SubSeq(D, p[j - 1] + 1, p[j])
      BY <1>3, <3>1
    <3> QED BY <3>2, <3>3, <3>4
  <2> HIDE DEF q
  <2>6. CutsAt(q, t, D, a + w)
    BY <2>1, <2>3, <2>4, <2>5 DEF CutsAt, d
  <2> QED BY <2>6 DEF Cut
<1>7. n = 1 => a + w = d
  BY <1>3, <1>5
<1>8. n # 1 => t # <<>>
  <2>1. n # 1 => Len(t) # 0
    BY <1>2
  <2> QED BY <2>1
<1> QED BY <1>2, <1>4, <1>5, <1>6, <1>7, <1>8 DEF n, d, h, t, w

-----------------------------------------------------------------------------
(* Byte strings with the same bytes are the same.                          *)
LEMMA EqualBytes ==
    ASSUME NEW s \in Seq(Int), NEW t \in Seq(Int), Len(s) = Len(t), \A i \in 1..Len(s) : s[i] = t[i]
    PROVE  s = t
OBVIOUS

(* A splice is a byte string that reaches as far as the longer of the two. *)
LEMMA SpliceType ==
    ASSUME NEW base \in Bytes, NEW at \in Nat, NEW new \in Bytes
    PROVE  /\ Splice(base, at, new) \in Bytes
           /\ Len(Splice(base, at, new)) = IF at + Len(new) > Len(base) THEN at + Len(new) ELSE Len(base)
           /\ \A i \in 1..Len(Splice(base, at, new)) :
                Splice(base, at, new)[i] = IF at < i /\ i <= at + Len(new) THEN new[i - at]
                                           ELSE IF i <= Len(base) THEN base[i] ELSE 0
<1> DEFINE m == Len(base)  w == Len(new)  end == at + w
           n == IF end > m THEN end ELSE m
           E(i) == IF at < i /\ i <= end THEN new[i - at] ELSE IF i <= m THEN base[i] ELSE 0
<1>1. m \in Nat /\ w \in Nat /\ end \in Nat /\ n \in Nat /\ n >= end /\ n >= m
  BY DEF Bytes
<1>2. Splice(base, at, new) = [i \in 1..n |-> E(i)]
  BY DEF Splice
<1>3. ASSUME NEW i \in 1..n PROVE E(i) \in Int
  <2>1. CASE at < i /\ i <= end
    <3>1. i - at \in 1..w
      BY <1>1, <2>1
    <3> QED BY <2>1, <3>1 DEF Bytes
  <2>2. CASE ~(at < i /\ i <= end) /\ i <= m
    <3>1. i \in 1..m
      BY <1>1, <2>2
    <3> QED BY <2>2, <3>1 DEF Bytes
  <2>3. CASE ~(at < i /\ i <= end) /\ ~(i <= m)
    BY <2>3
  <2> QED BY <2>1, <2>2, <2>3
<1> HIDE DEF n
<1>4. [i \in 1..n |-> E(i)] \in Bytes /\ Len([i \in 1..n |-> E(i)]) = n
      /\ \A i \in 1..n : [j \in 1..n |-> E(j)][i] = E(i)
  <2> HIDE DEF E
  <2> QED BY <1>1, <1>3 DEF Bytes
<1> QED BY <1>2, <1>4 DEF n

(* Two splices, one after the other, are one splice of both.               *)
LEMMA SpliceExtends ==
    ASSUME NEW base \in Bytes, NEW at \in Nat, NEW done \in Bytes, NEW new \in Bytes
    PROVE  Splice(Splice(base, at, done), at + Len(done), new) = Splice(base, at, done \o new)
<1> DEFINE m == Len(base)  d == Len(done)  w == Len(new)
           S == Splice(base, at, done)  all == done \o new
           L == Splice(S, at + d, new)  R == Splice(base, at, all)
<1>1. m \in Nat /\ d \in Nat /\ w \in Nat
  BY DEF Bytes
<1>2. all \in Bytes /\ Len(all) = d + w /\ \A k \in 1..(d + w) : all[k] = IF k <= d THEN done[k] ELSE new[k - d]
  BY DEF Bytes
<1>3. /\ S \in Bytes
      /\ Len(S) = IF at + d > m THEN at + d ELSE m
      /\ \A i \in 1..Len(S) : S[i] = IF at < i /\ i <= at + d THEN done[i - at] ELSE IF i <= m THEN base[i] ELSE 0
  BY SpliceType
<1>4. /\ R \in Bytes
      /\ Len(R) = IF at + Len(all) > m THEN at + Len(all) ELSE m
      /\ \A i \in 1..Len(R) : R[i] = IF at < i /\ i <= at + Len(all) THEN all[i - at] ELSE IF i <= m THEN base[i] ELSE 0
  <2> HIDE DEF all
  <2> QED BY <1>2, SpliceType
<1>5. /\ L \in Bytes
      /\ Len(L) = IF at + d + w > Len(S) THEN at + d + w ELSE Len(S)
      /\ \A i \in 1..Len(L) : L[i] = IF at + d < i /\ i <= at + d + w THEN new[i - (at + d)] ELSE IF i <= Len(S) THEN S[i] ELSE 0
  <2> DEFINE e == at + d
  <2>1. e \in Nat
    BY <1>1
  <2> HIDE DEF S, e
  <2>2. /\ Splice(S, e, new) \in Bytes
        /\ Len(Splice(S, e, new)) = IF e + w > Len(S) THEN e + w ELSE Len(S)
        /\ \A i \in 1..Len(Splice(S, e, new)) :
             Splice(S, e, new)[i] = IF e < i /\ i <= e + w THEN new[i - e] ELSE IF i <= Len(S) THEN S[i] ELSE 0
    BY <1>3, <2>1, SpliceType
  <2> QED BY <2>2 DEF e
<1> HIDE DEF S, L, R, all, m, d, w
<1>6. Len(L) = Len(R) /\ Len(L) \in Nat
  BY <1>1, <1>2, <1>3, <1>4, <1>5
<1>7. ASSUME NEW i \in 1..Len(L) PROVE L[i] = R[i]
  <2>0. i \in Nat /\ i >= 1
    BY <1>6
  <2>1. CASE i <= at
    <3>1. L[i] = IF i <= Len(S) THEN S[i] ELSE 0
      BY <1>1, <1>5, <2>0, <2>1
    <3>2. R[i] = IF i <= m THEN base[i] ELSE 0
      BY <1>1, <1>4, <1>6, <2>0, <2>1
    <3>3. i \in 1..Len(S) => S[i] = IF i <= m THEN base[i] ELSE 0
      BY <1>1, <1>3, <2>0, <2>1
    <3>4. ~(i <= Len(S)) => ~(i <= m)
      BY <1>1, <1>3, <2>0
    <3>5. i <= Len(S) => i \in 1..Len(S)
      BY <1>1, <1>3, <2>0
    <3> QED BY <3>1, <3>2, <3>3, <3>4, <3>5
  <2>2. CASE at < i /\ i <= at + d
    <3>1. i \in 1..Len(S) /\ i <= Len(S)
      BY <1>1, <1>3, <2>0, <2>2
    <3>2. L[i] = S[i]
      BY <1>1, <1>5, <2>0, <2>2, <3>1
    <3>3. S[i] = done[i - at]
      BY <1>3, <2>2, <3>1
    <3>4. R[i] = all[i - at]
      BY <1>1, <1>2, <1>4, <1>6, <2>0, <2>2
    <3>5. i - at \in 1..(d + w) /\ i - at <= d
      BY <1>1, <2>0, <2>2
    <3>6. all[i - at] = done[i - at]
      BY <1>2, <3>5
    <3> QED BY <3>2, <3>3, <3>4, <3>6
  <2>3. CASE at + d < i /\ i <= at + d + w
    <3>1. L[i] = new[i - (at + d)]
      BY <1>5, <2>3
    <3>2. R[i] = all[i - at]
      BY <1>1, <1>2, <1>4, <1>6, <2>0, <2>3
    <3>3. i - at \in 1..(d + w) /\ ~(i - at <= d) /\ (i - at) - d = i - (at + d)
      BY <1>1, <2>0, <2>3
    <3>4. all[i - at] = new[(i - at) - d]
      BY <1>2, <3>3
    <3> QED BY <3>1, <3>2, <3>3, <3>4
  <2>4. CASE i > at + d + w
    <3>1. L[i] = IF i <= Len(S) THEN S[i] ELSE 0
      BY <1>1, <1>5, <2>0, <2>4
    <3>2. R[i] = IF i <= m THEN base[i] ELSE 0
      BY <1>1, <1>2, <1>4, <1>6, <2>0, <2>4
    <3>3. i \in 1..Len(S) => S[i] = IF i <= m THEN base[i] ELSE 0
      BY <1>1, <1>3, <2>0, <2>4
    <3>4. ~(i <= Len(S)) => ~(i <= m)
      BY <1>1, <1>3, <2>0
    <3>5. i <= Len(S) => i \in 1..Len(S)
      BY <1>1, <1>3, <2>0
    <3> QED BY <3>1, <3>2, <3>3, <3>4, <3>5
  <2> QED BY <1>1, <2>0, <2>1, <2>2, <2>3, <2>4
<1>8. L = R
  <2>1. L \in Seq(Int) /\ R \in Seq(Int)
    BY <1>4, <1>5 DEF Bytes
  <2> QED BY <1>6, <1>7, <2>1
<1> QED BY <1>8 DEF L, R, S, all, d

(* A splice into an empty file.                                            *)
LEMMA SpliceNothing ==
    ASSUME NEW base \in Bytes, NEW at \in Nat, NEW new \in Bytes
    PROVE  Splice(<<>>, 0, new) = new
<1> DEFINE R == Splice(<<>>, 0, new)  w == Len(new)
<1>1. <<>> \in Bytes /\ Len(<<>>) = 0 /\ w \in Nat
  BY DEF Bytes
<1>2. /\ R \in Bytes
      /\ Len(R) = IF 0 + w > 0 THEN 0 + w ELSE 0
      /\ \A i \in 1..Len(R) : R[i] = IF 0 < i /\ i <= 0 + w THEN new[i - 0] ELSE IF i <= 0 THEN <<>>[i] ELSE 0
  <2> DEFINE none == <<>>
  <2>1. none \in Bytes /\ Len(none) = 0
    BY <1>1
  <2> HIDE DEF none
  <2>2. /\ Splice(none, 0, new) \in Bytes
        /\ Len(Splice(none, 0, new)) = IF 0 + w > 0 THEN 0 + w ELSE 0
        /\ \A i \in 1..Len(Splice(none, 0, new)) :
            Splice(none, 0, new)[i] = IF 0 < i /\ i <= 0 + w THEN new[i - 0] ELSE IF i <= 0 THEN none[i] ELSE 0
    BY <2>1, SpliceType
  <2> QED BY <2>2 DEF none
<1> HIDE DEF R
<1>3. Len(R) = w
  BY <1>1, <1>2
<1>4. ASSUME NEW i \in 1..w PROVE R[i] = new[i]
  <2>1. 0 < i /\ i <= 0 + w /\ i - 0 = i
    BY <1>1
  <2> QED BY <1>2, <1>3, <2>1
<1>5. R = new
  <2>1. R \in Seq(Int) /\ new \in Seq(Int) /\ Len(R) = Len(new)
    BY <1>2, <1>3 DEF Bytes
  <2>2. \A i \in 1..Len(R) : R[i] = new[i]
    BY <1>3, <1>4
  <2> HIDE DEF w
  <2> QED BY <2>1, <2>2, EqualBytes
<1> QED BY <1>5 DEF R

(* Two windows, one after the other.                                       *)
LEMMA WindowsJoin ==
    ASSUME NEW s \in Bytes, NEW a \in Nat, NEW b \in Nat, NEW c \in Nat, a <= b, b <= c, c <= Len(s)
    PROVE  /\ SubSeq(s, a + 1, b) \in Bytes /\ Len(SubSeq(s, a + 1, b)) = b - a
           /\ SubSeq(s, b + 1, c) \in Bytes /\ Len(SubSeq(s, b + 1, c)) = c - b
           /\ SubSeq(s, a + 1, b) \o SubSeq(s, b + 1, c) = SubSeq(s, a + 1, c)
<1>1. \A x, y \in Nat : x <= y /\ y <= Len(s) =>
        /\ SubSeq(s, x + 1, y) \in Bytes /\ Len(SubSeq(s, x + 1, y)) = y - x
        /\ \A k \in 1..(y - x) : SubSeq(s, x + 1, y)[k] = s[x + k]
  <2> TAKE x, y \in Nat
  <2> HAVE x <= y /\ y <= Len(s)
  <2> DEFINE l == x + 1  T == SubSeq(s, l, y)
  <2>1. l \in Nat /\ l >= 1 /\ l <= y + 1 /\ y - l + 1 = y - x
    OBVIOUS
  <2>2. \A k \in 1..(y - x) : l + k - 1 = x + k
    OBVIOUS
  <2> HIDE DEF l
  <2>3. T \in Seq(Int) /\ Len(T) = y - l + 1 /\ \A k \in 1..(y - l + 1) : T[k] = s[l + k - 1]
    BY <2>1 DEF Bytes
  <2> HIDE DEF T
  <2>4. T \in Bytes /\ Len(T) = y - x /\ \A k \in 1..(y - x) : T[k] = s[x + k]
    BY <2>1, <2>2, <2>3 DEF Bytes
  <2> QED BY <2>4 DEF T, l
<1> DEFINE A == SubSeq(s, a + 1, b)  B == SubSeq(s, b + 1, c)  C == SubSeq(s, a + 1, c)  AB == A \o B
<1>2. A \in Bytes /\ Len(A) = b - a /\ \A k \in 1..(b - a) : A[k] = s[a + k]
  <2>1. b <= Len(s)
    BY DEF Bytes
  <2> QED BY <1>1, <2>1
<1>3. B \in Bytes /\ Len(B) = c - b /\ \A k \in 1..(c - b) : B[k] = s[b + k]
  BY <1>1
<1>4. C \in Bytes /\ Len(C) = c - a /\ \A k \in 1..(c - a) : C[k] = s[a + k]
  BY <1>1
<1> HIDE DEF A, B, C
<1>5. AB \in Bytes /\ Len(AB) = Len(A) + Len(B)
      /\ \A k \in 1..(Len(A) + Len(B)) : AB[k] = IF k <= Len(A) THEN A[k] ELSE B[k - Len(A)]
  <2>1. A \in Seq(Int) /\ B \in Seq(Int)
    BY <1>2, <1>3 DEF Bytes
  <2> QED BY <2>1 DEF Bytes
<1> HIDE DEF AB
<1>6. ASSUME NEW k \in 1..(c - a) PROVE AB[k] = C[k]
  <2>1. k \in 1..(Len(A) + Len(B)) /\ C[k] = s[a + k]
    BY <1>2, <1>3, <1>4
  <2>2. CASE k <= b - a
    <3>1. k \in 1..(b - a) /\ k <= Len(A)
      BY <1>2, <2>2
    <3> QED BY <1>2, <1>5, <2>1, <3>1
  <2>3. CASE ~(k <= b - a)
    <3> DEFINE j == k - (b - a)
    <3>1. j \in 1..(c - b) /\ b + j = a + k /\ ~(k <= Len(A)) /\ k - Len(A) = j
      BY <1>2, <2>3
    <3> HIDE DEF j
    <3>2. AB[k] = B[j]
      BY <1>5, <2>1, <3>1
    <3>3. B[j] = s[a + k]
      BY <1>3, <3>1
    <3> QED BY <2>1, <3>2, <3>3
  <2> QED BY <2>2, <2>3
<1>7. Len(AB) = Len(C) /\ Len(C) = c - a
  BY <1>2, <1>3, <1>4, <1>5
<1>8. AB = C
  <2>1. AB \in Seq(Int) /\ C \in Seq(Int)
    BY <1>4, <1>5 DEF Bytes
  <2> QED BY <1>6, <1>7, <2>1
<1> QED BY <1>2, <1>3, <1>8 DEF A, B, C, AB

(* A prefix and the window after it.                                      *)
LEMMA PrefixJoins ==
    ASSUME NEW s \in Bytes, NEW b \in Nat, NEW c \in Nat, b <= c, c <= Len(s)
    PROVE  /\ SubSeq(s, 1, b) \in Bytes /\ Len(SubSeq(s, 1, b)) = b
           /\ SubSeq(s, 1, b) \o SubSeq(s, b + 1, c) = SubSeq(s, 1, c)
<1> DEFINE a == 0
<1>1. a \in Nat /\ a <= b /\ a + 1 = 1 /\ b - a = b
  OBVIOUS
<1> HIDE DEF a
<1>2. SubSeq(s, a + 1, b) \in Bytes
  BY <1>1, WindowsJoin
<1>3. Len(SubSeq(s, a + 1, b)) = b - a
  BY <1>1, WindowsJoin
<1>4. SubSeq(s, a + 1, b) \o SubSeq(s, b + 1, c) = SubSeq(s, a + 1, c)
  BY <1>1, WindowsJoin
<1> QED BY <1>1, <1>2, <1>3, <1>4

(* The window of everything.                                               *)
LEMMA WholeWindow ==
    ASSUME NEW s \in Bytes
    PROVE  SubSeq(s, 1, Len(s)) = s
BY DEF Bytes

(* A window reaches from the offset to at most the end, and only an empty  *)
(* or last one reaches it.                                                 *)
LEMMA WindowIs ==
    ASSUME NEW body \in Bytes, NEW offset \in Nat
    PROVE  /\ Window(body, offset) \in Bytes
           /\ offset <= Len(body) =>
                LET w == Len(Window(body, offset)) IN
                /\ w \in Nat /\ offset + w <= Len(body)
                /\ Window(body, offset) = SubSeq(body, offset + 1, offset + w)
                /\ Window(body, offset) = <<>> => offset = Len(body)
<1> DEFINE n == Len(body)  u == UpChunk  l == offset + 1
           h == IF offset + u < n THEN offset + u ELSE n
           W == SubSeq(body, l, h)
<1>1. n \in Nat /\ u \in Nat \ {0} /\ h \in Nat /\ h <= n /\ l \in Nat /\ l >= 1
  BY SdkFilesAssumption DEF Bytes
<1>2. Window(body, offset) = W
  BY DEF Window
<1>3. offset <= n => offset <= h /\ (h = offset => offset = n)
  BY <1>1
<1> HIDE DEF h, n, u
<1>4. W \in Bytes
  <2> HIDE DEF l
  <2> QED BY <1>1 DEF Bytes, n
<1>5. offset <= n => Len(W) = h - offset
  <2> HAVE offset <= n
  <2>1. l <= h + 1 /\ h - l + 1 = h - offset
    BY <1>1, <1>3
  <2> HIDE DEF l
  <2>2. Len(SubSeq(body, l, h)) = h - l + 1
    BY <1>1, <2>1 DEF Bytes, n
  <2> QED BY <2>1, <2>2
<1> DEFINE w == Len(W)
<1>6. offset <= n => w \in Nat /\ offset + w = h /\ (W = <<>> => w = 0)
  <2> HIDE DEF l
  <2> HAVE offset <= n
  <2>1. w = h - offset /\ h - offset \in Nat
    BY <1>1, <1>3, <1>5
  <2>2. W = <<>> => w = 0
    <3> HIDE DEF W
    <3> QED OBVIOUS
  <2> HIDE DEF w, W
  <2> QED BY <1>1, <2>1, <2>2
<1> HIDE DEF w
<1>7. offset <= n => W = SubSeq(body, offset + 1, offset + w)
  BY <1>6
<1>8. offset <= n /\ W = <<>> => offset = n
  <2> HIDE DEF W
  <2> QED BY <1>1, <1>3, <1>6
<1>9. offset <= n => offset + w <= n
  BY <1>1, <1>6
<1> HIDE DEF W
<1> QED BY <1>2, <1>4, <1>6, <1>7, <1>8, <1>9 DEF n, w

-----------------------------------------------------------------------------
Pcs == {"idle", "writing", "wrote", "reading", "artifact", "read", "failed"}

CallType ==
    [pc : Pcs, from : Nat, frames : Seq(Bytes), offset : Nat, first : BOOLEAN, truncate : BOOLEAN,
     written : Nat, got : Bytes, base : Bytes, alone : BOOLEAN, unread : BOOLEAN, data : Bytes]

UpType == up \in [exists : BOOLEAN, body : Bytes, calls : [UpCallers -> CallType], made : Nat]

(* A call under way has done a part of its work, and one that returned all *)
(* of it, as far as no other write came between and R2 gave it the file.   *)
WritingOk(k, body) ==
    /\ k.frames # <<>> /\ Cut(k.frames, k.data, k.written)
    /\ k.offset = k.from + k.written
    /\ k.truncate => k.from = 0 /\ k.base = <<>>
    /\ k.first => k.written = 0
    /\ k.first => ~k.unread
    /\ k.alone => /\ k.first /\ ~k.truncate => body = k.base
                  /\ ~k.first /\ ~k.unread => body = Splice(k.base, k.from, SubSeq(k.data, 1, k.written))

WroteOk(k, body) ==
    k.alone => k.written = Len(k.data) /\ (~k.unread => body = Splice(k.base, k.from, k.data))

ReadingOk(k, body) ==
    k.alone => k.from <= k.offset /\ k.offset <= Len(body) /\ k.got = SubSeq(body, k.from + 1, k.offset)

ArtifactOk(k) ==
    k.from = 0 /\ k.offset <= Len(Artifact) /\ k.got = SubSeq(Artifact, 1, k.offset)

ReadOk(k) == k.alone => k.got = SubSeq(k.base, k.from + 1, Len(k.base))

CallOk(k, body) ==
    /\ k.pc = "writing" => WritingOk(k, body)
    /\ k.pc = "wrote" => WroteOk(k, body)
    /\ k.pc = "reading" => ReadingOk(k, body)
    /\ k.pc = "artifact" => ArtifactOk(k)
    /\ k.pc = "read" => ReadOk(k)

(* While a call writes no other is alone.                                  *)
AloneInv == \A c, d \in UpCallers : c # d /\ up.calls[c].alone => up.calls[d].pc # "writing"

UpInv == UpType /\ AloneInv /\ \A c \in UpCallers : CallOk(up.calls[c], up.body)

(* The file does not matter to a call that is not alone.                   *)
LEMMA NotAloneOk ==
    ASSUME NEW k, NEW body, NEW other, CallOk(k, body), ~k.alone
    PROVE  CallOk(k, other)
BY DEF CallOk, WritingOk, WroteOk, ReadingOk, ReadOk

(* A call that another write overlaps stays in order.                      *)
LEMMA DisturbedOk ==
    ASSUME NEW k \in CallType, NEW body, CallOk(k, body)
    PROVE  LET m == [k EXCEPT !.alone = FALSE] IN m \in CallType /\ m.pc = k.pc /\ ~m.alone /\ CallOk(m, body)
<1> DEFINE m == [k EXCEPT !.alone = FALSE]
<1>1. m \in CallType
  BY DEF CallType
<1>2. /\ m.pc = k.pc /\ m.from = k.from /\ m.frames = k.frames /\ m.offset = k.offset /\ m.first = k.first
      /\ m.truncate = k.truncate /\ m.written = k.written /\ m.got = k.got /\ m.base = k.base
      /\ m.data = k.data /\ m.unread = k.unread /\ m.alone = FALSE
  BY DEF CallType
<1> HIDE DEF m
<1>3. CallOk(m, body)
  <2>1. k.pc = "writing" => WritingOk(m, body)
    BY <1>2 DEF CallOk, WritingOk
  <2>2. k.pc = "artifact" => ArtifactOk(m)
    BY <1>2 DEF CallOk, ArtifactOk
  <2> QED BY <1>2, <2>1, <2>2 DEF CallOk, WroteOk, ReadingOk, ReadOk
<1> QED BY <1>1, <1>2, <1>3 DEF m

(* The artifact is a byte string.                                          *)
LEMMA ArtifactType == Artifact \in Bytes /\ Len(Artifact) = UpArtifact
<1>1. UpArtifact \in Nat
  BY SdkFilesAssumption
<1> QED BY <1>1 DEF Artifact, Bytes

(* A call begins.                                                          *)
LEMMA StartingOk ==
    ASSUME UpInv, NEW c \in UpCallers, UpFree(c), NEW call \in CallType, NEW isWrite \in BOOLEAN,
           up' = Starting(c, call, isWrite), CallOk(call, up.body), call.alone,
           call.pc = "writing" => isWrite
    PROVE  UpInv'
<1> DEFINE busy == \E d \in UpCallers \ {c} : up.calls[d].pc = "writing"
           mine == [call EXCEPT !.alone = ~busy]
           kept(d) == [up.calls[d] EXCEPT !.alone = @ /\ ~isWrite]
           calls == [d \in UpCallers |-> IF d = c THEN mine ELSE kept(d)]
<1>1. /\ up.body \in Bytes /\ up.made \in Nat /\ up.exists \in BOOLEAN /\ up.calls \in [UpCallers -> CallType]
      /\ up' = [up EXCEPT !.made = @ + 1, !.calls = calls]
  BY DEF UpInv, UpType, Starting
<1>2. up'.body = up.body /\ up'.made = up.made + 1 /\ up'.exists = up.exists /\ up'.calls = calls
      /\ DOMAIN up' = {"exists", "body", "calls", "made"}
  <2> HIDE DEF calls
  <2> QED BY <1>1 DEF UpInv, UpType
<1>3. mine \in CallType /\ mine.pc = call.pc /\ (mine.alone <=> ~busy) /\ CallOk(mine, up.body)
  <2> busy \in BOOLEAN
    OBVIOUS
  <2> HIDE DEF busy
  <2>1. CASE busy
    <3>1. mine = [call EXCEPT !.alone = FALSE]
      BY <2>1
    <3> HIDE DEF mine
    <3> QED BY <2>1, <3>1, DisturbedOk
  <2>2. CASE ~busy
    <3>1. mine = call
      BY <2>2 DEF CallType
    <3> HIDE DEF mine
    <3> QED BY <2>2, <3>1
  <2> QED BY <2>1, <2>2
<1>4. ASSUME NEW d \in UpCallers, d # c
      PROVE  /\ kept(d) \in CallType /\ kept(d).pc = up.calls[d].pc /\ CallOk(kept(d), up.body)
             /\ kept(d).alone => up.calls[d].alone /\ ~isWrite
  <2> DEFINE k == up.calls[d]
  <2>1. k \in CallType /\ CallOk(k, up.body) /\ k.alone \in BOOLEAN
    BY <1>1 DEF UpInv, CallType
  <2>2. kept(d) = [k EXCEPT !.alone = k.alone /\ ~isWrite]
    OBVIOUS
  <2> HIDE DEF k
  <2>3. CASE k.alone /\ ~isWrite
    <3>1. kept(d) = k
      BY <2>1, <2>2, <2>3 DEF CallType
    <3> HIDE DEF kept
    <3> QED BY <2>1, <2>3, <3>1 DEF k
  <2>4. CASE ~(k.alone /\ ~isWrite)
    <3>1. kept(d) = [k EXCEPT !.alone = FALSE]
      BY <2>1, <2>2, <2>4
    <3> HIDE DEF kept
    <3> QED BY <2>1, <3>1, DisturbedOk DEF k
  <2> QED BY <2>3, <2>4
<1>5. ASSUME NEW d \in UpCallers PROVE calls[d] = IF d = c THEN mine ELSE kept(d)
  OBVIOUS
<1>6. DOMAIN calls = UpCallers /\ calls = [d \in UpCallers |-> calls[d]]
  OBVIOUS
<1> HIDE DEF mine, kept, calls
<1>7. calls \in [UpCallers -> CallType]
  BY <1>3, <1>4, <1>5, <1>6
<1>8. UpType'
  <2>1. up' = [exists |-> up.exists, body |-> up.body, calls |-> calls, made |-> up.made + 1]
    BY <1>1 DEF UpInv, UpType
  <2>2. up.made + 1 \in Nat
    BY <1>1
  <2> QED BY <1>1, <1>7, <2>1, <2>2 DEF UpType
<1>9. AloneInv'
  <2> SUFFICES ASSUME NEW a \in UpCallers, NEW d \in UpCallers, a # d, calls[a].alone
               PROVE  calls[d].pc # "writing"
    BY <1>2 DEF AloneInv
  <2>1. CASE d = c
    BY <1>3, <1>4, <1>5, <2>1
  <2>2. CASE a = c
    <3>1. ~busy
      BY <1>3, <1>5, <2>2
    <3> QED BY <1>4, <1>5, <2>2, <3>1
  <2>3. CASE a # c /\ d # c
    BY <1>4, <1>5, <2>3 DEF UpInv, AloneInv
  <2> QED BY <2>1, <2>2, <2>3
<1>10. \A d \in UpCallers : CallOk(calls[d], up.body)
  BY <1>3, <1>4, <1>5
<1> QED BY <1>2, <1>8, <1>9, <1>10 DEF UpInv

(* One step of a call under way.                                           *)
LEMMA StepOk ==
    ASSUME UpInv, NEW c \in UpCallers, NEW call \in CallType, NEW body \in Bytes, NEW exists \in BOOLEAN,
           up' = [up EXCEPT !.exists = exists, !.body = body, !.calls[c] = call],
           CallOk(call, body), call.alone => up.calls[c].alone,
           call.pc = "writing" => up.calls[c].pc = "writing",
           body # up.body => up.calls[c].pc = "writing"
    PROVE  UpInv'
<1> DEFINE calls == [up.calls EXCEPT ![c] = call]
<1>1. /\ up.body \in Bytes /\ up.made \in Nat /\ up.exists \in BOOLEAN /\ up.calls \in [UpCallers -> CallType]
  BY DEF UpInv, UpType
<1>2. up' = [exists |-> exists, body |-> body, calls |-> calls, made |-> up.made]
  BY DEF UpInv, UpType
<1>3. calls \in [UpCallers -> CallType] /\ \A d \in UpCallers : calls[d] = IF d = c THEN call ELSE up.calls[d]
  BY <1>1
<1> HIDE DEF calls
<1>4. UpType'
  BY <1>1, <1>2, <1>3 DEF UpType
<1>5. up'.body = body /\ up'.calls = calls
  <2> DEFINE r == [exists |-> exists, body |-> body, calls |-> calls, made |-> up.made]
  <2>1. r.body = body /\ r.calls = calls
    OBVIOUS
  <2>2. up' = r
    BY <1>2
  <2> HIDE DEF r
  <2> QED BY <2>1, <2>2
<1>6. AloneInv'
  BY <1>3, <1>5 DEF UpInv, AloneInv
<1>7. ASSUME NEW d \in UpCallers PROVE CallOk(calls[d], body)
  <2>1. CASE d = c
    BY <1>3, <2>1
  <2>2. CASE d # c
    <3>1. calls[d] = up.calls[d] /\ CallOk(up.calls[d], up.body)
      BY <1>3, <2>2 DEF UpInv
    <3>2. CASE body = up.body
      BY <3>1, <3>2
    <3>3. CASE body # up.body
      <4>1. ~up.calls[d].alone
        BY <2>2, <3>3 DEF UpInv, AloneInv
      <4> QED BY <3>1, <4>1, NotAloneOk
    <3> QED BY <3>2, <3>3
  <2> QED BY <2>1, <2>2
<1> QED BY <1>4, <1>5, <1>6, <1>7 DEF UpInv

(* The parts of a writeFile call, each byte named after the call.          *)
LEMMA PartsType ==
    ASSUME NEW m \in Nat, NEW lens \in Seq(Nat)
    PROVE  [p \in DOMAIN lens |-> [i \in 1..lens[p] |-> 10 * (m + 1) + 3 * p + i]] \in Seq(Bytes)
<1> DEFINE n == Len(lens)  part(p) == [i \in 1..lens[p] |-> 10 * (m + 1) + 3 * p + i]
<1>1. n \in Nat /\ DOMAIN lens = 1..n
  OBVIOUS
<1>2. ASSUME NEW p \in 1..n PROVE part(p) \in Bytes
  <2>1. lens[p] \in Nat /\ p \in Nat
    BY <1>1
  <2>2. \A i \in 1..lens[p] : 10 * (m + 1) + 3 * p + i \in Int
    BY <2>1
  <2> DEFINE e(i) == 10 * (m + 1) + 3 * p + i  l == lens[p]
  <2>3. part(p) = [i \in 1..l |-> e(i)]
    OBVIOUS
  <2> HIDE DEF e, part
  <2>4. l \in Nat /\ \A i \in 1..l : e(i) \in Int
    BY <2>1, <2>2 DEF e
  <2> HIDE DEF l
  <2> QED BY <2>3, <2>4 DEF Bytes
<1> HIDE DEF part, n
<1>3. [p \in 1..n |-> part(p)] \in Seq(Bytes)
  BY <1>1, <1>2
<1> QED BY <1>1, <1>3 DEF part

(* WriteFrame, for the call and for the file it leaves.                    *)
LEMMA FrameWritten ==
    ASSUME NEW k \in CallType, NEW body \in Bytes, WritingOk(k, body), NEW unread \in BOOLEAN
    PROVE  LET slice == Head(k.frames)
               B == VfsWrite(body, k.offset, slice, k.first /\ k.truncate, unread)
               m == [k EXCEPT !.frames = Tail(@), !.offset = @ + Len(slice), !.written = @ + Len(slice),
                              !.first = FALSE, !.unread = @ \/ unread,
                              !.pc = IF Len(k.frames) = 1 THEN "wrote" ELSE "writing"] IN
           B \in Bytes /\ m \in CallType /\ m.alone = k.alone /\ CallOk(m, B)
<1> DEFINE slice == Head(k.frames)  w == Len(slice)  F == k.frames  D == k.data  a == k.written
           B == VfsWrite(body, k.offset, slice, k.first /\ k.truncate, unread)
           pc == IF Len(k.frames) = 1 THEN "wrote" ELSE "writing"
           m == [k EXCEPT !.frames = Tail(@), !.offset = @ + Len(slice), !.written = @ + Len(slice),
                          !.first = FALSE, !.unread = @ \/ unread, !.pc = pc]
<1>1. /\ F \in Seq(Bytes) /\ D \in Bytes /\ a \in Nat /\ k.from \in Nat /\ k.offset \in Nat /\ k.base \in Bytes
      /\ k.first \in BOOLEAN /\ k.truncate \in BOOLEAN /\ k.alone \in BOOLEAN /\ k.unread \in BOOLEAN
  BY DEF CallType
<1>2. /\ F # <<>> /\ Cut(F, D, a) /\ k.offset = k.from + a
      /\ k.truncate => k.from = 0 /\ k.base = <<>>
      /\ k.first => a = 0 /\ ~k.unread
  BY DEF WritingOk
<1>3. /\ slice \in Bytes /\ w \in Nat /\ a + w <= Len(D) /\ slice = SubSeq(D, a + 1, a + w)
      /\ Tail(F) \in Seq(Bytes) /\ Cut(Tail(F), D, a + w)
      /\ Len(F) = 1 => a + w = Len(D)
      /\ Len(F) # 1 => Tail(F) # <<>>
  <2> HIDE DEF F, D, a
  <2>1. Head(F) \in Bytes /\ Len(Head(F)) \in Nat /\ a + Len(Head(F)) <= Len(D)
        /\ Head(F) = SubSeq(D, a + 1, a + Len(Head(F)))
        /\ Tail(F) \in Seq(Bytes) /\ Cut(Tail(F), D, a + Len(Head(F)))
        /\ (Len(F) = 1 => a + Len(Head(F)) = Len(D))
        /\ (Len(F) # 1 => Tail(F) # <<>>)
    BY <1>1, <1>2, CutTail
  <2> QED BY <2>1 DEF F
<1>4. B \in Bytes
  <2> DEFINE there == IF unread THEN <<>> ELSE body
  <2>1. there \in Bytes
    BY DEF Bytes
  <2>2. B = IF k.first /\ k.truncate THEN slice ELSE Splice(there, k.offset, slice)
    BY DEF VfsWrite
  <2> HIDE DEF there, B, slice
  <2>3. Splice(there, k.offset, slice) \in Bytes
    BY <1>1, <1>3, <2>1, SpliceType
  <2> QED BY <1>3, <2>2, <2>3
<1>5. pc \in Pcs /\ pc \in {"wrote", "writing"} /\ (pc = "wrote" => Len(F) = 1) /\ (pc = "writing" => Len(F) # 1)
  BY DEF Pcs
<1>6. /\ m.pc = pc /\ m.from = k.from /\ m.frames = Tail(F) /\ m.offset = k.offset + w /\ m.first = FALSE
      /\ m.truncate = k.truncate /\ m.written = a + w /\ m.base = k.base /\ m.alone = k.alone
      /\ m.data = D /\ m.got = k.got /\ m.unread = (k.unread \/ unread)
  <2> HIDE DEF pc, slice
  <2> QED BY DEF CallType
<1>7. m \in CallType
  <2>1. k.offset + w \in Nat /\ a + w \in Nat
    <3> HIDE DEF w, a, slice
    <3> QED BY <1>1, <1>3
  <2>2. m = [k EXCEPT !.frames = Tail(F), !.offset = k.offset + w, !.written = a + w, !.first = FALSE,
                   !.unread = k.unread \/ unread, !.pc = pc]
    OBVIOUS
  <2> HIDE DEF m, pc, w, slice, a, D
  <2> QED BY <1>3, <1>5, <2>1, <2>2 DEF CallType
<1> HIDE DEF m, pc
<1>8. k.alone /\ ~k.unread /\ ~unread => B = Splice(k.base, k.from, SubSeq(D, 1, a + w))
  <2> HAVE k.alone /\ ~k.unread /\ ~unread
  <2>1. CASE k.first /\ k.truncate
    <3>1. B = slice
      BY <2>1 DEF VfsWrite
    <3>2. slice = SubSeq(D, 1, a + w)
      <4>1. a = 0 /\ a + 1 = 1
        BY <1>2, <2>1
      <4> HIDE DEF slice, w, D, a
      <4> QED BY <1>3, <4>1
    <3>3. Splice(<<>>, 0, slice) = slice
      BY <1>1, <1>3, SpliceNothing
    <3>4. k.base = <<>> /\ k.from = 0
      BY <1>2, <2>1
    <3> HIDE DEF slice, B, w, D, a
    <3> QED BY <3>1, <3>2, <3>3, <3>4
  <2>2. CASE k.first /\ ~k.truncate
    <3>1. B = Splice(body, k.offset, slice) /\ body = k.base
      BY <2>2 DEF VfsWrite, WritingOk
    <3>2. a = 0 /\ a + 1 = 1 /\ k.offset = k.from
      BY <1>1, <1>2, <2>2
    <3>3. slice = SubSeq(D, 1, a + w)
      <4> HIDE DEF slice, w, D, a
      <4> QED BY <1>3, <3>2
    <3> HIDE DEF slice, B, w, D, a
    <3> QED BY <3>1, <3>2, <3>3
  <2>3. CASE ~k.first
    <3> DEFINE done == SubSeq(D, 1, a)
    <3>1. B = Splice(body, k.offset, slice) /\ body = Splice(k.base, k.from, done)
      BY <2>3 DEF VfsWrite, WritingOk
    <3>2. /\ done \in Bytes /\ Len(done) = a /\ done \o slice = SubSeq(D, 1, a + w)
      <4> HIDE DEF slice, w, D, a, done, B
      <4>1. 0 <= a /\ a <= a + w /\ a + w \in Nat
        BY <1>1, <1>3
      <4> DEFINE e == a + w
      <4>2. D \in Bytes /\ a \in Nat /\ e \in Nat /\ a <= e /\ e <= Len(D)
        BY <1>1, <1>3, <4>1
      <4> HIDE DEF e
      <4>3. /\ SubSeq(D, 1, a) \in Bytes /\ Len(SubSeq(D, 1, a)) = a
            /\ SubSeq(D, 1, a) \o SubSeq(D, a + 1, e) = SubSeq(D, 1, e)
        BY <4>2, PrefixJoins
      <4> QED BY <1>3, <4>3 DEF done, e
    <3> HIDE DEF slice, B, w, D, a, done
    <3>3. Splice(Splice(k.base, k.from, done), k.from + Len(done), slice) = Splice(k.base, k.from, done \o slice)
      <4> DEFINE base == k.base  at == k.from
      <4>1. base \in Bytes /\ at \in Nat /\ done \in Bytes /\ slice \in Bytes
        BY <1>1, <1>3, <3>2
      <4> HIDE DEF base, at
      <4>2. Splice(Splice(base, at, done), at + Len(done), slice) = Splice(base, at, done \o slice)
        BY <4>1, SpliceExtends
      <4> QED BY <4>2 DEF base, at
    <3>4. k.from + Len(done) = k.offset
      BY <1>2, <3>2
    <3> QED BY <3>1, <3>2, <3>3, <3>4
  <2> QED BY <1>1, <2>1, <2>2, <2>3
<1> HIDE DEF B, slice, w, a, D, F
<1>9. CASE pc = "wrote"
  <2>1. a + w = Len(D)
    BY <1>3, <1>5, <1>9
  <2>2. SubSeq(D, 1, a + w) = D
    BY <1>1, <2>1, WholeWindow
  <2>3. WroteOk(m, B)
    BY <1>6, <1>8, <2>1, <2>2 DEF WroteOk
  <2> QED BY <1>4, <1>6, <1>7, <1>9, <2>3 DEF CallOk, B, m, pc, slice, w, a, D, F
<1>10. CASE pc = "writing"
  <2>1. k.offset + w = k.from + (a + w)
    BY <1>1, <1>2, <1>3
  <2>2. WritingOk(m, B)
    BY <1>2, <1>3, <1>5, <1>6, <1>8, <1>10, <2>1 DEF WritingOk
  <2>3. CallOk(m, B)
    BY <1>6, <1>10, <2>2 DEF CallOk
  <2> QED BY <1>4, <1>6, <1>7, <2>3 DEF B, m, pc, slice, w, a, D, F
<1> QED BY <1>5, <1>9, <1>10

(* ReadWindow, for the call.                                               *)
LEMMA WindowRead ==
    ASSUME NEW k \in CallType, NEW file \in Bytes, k.pc \in {"reading", "artifact"}, CallOk(k, file)
    PROVE  LET body == IF k.pc = "artifact" THEN Artifact ELSE file
               bytes == Window(body, k.offset)
               eof == k.offset + Len(bytes) >= Len(body)
               m == [k EXCEPT !.got = @ \o bytes, !.offset = @ + Len(bytes), !.base = body,
                              !.pc = IF eof \/ bytes = <<>> THEN "read" ELSE k.pc] IN
           m \in CallType /\ m.alone = k.alone /\ m.pc \in {"reading", "artifact", "read"} /\ CallOk(m, file)
<1> DEFINE body == IF k.pc = "artifact" THEN Artifact ELSE file
           bytes == Window(body, k.offset)
           w == Len(bytes)  o == k.offset  n == Len(body)
           eof == k.offset + Len(bytes) >= Len(body)
           pc == IF eof \/ bytes = <<>> THEN "read" ELSE k.pc
           m == [k EXCEPT !.got = @ \o bytes, !.offset = @ + Len(bytes), !.base = body, !.pc = pc]
<1>1. o \in Nat /\ k.from \in Nat /\ k.got \in Bytes /\ k.alone \in BOOLEAN
  BY DEF CallType
<1>2. body \in Bytes /\ n \in Nat
  BY ArtifactType DEF Bytes
<1>3. /\ bytes \in Bytes /\ w \in Nat
      /\ o <= n => /\ o + w <= n /\ bytes = SubSeq(body, o + 1, o + w)
                   /\ bytes = <<>> => o = n
  <2> HIDE DEF body, o, n, w
  <2>1. /\ Window(body, o) \in Bytes
        /\ o <= Len(body) =>
              /\ Len(Window(body, o)) \in Nat /\ o + Len(Window(body, o)) <= Len(body)
              /\ Window(body, o) = SubSeq(body, o + 1, o + Len(Window(body, o)))
              /\ Window(body, o) = <<>> => o = Len(body)
    BY <1>1, <1>2, WindowIs
  <2>2. bytes = Window(body, o) /\ w = Len(bytes)
    BY DEF o, w
  <2>3. w \in Nat
    BY <2>1, <2>2 DEF Bytes
  <2> QED BY <2>1, <2>2, <2>3 DEF n
<1>4. pc \in Pcs /\ pc \in {"read", k.pc} /\ (pc = "read" <=> o + w >= n \/ bytes = <<>>)
  BY DEF Pcs
<1>5. /\ m.pc = pc /\ m.from = k.from /\ m.got = k.got \o bytes /\ m.offset = o + w /\ m.base = body
      /\ m.alone = k.alone
  <2> HIDE DEF pc, bytes, body
  <2> QED BY DEF CallType
<1>6. m \in CallType
  <2>1. o + w \in Nat /\ k.got \o bytes \in Bytes
    BY <1>1, <1>3 DEF Bytes
  <2>2. m = [k EXCEPT !.got = k.got \o bytes, !.offset = o + w, !.base = body, !.pc = pc]
    OBVIOUS
  <2> HIDE DEF m, pc, bytes, body, w
  <2> QED BY <1>2, <1>4, <2>1, <2>2 DEF CallType
<1> HIDE DEF m, pc
<1>7. ASSUME k.from <= o, o <= n, k.got = SubSeq(body, k.from + 1, o)
      PROVE  /\ k.got \o bytes = SubSeq(body, k.from + 1, o + w) /\ o + w <= n
             /\ pc = "read" => o + w = n
  <2> HIDE DEF bytes, body, w, o, n
  <2>1. o + w <= n /\ bytes = SubSeq(body, o + 1, o + w) /\ o + w \in Nat /\ o <= o + w
    BY <1>1, <1>3, <1>7
  <2>2. SubSeq(body, k.from + 1, o) \o SubSeq(body, o + 1, o + w) = SubSeq(body, k.from + 1, o + w)
    <3>1. o + w <= Len(body)
      BY <2>1 DEF n
    <3> DEFINE x == k.from  e == o + w
    <3>2. x \in Nat /\ o \in Nat /\ e \in Nat /\ x <= o /\ o <= e /\ e <= Len(body)
      BY <1>1, <1>7, <2>1, <3>1
    <3> HIDE DEF x, e
    <3>3. SubSeq(body, x + 1, o) \o SubSeq(body, o + 1, e) = SubSeq(body, x + 1, e)
      BY <1>2, <3>2, WindowsJoin
    <3> QED BY <3>3 DEF x, e
  <2>3. pc = "read" => o + w = n
    <3>1. CASE bytes = <<>>
      <4>1. o = n
        BY <1>3, <1>7, <3>1
      <4> QED BY <1>1, <1>2, <1>3, <2>1, <4>1
    <3>2. CASE bytes # <<>>
      BY <1>1, <1>2, <1>3, <1>4, <2>1, <3>2
    <3> QED BY <3>1, <3>2
  <2> QED BY <1>7, <2>1, <2>2, <2>3
<1>8. CallOk(m, file)
  <2>1. CASE k.pc = "artifact"
    <3>1. k.from = 0 /\ body = Artifact /\ o <= n /\ k.got = SubSeq(body, 1, o)
      BY <2>1 DEF CallOk, ArtifactOk
    <3>2. k.from <= o /\ k.from + 1 = 1 /\ k.got = SubSeq(body, k.from + 1, o)
      BY <1>1, <3>1
    <3> HIDE DEF bytes, body, w, o, n
    <3>3. k.got \o bytes = SubSeq(body, k.from + 1, o + w) /\ o + w <= n /\ (pc = "read" => o + w = n)
      BY <1>7, <3>1, <3>2
    <3>4. CASE pc = "read"
      <4>1. ReadOk(m)
        BY <1>5, <3>3, <3>4 DEF ReadOk, n
      <4> QED BY <1>5, <3>4, <4>1 DEF CallOk
    <3>5. CASE pc = "artifact"
      <4>1. ArtifactOk(m)
        BY <1>5, <3>1, <3>2, <3>3 DEF ArtifactOk, n
      <4> QED BY <1>5, <3>5, <4>1 DEF CallOk
    <3> QED BY <1>4, <2>1, <3>4, <3>5
  <2>2. CASE k.pc = "reading"
    <3>1. body = file /\ (k.alone => k.from <= o /\ o <= n /\ k.got = SubSeq(body, k.from + 1, o))
      BY <2>2 DEF CallOk, ReadingOk
    <3> HIDE DEF bytes, body, w, o, n
    <3>2. k.alone => k.got \o bytes = SubSeq(body, k.from + 1, o + w) /\ o + w <= n /\ (pc = "read" => o + w = n)
                     /\ k.from <= o + w
      <4> HAVE k.alone
      <4>1. k.from <= o + w
        BY <1>1, <1>3, <3>1
      <4> QED BY <1>7, <3>1, <4>1
    <3>3. CASE pc = "read"
      <4>1. ReadOk(m)
        BY <1>5, <3>2, <3>3 DEF ReadOk, n
      <4> QED BY <1>5, <3>3, <4>1 DEF CallOk
    <3>4. CASE pc = "reading"
      <4>1. ReadingOk(m, file)
        BY <1>5, <3>1, <3>2 DEF ReadingOk, n
      <4> QED BY <1>5, <3>4, <4>1 DEF CallOk
    <3> QED BY <1>4, <2>2, <3>3, <3>4
  <2> QED BY <2>1, <2>2
<1>9. m.pc \in {"reading", "artifact", "read"}
  BY <1>4, <1>5
<1> QED BY <1>5, <1>6, <1>8, <1>9 DEF m, pc

(* The inductive step: every frame, reply and loss of every call.          *)
LEMMA UpStep ==
    ASSUME TruncatesAtStart, UpInv, [UpNext]_up
    PROVE  UpInv'
<1>1. /\ up.body \in Bytes /\ up.made \in Nat /\ up.exists \in BOOLEAN /\ up.calls \in [UpCallers -> CallType]
      /\ up = [exists |-> up.exists, body |-> up.body, calls |-> up.calls, made |-> up.made]
  BY DEF UpInv, UpType
<1>2. AtRest \in CallType /\ AtRest.alone
  BY DEF AtRest, CallType, Pcs, Bytes
<1>3. ASSUME NEW c \in UpCallers, NEW w \in UpWrites, WriteFile(c, w) PROVE UpInv'
  <2> DEFINE parts == [p \in DOMAIN w.parts |-> [i \in 1..w.parts[p] |-> 10 * (up.made + 1) + 3 * p + i]]
             F == FramesOf(parts)  D == Joined(parts)
             base == IF w.truncate THEN <<>> ELSE up.body
             k == [AtRest EXCEPT !.pc = "writing", !.from = w.offset, !.offset = w.offset,
                                 !.frames = F, !.truncate = w.truncate, !.base = base, !.data = D]
  <2>1. w.parts \in Seq(Nat) /\ w.offset \in Nat /\ w.truncate \in BOOLEAN /\ (w.truncate => w.offset = 0)
    BY SdkFilesAssumption DEF TruncatesAtStart
  <2>2. parts \in Seq(Bytes)
    BY <1>1, <2>1, PartsType
  <2>3. UpFree(c) /\ up' = Starting(c, k, TRUE)
    BY <1>3 DEF WriteFile
  <2> HIDE DEF parts
  <2>4. F \in Seq(Bytes) /\ F # <<>> /\ D \in Bytes /\ Cut(F, D, 0)
    BY <2>2, FramesCut
  <2>5. base \in Bytes /\ (w.truncate => base = <<>>) /\ (~w.truncate => base = up.body)
    BY <1>1 DEF Bytes
  <2> HIDE DEF F, D, base
  <2>6. /\ k.pc = "writing" /\ k.from = w.offset /\ k.offset = w.offset /\ k.frames = F
        /\ k.truncate = w.truncate /\ k.base = base /\ k.data = D /\ k.first = TRUE /\ k.written = 0
        /\ k.alone = TRUE /\ k.unread = FALSE
    BY DEF AtRest
  <2>7. k \in CallType
    BY <1>2, <2>1, <2>4, <2>5 DEF CallType, Pcs
  <2> HIDE DEF k
  <2>8. WritingOk(k, up.body)
    BY <2>1, <2>4, <2>5, <2>6 DEF WritingOk
  <2>9. CallOk(k, up.body)
    BY <2>6, <2>8 DEF CallOk
  <2> QED BY <2>3, <2>6, <2>7, <2>9, StartingOk
<1>4. ASSUME NEW c \in UpCallers, NEW offset \in 0..1, ReadFileFrom(c, offset) PROVE UpInv'
  <2> DEFINE k == [AtRest EXCEPT !.pc = "reading", !.from = offset, !.offset = offset]
  <2>1. UpFree(c) /\ offset <= Len(up.body) /\ up' = Starting(c, k, FALSE)
    BY <1>4 DEF ReadFileFrom
  <2>2. k.pc = "reading" /\ k.from = offset /\ k.offset = offset /\ k.got = <<>> /\ k.alone = TRUE
    BY DEF AtRest
  <2>3. k \in CallType
    <3>1. offset \in Nat /\ "reading" \in Pcs
      BY DEF Pcs
    <3> HIDE DEF Pcs
    <3> QED BY <1>2, <3>1 DEF CallType
  <2> HIDE DEF k
  <2>4. SubSeq(up.body, offset + 1, offset) = <<>>
    <3> DEFINE lo == offset + 1  none == SubSeq(up.body, lo, offset)
    <3>1. lo \in Nat /\ lo >= 1 /\ offset \in Nat /\ offset - lo + 1 = 0 /\ lo <= offset + 1
      OBVIOUS
    <3> HIDE DEF lo
    <3>2. none \in Seq(Int) /\ Len(none) = 0
      BY <1>1, <2>1, <3>1 DEF Bytes
    <3> HIDE DEF none
    <3>3. none = <<>>
      BY <3>2
    <3> QED BY <3>3 DEF none, lo
  <2>5. ReadingOk(k, up.body)
    BY <2>1, <2>2, <2>4 DEF ReadingOk
  <2>6. CallOk(k, up.body)
    BY <2>2, <2>5 DEF CallOk
  <2> QED BY <2>1, <2>2, <2>3, <2>6, StartingOk
<1>5. ASSUME NEW c \in UpCallers, StreamArtifact(c) PROVE UpInv'
  <2> DEFINE k == [AtRest EXCEPT !.pc = "artifact"]
  <2>1. UpFree(c) /\ up' = Starting(c, k, FALSE)
    BY <1>5 DEF StreamArtifact
  <2>2. k.pc = "artifact" /\ k.from = 0 /\ k.offset = 0 /\ k.got = <<>> /\ k.alone = TRUE
    BY DEF AtRest
  <2>3. k \in CallType
    BY <1>2 DEF CallType, Pcs
  <2> HIDE DEF k
  <2>4. Artifact \in Bytes /\ 0 <= Len(Artifact) /\ SubSeq(Artifact, 1, 0) = <<>>
    <3> DEFINE A == Artifact
    <3>1. A \in Bytes
      BY ArtifactType
    <3> HIDE DEF A
    <3> QED BY <3>1 DEF Bytes, A
  <2>5. ArtifactOk(k)
    BY <2>2, <2>4 DEF ArtifactOk
  <2>6. CallOk(k, up.body)
    BY <2>2, <2>5 DEF CallOk
  <2> QED BY <2>1, <2>2, <2>3, <2>6, StartingOk
<1>6. ASSUME NEW c \in UpCallers, NEW unread \in BOOLEAN, WriteFrame(c, unread) PROVE UpInv'
  <2> DEFINE k == up.calls[c]  slice == Head(k.frames)
             B == VfsWrite(up.body, k.offset, slice, k.first /\ k.truncate, unread)
             m == [k EXCEPT !.frames = Tail(@), !.offset = @ + Len(slice), !.written = @ + Len(slice),
                            !.first = FALSE, !.unread = @ \/ unread,
                            !.pc = IF Len(k.frames) = 1 THEN "wrote" ELSE "writing"]
  <2>1. k \in CallType /\ k.pc = "writing" /\ CallOk(k, up.body)
    BY <1>1, <1>6 DEF UpInv, WriteFrame
  <2>2. up' = [up EXCEPT !.exists = TRUE, !.body = B, !.calls[c] = m]
    BY <1>6 DEF WriteFrame
  <2> HIDE DEF k
  <2>3. WritingOk(k, up.body)
    BY <2>1 DEF CallOk
  <2>4. B \in Bytes /\ m \in CallType /\ m.alone = k.alone /\ CallOk(m, B)
    BY <1>1, <2>1, <2>3, FrameWritten
  <2> HIDE DEF B, m
  <2> QED BY <2>1, <2>2, <2>4, StepOk DEF k
<1>7. ASSUME NEW c \in UpCallers, ReadWindow(c) PROVE UpInv'
  <2> DEFINE k == up.calls[c]
             body == IF k.pc = "artifact" THEN Artifact ELSE up.body
             bytes == Window(body, k.offset)
             eof == k.offset + Len(bytes) >= Len(body)
             m == [k EXCEPT !.got = @ \o bytes, !.offset = @ + Len(bytes), !.base = body,
                            !.pc = IF eof \/ bytes = <<>> THEN "read" ELSE k.pc]
  <2>1. k \in CallType /\ k.pc \in {"reading", "artifact"} /\ CallOk(k, up.body)
    BY <1>1, <1>7 DEF UpInv, ReadWindow
  <2>2. up' = [up EXCEPT !.calls[c] = m]
    BY <1>7 DEF ReadWindow
  <2> HIDE DEF k
  <2>3. m \in CallType /\ m.alone = k.alone /\ m.pc \in {"reading", "artifact", "read"} /\ CallOk(m, up.body)
    BY <1>1, <2>1, WindowRead
  <2> HIDE DEF m
  <2>4. up' = [up EXCEPT !.exists = up.exists, !.body = up.body, !.calls[c] = m]
    BY <1>1, <2>2
  <2> QED BY <1>1, <2>3, <2>4, StepOk DEF k
<1>8. ASSUME NEW c \in UpCallers, NEW applied \in BOOLEAN, NEW unread \in BOOLEAN, WriteLost(c, applied, unread)
      PROVE  UpInv'
  <2> DEFINE k == up.calls[c]  slice == Head(k.frames)
             W == VfsWrite(up.body, k.offset, slice, k.first /\ k.truncate, unread)
             B == IF applied THEN W ELSE up.body
             m == [k EXCEPT !.pc = "failed"]  exists == up.exists \/ applied
  <2>1. k \in CallType /\ k.pc = "writing" /\ CallOk(k, up.body)
    BY <1>1, <1>8 DEF UpInv, WriteLost
  <2>2. up' = [up EXCEPT !.exists = exists, !.body = B, !.calls[c] = m]
    <3>1. up' = [up EXCEPT !.exists = exists, !.body = B, !.calls[c].pc = "failed"]
      BY <1>8 DEF WriteLost
    <3> HIDE DEF exists, B
    <3> QED BY <1>1, <3>1
  <2> HIDE DEF k
  <2>3. WritingOk(k, up.body)
    BY <2>1 DEF CallOk
  <2>4. W \in Bytes
    BY <1>1, <2>1, <2>3, FrameWritten
  <2>5. B \in Bytes /\ exists \in BOOLEAN
    BY <1>1, <2>4
  <2>6. m \in CallType /\ m.pc = "failed" /\ m.alone = k.alone
    BY <2>1 DEF CallType, Pcs
  <2> HIDE DEF B, m, exists
  <2>7. CallOk(m, B)
    BY <2>6 DEF CallOk
  <2> QED BY <2>1, <2>2, <2>5, <2>6, <2>7, StepOk DEF k
<1>9. ASSUME NEW c \in UpCallers, ReadLost(c) PROVE UpInv'
  <2> DEFINE k == up.calls[c]  m == [k EXCEPT !.pc = "failed"]
  <2>1. k \in CallType
    BY <1>1
  <2>2. up' = [up EXCEPT !.exists = up.exists, !.body = up.body, !.calls[c] = m]
    BY <1>1, <1>9 DEF ReadLost
  <2> HIDE DEF k
  <2>3. m \in CallType /\ m.pc = "failed" /\ m.alone = k.alone
    BY <2>1 DEF CallType, Pcs
  <2> HIDE DEF m
  <2>4. CallOk(m, up.body)
    BY <2>3 DEF CallOk
  <2> QED BY <1>1, <2>2, <2>3, <2>4, StepOk DEF k
<1>10. CASE UNCHANGED up
  <2>1. up' = up
    BY <1>10
  <2> QED BY <2>1 DEF UpInv, UpType, AloneInv
<1> QED BY <1>3, <1>4, <1>5, <1>6, <1>7, <1>8, <1>9, <1>10 DEF UpNext

(* writeFile, streamReadFile and streamArtifact (index.ts): a transfer of  *)
(* any input, cut into any parts, with any other calls of the session      *)
(* before it, after it and between its frames, does exactly what it was    *)
(* asked whenever no other write overlapped it and R2 gave the file to     *)
(* each of its frames.                                                     *)
THEOREM TransfersAlwaysWhole ==
    ASSUME TruncatesAtStart
    PROVE  UpSpec => []TransfersWhole
<1>1. UpInit => UpInv
  <2> HAVE UpInit
  <2>1. AtRest \in CallType /\ AtRest.pc = "idle"
    BY DEF AtRest, CallType, Pcs, Bytes
  <2>2. <<>> \in Bytes
    BY DEF Bytes
  <2>3. UpType
    BY <2>1, <2>2 DEF UpInit, UpType
  <2>4. \A c \in UpCallers : up.calls[c] = AtRest
    BY DEF UpInit
  <2>5. AloneInv /\ \A c \in UpCallers : CallOk(up.calls[c], up.body)
    BY <2>1, <2>4 DEF AloneInv, CallOk
  <2> QED BY <2>3, <2>5 DEF UpInv
<1>2. UpInv /\ [UpNext]_up => UpInv'
  BY UpStep
<1>3. UpInv => TransfersWhole
  BY DEF UpInv, CallOk, WroteOk, ReadOk, TransfersWhole
<1> QED BY <1>1, <1>2, <1>3, PTL DEF UpSpec

-----------------------------------------------------------------------------
(* ImageChain.                                                             *)
(* A number is a multiple and a remainder, in one way.                     *)
LEMMA Remainder ==
    ASSUME NEW q \in Nat, NEW u \in Nat \ {0}, NEW r \in 0..(u - 1)
    PROVE  (q * u + r) \div u = q /\ (q * u + r) % u = r
<1> DEFINE m == q * u + r  p == m \div u  s == m % u
<1>1. q * u \in Nat
  OBVIOUS
<1>2. m \in Nat
  BY <1>1
<1> HIDE DEF m
<1>3. p \in Nat /\ s \in 0..(u - 1) /\ m = u * p + s
  BY <1>2
<1> HIDE DEF p, s
<1> DEFINE x == q * u  y == p * u
<1>4. x \in Nat /\ y \in Nat /\ x + r = y + s
  <2>1. u * p = p * u
    BY <1>3
  <2> QED BY <1>1, <1>3, <2>1 DEF m
<1>5. CASE p < q
  <2>1. (p + 1) * u <= q * u /\ (p + 1) * u = p * u + u
    BY <1>3, <1>5, Products
  <2> HIDE DEF x, y
  <2>2. y + u <= x
    BY <2>1 DEF x, y
  <2> QED BY <1>3, <1>4, <2>2
<1>6. CASE q < p
  <2>1. (q + 1) * u <= p * u /\ (q + 1) * u = q * u + u
    BY <1>3, <1>6, Products
  <2> HIDE DEF x, y
  <2>2. x + u <= y
    BY <2>1 DEF x, y
  <2> QED BY <1>3, <1>4, <2>2
<1>7. CASE p = q
  <2>1. x = y
    BY <1>7
  <2> HIDE DEF x, y
  <2>2. r = s
    BY <1>3, <1>4, <2>1
  <2> QED BY <1>7, <2>2 DEF p, s, m
<1> QED BY <1>3, <1>5, <1>6, <1>7

(* Quotient and remainder.                                                 *)
LEMMA Divided ==
    ASSUME NEW m \in Nat, NEW u \in Nat \ {0}
    PROVE  m \div u \in Nat /\ m % u \in 0..(u - 1) /\ m = (m \div u) * u + (m % u)
<1> DEFINE q == m \div u  r == m % u
<1>1. q \in Nat /\ r \in 0..(u - 1) /\ m = u * q + r
  OBVIOUS
<1> HIDE DEF q, r
<1>2. u * q = q * u
  BY <1>1
<1> QED BY <1>1, <1>2 DEF q, r

-----------------------------------------------------------------------------
(* The images of a linear memory are whole grains.                         *)
Image(img) == img \in Seq(Byte) /\ img # <<>> /\ \E n \in Nat : Len(img) = n * Grain

(* An image is whole grains, and where a byte lies among them.             *)
LEMMA GrainsOfImage ==
    ASSUME NEW img, Image(img)
    PROVE  /\ NGrains(img) \in Nat /\ Len(img) = NGrains(img) * Grain /\ Len(img) \in Nat \ {0}
           /\ \A j \in 1..Len(img) :
                /\ (j - 1) \div Grain \in 0..(NGrains(img) - 1) /\ (j - 1) % Grain \in 0..(Grain - 1)
                /\ j = ((j - 1) \div Grain) * Grain + ((j - 1) % Grain) + 1
           /\ \A i \in 0..(NGrains(img) - 1) : (i + 1) * Grain <= Len(img)
<1> DEFINE l == Len(img)
<1>1. Grain \in Nat \ {0}
  BY ImageAssumption
<1>2. PICK n \in Nat : l = n * Grain
  BY DEF Image
<1>3. l \in Nat \ {0}
  BY DEF Image
<1> HIDE DEF l
<1>4. NGrains(img) = n
  <2> DEFINE x == n * Grain
  <2>1. (l + Grain - 1) \div Grain = n
    <3>1. Grain - 1 \in 0..(Grain - 1)
      BY <1>1
    <3>2. (n * Grain + (Grain - 1)) \div Grain = n
      BY <1>1, <3>1, Remainder
    <3>3. x \in Nat
      BY <1>1
    <3>4. l + Grain - 1 = x + (Grain - 1)
      <4>1. l = x
        BY <1>2
      <4> HIDE DEF x
      <4> QED BY <1>1, <3>3, <4>1
    <3> QED BY <3>2, <3>4
  <2> QED BY <2>1 DEF NGrains, l
<1>5. ASSUME NEW j \in 1..l
      PROVE  /\ (j - 1) \div Grain \in 0..(n - 1) /\ (j - 1) % Grain \in 0..(Grain - 1)
             /\ j = ((j - 1) \div Grain) * Grain + ((j - 1) % Grain) + 1
  <2> DEFINE m == j - 1  q == m \div Grain  r == m % Grain
  <2>1. m \in Nat /\ m < l /\ j = m + 1
    BY <1>3
  <2> HIDE DEF m
  <2>2. q \in Nat /\ r \in 0..(Grain - 1) /\ m = q * Grain + r
    BY <1>1, <2>1, Divided
  <2> HIDE DEF q, r
  <2>3. q < n
    <3> SUFFICES ASSUME n <= q PROVE FALSE
      BY <2>2
    <3> DEFINE x == q * Grain  y == n * Grain
    <3>1. x \in Nat /\ y \in Nat /\ y <= x
      BY <1>1, <2>2, Products
    <3>2. m = x + r /\ l = y
      BY <1>2, <2>2
    <3> HIDE DEF x, y
    <3> QED BY <1>1, <2>1, <2>2, <3>1, <3>2
  <2>4. j = q * Grain + r + 1
    <3> DEFINE x == q * Grain
    <3>1. m = x + r /\ x \in Nat
      BY <1>1, <2>2
    <3> HIDE DEF x
    <3>2. j = x + r + 1
      BY <2>1, <3>1
    <3> QED BY <3>2 DEF x
  <2> QED BY <2>2, <2>3, <2>4 DEF m, q, r
<1>6. ASSUME NEW i \in 0..(n - 1) PROVE (i + 1) * Grain <= l
  <2>1. i + 1 \in Nat /\ i + 1 <= n
    OBVIOUS
  <2> QED BY <1>1, <1>2, <2>1, Products
<1> QED BY <1>2, <1>3, <1>4, <1>5, <1>6 DEF l

(* The byte r of the grain at place k of a payload.                        *)
LEMMA PlaceInPayload ==
    ASSUME NEW k \in Nat \ {0}, NEW r \in 0..(Grain - 1), NEW n \in Nat, k <= n
    PROVE  LET p == (k - 1) * Grain + r + 1 IN
           p \in 1..(n * Grain) /\ (p - 1) \div Grain = k - 1 /\ (p - 1) % Grain = r
<1> DEFINE q == k - 1  x == q * Grain  y == n * Grain
<1>1. Grain \in Nat \ {0} /\ q \in Nat /\ q + 1 <= n
  BY ImageAssumption
<1>2. (q + 1) * Grain <= n * Grain /\ (q + 1) * Grain = q * Grain + Grain
  <2> HIDE DEF q
  <2> QED BY <1>1, Products
<1>3. x \in Nat /\ y \in Nat
  BY <1>1
<1>4. x + Grain <= y
  BY <1>2
<1>5. (x + r) \div Grain = q /\ (x + r) % Grain = r
  <2> HIDE DEF q
  <2> QED BY <1>1, Remainder
<1> HIDE DEF x, y
<1>6. x + r + 1 \in 1..y /\ (x + r + 1) - 1 = x + r
  BY <1>1, <1>3, <1>4
<1> QED BY <1>5, <1>6 DEF x, y, q

Push(idx, out, i) == IF i \in idx THEN Append(out, i) ELSE out

Pushes(G, idx, grains) ==
    /\ G[0] = <<>>
    /\ \A k \in 0..(Len(grains) - 1) : G[k + 1] = Push(idx, G[k], grains[k + 1])
    /\ Pushed(idx, grains) = G[Len(grains)]

(* What a push keeps.                                                      *)
LEMMA PushType ==
    ASSUME NEW idx, NEW out \in Seq(Nat), NEW i \in Nat
    PROVE  Push(idx, out, i) \in Seq(Nat)
BY DEF Push

(* The fold of Pushed, one grain at a time.                                *)
LEMMA PushedUnfolds ==
    ASSUME NEW idx, NEW grains \in Seq(Nat)
    PROVE  \E G : Pushes(G, idx, grains)
<1> DEFINE n == Len(grains)
           V == Seq(Nat)
           step == [i \in 1..n |-> [x \in V |-> Push(idx, x, grains[i])]]
           Sol(f) == f = [s \in SUBSET (DOMAIN grains) |->
                            IF s = {} THEN <<>> ELSE Push(idx, f[s \ {Max(s)}], grains[Max(s)])]
           ch == CHOOSE f : Sol(f)
<1>1. Pushed(idx, grains) = ch[DOMAIN grains]
  BY DEF Pushed, FoldLeft, MapThenFoldSet, Push
<1>2. DOMAIN grains = 1..n /\ n \in Nat /\ \A i \in 1..n : grains[i] \in Nat
  OBVIOUS
<1>3. step \in [1..n -> [V -> V]]
  <2>1. ASSUME NEW i \in 1..n, NEW x \in V PROVE Push(idx, x, grains[i]) \in V
    BY <1>2, PushType
  <2> HIDE DEF V
  <2> QED BY <2>1
<1>4. PICK it \in [SUBSET (1..n) -> V] : FoldsOver(it, n, <<>>, step)
  <2>1. <<>> \in V
    OBVIOUS
  <2> HIDE DEF V, step, n
  <2> QED BY <1>2, <1>3, <2>1, FoldExists
<1>5. Sol(it)
  <2>1. ASSUME NEW s \in SUBSET (1..n), s # {}
        PROVE  step[Max(s)][it[s \ {Max(s)}]] = Push(idx, it[s \ {Max(s)}], grains[Max(s)])
    <3>1. Max(s) \in 1..n
      BY <1>2, <2>1, MaxOfNumbers
    <3>2. it[s \ {Max(s)}] \in V
      <4> HIDE DEF V
      <4> QED BY <1>4
    <3> HIDE DEF V
    <3> QED BY <3>1, <3>2
  <2>2. it = [s \in SUBSET (1..n) |-> IF s = {} THEN <<>> ELSE step[Max(s)][it[s \ {Max(s)}]]]
    BY <1>4 DEF FoldsOver
  <2> HIDE DEF step
  <2> QED BY <1>2, <2>1, <2>2
<1>6. Sol(ch)
  <2> HIDE DEF Sol
  <2> QED BY <1>5
<1> DEFINE G == [k \in 0..n |-> ch[1..k]]
<1>7. ASSUME NEW k \in 0..(n - 1)
      PROVE  G[k + 1] = Push(idx, G[k], grains[k + 1])
  <2>1. 1..(k + 1) \in SUBSET (1..n) /\ k \in Nat
    BY <1>2
  <2>2. ch[1..(k + 1)] = Push(idx, ch[1..k], grains[k + 1])
    <3> HIDE DEF ch, n
    <3> DEFINE s == 1..(k + 1)
    <3>1. s \in SUBSET (DOMAIN grains) /\ Max(s) = k + 1 /\ s # {} /\ s \ {k + 1} = 1..k
      BY <1>2, <2>1, FirstNumbers
    <3> HIDE DEF s
    <3>2. ch[s] = IF s = {} THEN <<>> ELSE Push(idx, ch[s \ {Max(s)}], grains[Max(s)])
      BY <1>6, <3>1
    <3>3. ch[s] = Push(idx, ch[1..k], grains[k + 1])
      BY <3>1, <3>2
    <3> QED BY <3>3 DEF s
  <2>3. k \in 0..n /\ k + 1 \in 0..n
    OBVIOUS
  <2> HIDE DEF ch
  <2> QED BY <2>2, <2>3
<1>8. G[0] = <<>>
  <2>1. 0 \in 0..n /\ 1..0 = {} /\ {} \in SUBSET (DOMAIN grains)
    BY <1>2
  <2> HIDE DEF ch
  <2> QED BY <1>6, <2>1
<1>9. Pushed(idx, grains) = G[n]
  <2> HIDE DEF ch
  <2> QED BY <1>1, <1>2
<1> HIDE DEF G
<1>10. Pushes(G, idx, grains)
  BY <1>7, <1>8, <1>9 DEF Pushes
<1> QED
  BY <1>10

(* A stored delta, whole or damaged: the bytes of as many grains as it     *)
(* names.                                                                  *)
DeltaRows ==
    {d \in [idx : [codec : {"zstd", "gzip"}, data : Seq(Nat)],
            payload : [codec : {"zstd", "gzip"}, data : Seq(Byte)], codec : {"", "zstd"}] :
        Len(d.payload.data) = Len(d.idx.data) * Grain}

(* A delta keeps the length; a byte is the delta's or the old one.         *)
LEMMA ApplyType ==
    ASSUME NEW img \in Seq(Byte), NEW d \in DeltaRows
    PROVE  /\ ApplyDelta(img, d) \in Seq(Byte) /\ Len(ApplyDelta(img, d)) = Len(img)
           /\ \A j \in 1..Len(img) :
                \/ /\ \A k \in 1..Len(d.idx.data) : d.idx.data[k] # (j - 1) \div Grain
                   /\ ApplyDelta(img, d)[j] = img[j]
                \/ \E k \in 1..Len(d.idx.data) :
                      /\ d.idx.data[k] = (j - 1) \div Grain
                      /\ ApplyDelta(img, d)[j] = d.payload.data[(k - 1) * Grain + ((j - 1) % Grain) + 1]
<1> DEFINE n == Len(d.idx.data)  l == Len(img)
           hit(j) == {k \in 1..n : d.idx.data[k] = (j - 1) \div Grain}
           at(k, j) == (k - 1) * Grain + ((j - 1) % Grain) + 1
           e(j) == IF hit(j) = {} THEN img[j] ELSE d.payload.data[at(CHOOSE k \in hit(j) : TRUE, j)]
<1>1. n \in Nat /\ l \in Nat /\ d.idx.data \in Seq(Nat) /\ d.payload.data \in Seq(Byte)
      /\ Len(d.payload.data) = n * Grain
  <2>1. /\ d.idx \in [codec : {"zstd", "gzip"}, data : Seq(Nat)]
        /\ d.payload \in [codec : {"zstd", "gzip"}, data : Seq(Byte)]
        /\ Len(d.payload.data) = n * Grain
    BY DEF DeltaRows
  <2>2. d.idx.data \in Seq(Nat) /\ d.payload.data \in Seq(Byte)
    BY <2>1
  <2>3. n \in Nat /\ l \in Nat
    BY <2>2
  <2> QED BY <2>1, <2>2, <2>3
<1>2. ApplyDelta(img, d) = [j \in 1..l |-> e(j)]
  BY DEF ApplyDelta
<1>3. ASSUME NEW j \in 1..l
      PROVE  /\ e(j) \in Byte
             /\ \/ (\A k \in 1..n : d.idx.data[k] # (j - 1) \div Grain) /\ e(j) = img[j]
                \/ \E k \in 1..n : d.idx.data[k] = (j - 1) \div Grain /\ e(j) = d.payload.data[at(k, j)]
  <2>1. CASE hit(j) = {}
    <3>1. img[j] \in Byte
      OBVIOUS
    <3>2. \A k \in 1..n : d.idx.data[k] # (j - 1) \div Grain
      BY <2>1
    <3> QED BY <2>1, <3>1, <3>2
  <2>2. CASE hit(j) # {}
    <3> DEFINE k == CHOOSE k \in hit(j) : TRUE  r == (j - 1) % Grain
    <3>1. k \in hit(j)
      BY <2>2
    <3>2. k \in 1..n /\ d.idx.data[k] = (j - 1) \div Grain
      BY <3>1
    <3>3. e(j) = d.payload.data[at(k, j)]
      BY <2>2
    <3> HIDE DEF k
    <3>4. r \in 0..(Grain - 1)
      <4>1. j - 1 \in Nat /\ Grain \in Nat \ {0}
        BY <1>1, ImageAssumption
      <4> QED BY <4>1, Divided
    <3>5. at(k, j) \in 1..(n * Grain)
      <4> HIDE DEF r, n
      <4>1. k \in Nat \ {0} /\ k <= n
        BY <1>1, <3>2
      <4>2. (k - 1) * Grain + r + 1 \in 1..(n * Grain)
        BY <1>1, <3>4, <4>1, PlaceInPayload
      <4> QED BY <4>2 DEF r
    <3> HIDE DEF at, n, e
    <3>6. d.payload.data[at(k, j)] \in Byte
      <4> DEFINE pay == d.payload.data  p == at(k, j)
      <4>1. pay \in Seq(Byte) /\ p \in 1..Len(pay)
        BY <1>1, <3>5
      <4> HIDE DEF pay, p
      <4>2. pay[p] \in Byte
        BY <4>1
      <4> QED BY <4>2 DEF pay, p
    <3> QED BY <3>2, <3>3, <3>6
  <2> QED BY <2>1, <2>2
<1> HIDE DEF e, hit
<1>4. ApplyDelta(img, d) \in Seq(Byte) /\ Len(ApplyDelta(img, d)) = l
      /\ \A j \in 1..l : ApplyDelta(img, d)[j] = e(j)
  <2> HIDE DEF l, n
  <2> QED BY <1>1, <1>2, <1>3
<1> QED BY <1>3, <1>4

Applies(G, start, deltas) ==
    /\ G[0] = start
    /\ \A k \in 0..(Len(deltas) - 1) : G[k + 1] = ApplyDelta(G[k], deltas[k + 1])
    /\ FoldLeft(ApplyDelta, start, deltas) = G[Len(deltas)]

(* The fold of Rebuild, one delta at a time.                               *)
LEMMA RebuildUnfolds ==
    ASSUME NEW start \in Seq(Byte), NEW deltas \in Seq(DeltaRows)
    PROVE  \E G : Applies(G, start, deltas)
<1> DEFINE n == Len(deltas)
           V == Seq(Byte)
           step == [i \in 1..n |-> [x \in V |-> ApplyDelta(x, deltas[i])]]
           Sol(f) == f = [s \in SUBSET (DOMAIN deltas) |->
                            IF s = {} THEN start ELSE ApplyDelta(f[s \ {Max(s)}], deltas[Max(s)])]
           ch == CHOOSE f : Sol(f)
<1>1. FoldLeft(ApplyDelta, start, deltas) = ch[DOMAIN deltas]
  BY DEF FoldLeft, MapThenFoldSet
<1>2. DOMAIN deltas = 1..n /\ n \in Nat /\ \A i \in 1..n : deltas[i] \in DeltaRows
  OBVIOUS
<1>3. step \in [1..n -> [V -> V]]
  <2>1. ASSUME NEW i \in 1..n, NEW x \in V PROVE ApplyDelta(x, deltas[i]) \in V
    BY <1>2, ApplyType
  <2> HIDE DEF V
  <2> QED BY <2>1
<1>4. PICK it \in [SUBSET (1..n) -> V] : FoldsOver(it, n, start, step)
  <2>1. start \in V
    OBVIOUS
  <2> HIDE DEF V, step, n
  <2> QED BY <1>2, <1>3, <2>1, FoldExists
<1>5. Sol(it)
  <2>1. ASSUME NEW s \in SUBSET (1..n), s # {}
        PROVE  step[Max(s)][it[s \ {Max(s)}]] = ApplyDelta(it[s \ {Max(s)}], deltas[Max(s)])
    <3>1. Max(s) \in 1..n
      BY <1>2, <2>1, MaxOfNumbers
    <3>2. it[s \ {Max(s)}] \in V
      <4> HIDE DEF V
      <4> QED BY <1>4
    <3> HIDE DEF V
    <3> QED BY <3>1, <3>2
  <2>2. it = [s \in SUBSET (1..n) |-> IF s = {} THEN start ELSE step[Max(s)][it[s \ {Max(s)}]]]
    BY <1>4 DEF FoldsOver
  <2> HIDE DEF step
  <2> QED BY <1>2, <2>1, <2>2
<1>6. Sol(ch)
  <2> HIDE DEF Sol
  <2> QED BY <1>5
<1> DEFINE G == [k \in 0..n |-> ch[1..k]]
<1>7. ASSUME NEW k \in 0..(n - 1)
      PROVE  G[k + 1] = ApplyDelta(G[k], deltas[k + 1])
  <2>1. 1..(k + 1) \in SUBSET (1..n) /\ k \in Nat
    BY <1>2
  <2>2. ch[1..(k + 1)] = ApplyDelta(ch[1..k], deltas[k + 1])
    <3> HIDE DEF ch, n
    <3> DEFINE s == 1..(k + 1)
    <3>1. s \in SUBSET (DOMAIN deltas) /\ Max(s) = k + 1 /\ s # {} /\ s \ {k + 1} = 1..k
      BY <1>2, <2>1, FirstNumbers
    <3> HIDE DEF s
    <3>2. ch[s] = IF s = {} THEN start ELSE ApplyDelta(ch[s \ {Max(s)}], deltas[Max(s)])
      BY <1>6, <3>1
    <3>3. ch[s] = ApplyDelta(ch[1..k], deltas[k + 1])
      BY <3>1, <3>2
    <3> QED BY <3>3 DEF s
  <2>3. k \in 0..n /\ k + 1 \in 0..n
    OBVIOUS
  <2> HIDE DEF ch
  <2> QED BY <2>2, <2>3
<1>8. G[0] = start
  <2>1. 0 \in 0..n /\ 1..0 = {} /\ {} \in SUBSET (DOMAIN deltas)
    BY <1>2
  <2> HIDE DEF ch
  <2> QED BY <1>6, <2>1
<1>9. FoldLeft(ApplyDelta, start, deltas) = G[n]
  <2> HIDE DEF ch
  <2> QED BY <1>1, <1>2
<1> HIDE DEF G
<1>10. Applies(G, start, deltas)
  BY <1>7, <1>8, <1>9 DEF Applies
<1> QED
  BY <1>10

(* The pushed grains are those of the set.                                 *)
LEMMA PushedIs ==
    ASSUME NEW idx, NEW n \in Nat
    PROVE  LET o == Pushed(idx, [i \in 1..n |-> i - 1]) IN
           o \in Seq(Nat) /\ \A i : (\E k \in 1..Len(o) : o[k] = i) <=> (i \in idx /\ i \in 0..(n - 1))
<1> DEFINE grains == [i \in 1..n |-> i - 1]
           Ok(o, m) == o \in Seq(Nat) /\ \A i : (\E k \in 1..Len(o) : o[k] = i) <=> (i \in idx /\ i \in 0..(m - 1))
<1>1. grains \in Seq(Nat) /\ Len(grains) = n /\ \A k \in 0..(n - 1) : grains[k + 1] = k
  OBVIOUS
<1> HIDE DEF grains
<1>2. PICK G : Pushes(G, idx, grains)
  BY <1>1, PushedUnfolds
<1> DEFINE S == {m \in 0..n : Ok(G[m], m)}
<1>3. 0 \in S
  <2>1. G[0] = <<>>
    BY <1>2 DEF Pushes
  <2> DEFINE o == G[0]
  <2>2. o \in Seq(Nat) /\ Len(o) = 0
    BY <2>1
  <2> HIDE DEF o
  <2>3. 0..(0 - 1) = {} /\ 1..Len(o) = {}
    BY <2>2
  <2>4. Ok(o, 0)
    BY <2>2, <2>3
  <2>5. 0 \in 0..n
    OBVIOUS
  <2> HIDE DEF Ok
  <2> QED BY <2>4, <2>5 DEF o
<1>4. ASSUME NEW m \in 0..(n - 1), m \in S PROVE m + 1 \in S
  <2> DEFINE o == G[m]  p == G[m + 1]
  <2>1. Ok(o, m) /\ m \in Nat /\ m + 1 \in 0..n
    BY <1>4
  <2>2. p = IF m \in idx THEN Append(o, m) ELSE o
    BY <1>1, <1>2 DEF Pushes, Push
  <2> HIDE DEF o, p
  <2>3. 0..((m + 1) - 1) = 0..(m - 1) \cup {m}
    BY <2>1
  <2>4. CASE m \in idx
    <3>1. p = Append(o, m) /\ o \in Seq(Nat)
      BY <2>1, <2>2, <2>4
    <3>2. p \in Seq(Nat) /\ Len(p) = Len(o) + 1 /\ p[Len(o) + 1] = m /\ \A k \in 1..Len(o) : p[k] = o[k]
      BY <2>1, <3>1
    <3>3. Len(o) \in Nat /\ 1..Len(p) = 1..Len(o) \cup {Len(o) + 1}
      BY <3>1, <3>2
    <3>4. \A i : (\E k \in 1..Len(p) : p[k] = i) <=> ((\E k \in 1..Len(o) : o[k] = i) \/ i = m)
      BY <3>2, <3>3
    <3>5. \A i : (\E k \in 1..Len(p) : p[k] = i) <=> (i \in idx /\ i \in 0..((m + 1) - 1))
      BY <2>1, <2>3, <2>4, <3>4
    <3> QED BY <2>1, <3>2, <3>5 DEF p
  <2>5. CASE m \notin idx
    <3>1. p = o
      BY <2>2, <2>5
    <3>2. \A i : (i \in idx /\ i \in 0..(m - 1)) <=> (i \in idx /\ i \in 0..((m + 1) - 1))
      BY <2>3, <2>5
    <3>3. Ok(p, m + 1)
      BY <2>1, <3>1, <3>2
    <3> QED BY <2>1, <3>3 DEF p
  <2> QED BY <2>4, <2>5
<1>5. n \in S
  <2> HIDE DEF S
  <2>1. 0..n \subseteq S
    BY <1>3, <1>4, BoundedInduction
  <2> QED BY <2>1
<1>6. Pushed(idx, grains) = G[n]
  BY <1>1, <1>2 DEF Pushes
<1>7. Ok(G[n], n)
  BY <1>5
<1> QED BY <1>6, <1>7 DEF grains

(* What a delta says of the size of its image, even a damaged one ...      *)
Sized(d, prev, img) ==
    /\ d \in DeltaRows /\ Len(prev) <= Len(img)
    /\ \A k \in 1..Len(d.idx.data) : (d.idx.data[k] + 1) * Grain <= Len(img)
    /\ Len(prev) < Len(img) => \E k \in 1..Len(d.idx.data) : (d.idx.data[k] + 1) * Grain = Len(img)

(* ... and of its bytes: those of a grain it names, or those it had.       *)
Carries(d, prev, img) ==
    \A j \in 1..Len(img) :
        /\ \A k \in 1..Len(d.idx.data) :
            d.idx.data[k] = (j - 1) \div Grain =>
                d.payload.data[(k - 1) * Grain + ((j - 1) % Grain) + 1] = img[j]
        /\ (\A k \in 1..Len(d.idx.data) : d.idx.data[k] # (j - 1) \div Grain) =>
                j <= Len(prev) /\ prev[j] = img[j]

Tagged(d) == d.idx.codec = NormCodec(d.codec) /\ d.payload.codec = NormCodec(d.codec)

(* A grain that is not among the changed ones is an old one, unchanged.    *)
LEMMA Unchanged ==
    ASSUME NEW prev, NEW img, Image(prev), Image(img), NEW j \in 1..Len(img),
           (j - 1) \div Grain \notin Changed(img, prev)
    PROVE  j <= Len(prev) /\ prev[j] = img[j]
<1> DEFINE i == (j - 1) \div Grain  r == (j - 1) % Grain
<1>1. i \in 0..(NGrains(img) - 1) /\ r \in 0..(Grain - 1) /\ j = i * Grain + r + 1
  BY GrainsOfImage
<1>2. Grain \in Nat \ {0} /\ Len(prev) \in Nat
  BY ImageAssumption DEF Image
<1> HIDE DEF i, r
<1>3. j \in (i * Grain + 1)..((i + 1) * Grain)
  <2> DEFINE x == i * Grain
  <2>1. i \in Nat
    BY <1>1
  <2>2. (i + 1) * Grain = x + Grain /\ x \in Nat
    BY <1>2, <2>1, Products
  <2> HIDE DEF x
  <2>3. j \in (x + 1)..(x + Grain)
    <3>1. j = x + r + 1
      BY <1>1 DEF x
    <3> QED BY <1>1, <1>2, <2>2, <3>1
  <2> QED BY <2>2, <2>3 DEF x
<1>4. i \notin Changed(img, prev)
  BY DEF i
<1>5. ~(j > Len(prev) \/ img[j] # prev[j])
  BY <1>1, <1>3, <1>4 DEF Changed
<1> QED BY <1>2, <1>5

(* The delta dumpW4 takes carries the new image over the old one.          *)
LEMMA DeltaCarries ==
    ASSUME NEW prev, NEW img, Image(prev), Image(img), Len(prev) <= Len(img)
    PROVE  LET d == Delta(img, Changed(img, prev)) IN Sized(d, prev, img) /\ Carries(d, prev, img) /\ Tagged(d)
<1> DEFINE idx == Changed(img, prev)  n == NGrains(img)
           o == Pushed(idx, [i \in 1..n |-> i - 1])  pay == Payload(img, o)
           d == Delta(img, idx)  c == NormCodec(Tag)
<1>1. Grain \in Nat \ {0} /\ img \in Seq(Byte) /\ n \in Nat /\ idx \subseteq 0..(n - 1)
  BY ImageAssumption, GrainsOfImage DEF Image, Changed
<1>2. o \in Seq(Nat) /\ \A i : (\E k \in 1..Len(o) : o[k] = i) <=> i \in idx
  <2> HIDE DEF idx, n
  <2>1. o \in Seq(Nat) /\ \A i : (\E k \in 1..Len(o) : o[k] = i) <=> (i \in idx /\ i \in 0..(n - 1))
    BY <1>1, PushedIs
  <2> QED BY <1>1, <2>1
<1>3. d = [idx |-> [codec |-> c, data |-> o], payload |-> [codec |-> c, data |-> pay], codec |-> Tag]
  BY DEF Delta, Compress
<1>4. /\ d.idx.data = o /\ d.payload.data = pay /\ d.idx.codec = c /\ d.payload.codec = c /\ d.codec = Tag
      /\ c \in {"zstd", "gzip"} /\ Tag \in {"", "zstd"}
  <2>1. c \in {"zstd", "gzip"} /\ Tag \in {"", "zstd"}
    BY DEF NormCodec, Tag
  <2> HIDE DEF d, o, pay, c
  <2> QED BY <1>3, <2>1
<1>5. pay = [p \in 1..(Len(o) * Grain) |-> img[o[(p - 1) \div Grain + 1] * Grain + ((p - 1) % Grain) + 1]]
  BY DEF Payload
<1> HIDE DEF idx, n, o, pay, c
<1>6. ASSUME NEW k \in 1..Len(o) PROVE o[k] \in Nat /\ o[k] \in idx /\ (o[k] + 1) * Grain <= Len(img)
  <2>1. o[k] \in idx /\ o[k] \in 0..(n - 1)
    BY <1>1, <1>2
  <2>2. \A i \in 0..(n - 1) : (i + 1) * Grain <= Len(img)
    BY GrainsOfImage DEF n
  <2>3. o[k] \in Nat
    BY <1>1, <2>1
  <2> QED BY <2>1, <2>2, <2>3
<1>7. Len(o) \in Nat /\ Len(o) * Grain \in Nat
  BY <1>1, <1>2
<1>8. ASSUME NEW k \in 1..Len(o), NEW r \in 0..(Grain - 1)
      PROVE  /\ (k - 1) * Grain + r + 1 \in 1..(Len(o) * Grain)
             /\ pay[(k - 1) * Grain + r + 1] = img[o[k] * Grain + r + 1]
             /\ o[k] * Grain + r + 1 \in 1..Len(img)
  <2> DEFINE p == (k - 1) * Grain + r + 1
  <2>1. k \in Nat \ {0} /\ k <= Len(o) /\ (k - 1) + 1 = k
    BY <1>7
  <2>2. p \in 1..(Len(o) * Grain) /\ (p - 1) \div Grain = k - 1 /\ (p - 1) % Grain = r
    BY <1>7, <2>1, PlaceInPayload
  <2> HIDE DEF p
  <2>3. pay[p] = img[o[k] * Grain + r + 1]
    BY <1>5, <2>1, <2>2
  <2>4. o[k] * Grain + r + 1 \in 1..Len(img)
    <3> DEFINE x == o[k] * Grain
    <3>1. o[k] \in Nat /\ x \in Nat /\ (o[k] + 1) * Grain = x + Grain
      BY <1>1, <1>6, Products
    <3> HIDE DEF x
    <3>2. x + Grain <= Len(img) /\ Len(img) \in Nat
      BY <1>1, <1>6, <3>1
    <3> QED BY <1>1, <3>1, <3>2 DEF x
  <2> QED BY <2>2, <2>3, <2>4 DEF p
<1>9. pay \in Seq(Byte) /\ Len(pay) = Len(o) * Grain
  <2> DEFINE b(p) == img[o[(p - 1) \div Grain + 1] * Grain + ((p - 1) % Grain) + 1]  l == Len(o) * Grain
  <2>1. ASSUME NEW p \in 1..l PROVE b(p) \in Byte
    <3> DEFINE q == (p - 1) \div Grain  r == (p - 1) % Grain
    <3>1. p - 1 \in Nat /\ p - 1 < l /\ l = Len(o) * Grain
      BY <1>7
    <3>2. q \in Nat /\ r \in 0..(Grain - 1) /\ p - 1 = q * Grain + r
      BY <1>1, <3>1, Divided
    <3> HIDE DEF q, r, l
    <3>3. q < Len(o)
      <4> SUFFICES ASSUME Len(o) <= q PROVE FALSE
        BY <1>7, <3>2
      <4> DEFINE x == q * Grain  y == Len(o) * Grain
      <4>1. x \in Nat /\ y \in Nat /\ y <= x
        BY <1>1, <1>7, <3>2, Products
      <4>2. p - 1 = x + r /\ l = y
        BY <3>1, <3>2
      <4> HIDE DEF x, y
      <4> QED BY <1>1, <3>1, <3>2, <4>1, <4>2
    <3>4. q + 1 \in 1..Len(o)
      BY <1>7, <3>2, <3>3
    <3>5. o[q + 1] * Grain + r + 1 \in 1..Len(img)
      BY <1>8, <3>2, <3>4
    <3>6. img[o[q + 1] * Grain + r + 1] \in Byte
      <4> DEFINE x == o[q + 1] * Grain + r + 1
      <4>1. x \in 1..Len(img)
        BY <3>5
      <4> HIDE DEF x
      <4>2. img[x] \in Byte
        BY <1>1, <4>1
      <4> QED BY <4>2 DEF x
    <3> QED BY <3>6 DEF q, r
  <2>2. pay = [p \in 1..l |-> b(p)]
    BY <1>5
  <2> HIDE DEF b, l
  <2>3. l \in Nat
    BY <1>7 DEF l
  <2>4. pay \in Seq(Byte) /\ Len(pay) = l
    BY <2>1, <2>2, <2>3
  <2> QED BY <2>4 DEF l
<1>10. d \in DeltaRows
  <2>1. d \in [idx : [codec : {"zstd", "gzip"}, data : Seq(Nat)],
               payload : [codec : {"zstd", "gzip"}, data : Seq(Byte)], codec : {"", "zstd"}]
    <3> HIDE DEF d
    <3> QED BY <1>2, <1>3, <1>4, <1>9
  <2> HIDE DEF d
  <2> QED BY <1>4, <1>9, <2>1 DEF DeltaRows
<1> HIDE DEF d
<1>11. Len(prev) < Len(img) => \E k \in 1..Len(o) : (o[k] + 1) * Grain = Len(img)
  <2> HAVE Len(prev) < Len(img)
  <2> DEFINE i == n - 1  l == Len(img)  x == i * Grain
  <2>1. n \in Nat /\ l = n * Grain /\ l \in Nat \ {0} /\ Len(prev) \in Nat
    BY GrainsOfImage DEF n, Image
  <2>2. n # 0
    <3> HIDE DEF n
    <3> QED BY <1>1, <2>1
  <2>3. i \in 0..(n - 1) /\ i \in Nat /\ i + 1 = n
    BY <2>1, <2>2
  <2>4. (i + 1) * Grain = l /\ x \in Nat /\ (i + 1) * Grain = x + Grain
    <3> HIDE DEF i, l
    <3> QED BY <1>1, <2>1, <2>3, Products
  <2> HIDE DEF i, l, x
  <2>5. l \in (x + 1)..(x + Grain) /\ l > Len(prev)
    BY <1>1, <2>1, <2>4 DEF l
  <2>6. \E j \in (i * Grain + 1)..((i + 1) * Grain) : j > Len(prev) \/ img[j] # prev[j]
    BY <2>4, <2>5 DEF x
  <2>7. i \in idx
    BY <2>3, <2>6 DEF idx, Changed, n
  <2>8. PICK k \in 1..Len(o) : o[k] = i
    BY <1>2, <2>7
  <2> QED BY <2>4, <2>8 DEF l
<1>12. Sized(d, prev, img)
  BY <1>4, <1>6, <1>10, <1>11 DEF Sized
<1>13. Carries(d, prev, img)
  <2> SUFFICES ASSUME NEW j \in 1..Len(img)
               PROVE  /\ \A k \in 1..Len(o) : o[k] = (j - 1) \div Grain =>
                            pay[(k - 1) * Grain + ((j - 1) % Grain) + 1] = img[j]
                      /\ (\A k \in 1..Len(o) : o[k] # (j - 1) \div Grain) =>
                            j <= Len(prev) /\ prev[j] = img[j]
    BY <1>4 DEF Carries
  <2> DEFINE q == (j - 1) \div Grain  r == (j - 1) % Grain
  <2>1. q \in 0..(n - 1) /\ r \in 0..(Grain - 1) /\ j = q * Grain + r + 1
    BY GrainsOfImage DEF n
  <2>2. ASSUME \A k \in 1..Len(o) : o[k] # q PROVE j <= Len(prev) /\ prev[j] = img[j]
    <3>1. q \notin Changed(img, prev)
      BY <1>2, <2>2 DEF idx
    <3> QED BY <3>1, Unchanged
  <2> HIDE DEF q, r
  <2>3. ASSUME NEW k \in 1..Len(o), o[k] = q PROVE pay[(k - 1) * Grain + r + 1] = img[j]
    BY <1>8, <2>1, <2>3
  <2> QED BY <2>2, <2>3 DEF q, r
<1>14. Tagged(d)
  BY <1>4 DEF Tagged, c
<1> QED BY <1>12, <1>13, <1>14 DEF d, idx

-----------------------------------------------------------------------------
(* The images that a base and its deltas stand for, one after the other.   *)
Chain(base, deltas, imgs) ==
    /\ deltas \in Seq(DeltaRows)
    /\ imgs[0] = base
    /\ \A k \in 0..Len(deltas) : Image(imgs[k])
    /\ \A k \in 1..Len(deltas) : Sized(deltas[k], imgs[k - 1], imgs[k])

Undamaged(deltas, imgs) == \A k \in 1..Len(deltas) : Carries(deltas[k], imgs[k - 1], imgs[k])

(* The memory never shrinks.                                               *)
LEMMA ChainGrows ==
    ASSUME NEW base, NEW deltas, NEW imgs, Chain(base, deltas, imgs)
    PROVE  \A k \in 0..Len(deltas) : Len(imgs[k]) \in Nat \ {0} /\ Len(imgs[k]) <= Len(imgs[Len(deltas)])
<1> DEFINE n == Len(deltas)  l(k) == Len(imgs[k])
           S == {m \in 0..n : \A k \in 0..m : l(k) <= l(m)}
<1>1. n \in Nat /\ \A k \in 0..n : l(k) \in Nat \ {0}
  BY DEF Chain, Image
<1>2. \A k \in 1..n : l(k - 1) <= l(k)
  BY DEF Chain, Sized
<1> HIDE DEF l, n
<1>3. 0 \in S
  BY <1>1
<1>4. ASSUME NEW m \in 0..(n - 1), m \in S PROVE m + 1 \in S
  <2>1. l(m) <= l(m + 1)
    <3>1. m + 1 \in 1..n /\ (m + 1) - 1 = m
      BY <1>1
    <3>2. l((m + 1) - 1) <= l(m + 1)
      BY <1>2, <3>1
    <3> QED BY <3>1, <3>2
  <2>2. m \in Nat /\ m + 1 \in 0..n /\ m \in 0..n
    BY <1>1
  <2>3. ASSUME NEW k \in 0..(m + 1) PROVE l(k) <= l(m + 1)
    <3>1. CASE k = m + 1
      BY <1>1, <2>2, <3>1
    <3>2. CASE k # m + 1
      <4>1. k \in 0..m /\ k \in 0..n
        BY <1>1, <2>2, <3>2
      <4> QED BY <1>1, <1>4, <2>1, <2>2, <4>1
    <3> QED BY <3>1, <3>2
  <2> QED BY <2>2, <2>3
<1>5. n \in S
  <2> HIDE DEF S
  <2>1. 0..n \subseteq S
    BY <1>1, <1>3, <1>4, BoundedInduction
  <2> QED BY <1>1, <2>1
<1> QED BY <1>1, <1>5 DEF n, l

(* The rebuilt image is as long as the last one.                           *)
LEMMA ExtentIs ==
    ASSUME NEW base, NEW deltas, NEW imgs, Chain(base, deltas, imgs)
    PROVE  Extent(base, deltas) = Len(imgs[Len(deltas)])
<1> DEFINE n == Len(deltas)  ln(k) == Len(imgs[k])  L == Len(imgs[n])
           I == UNION {Range(d.idx.data) : d \in Range(deltas)}
           T == {Len(base)} \cup {(i + 1) * Grain : i \in I}
<1>1. n \in Nat /\ L \in Nat \ {0} /\ \A k \in 0..n : ln(k) \in Nat \ {0} /\ ln(k) <= L
  <2>1. n \in Nat
    BY DEF Chain
  <2> QED BY <2>1, ChainGrows
<1>2. DOMAIN deltas = 1..n /\ \A k \in 1..n : deltas[k] \in DeltaRows /\ Sized(deltas[k], imgs[k - 1], imgs[k])
  BY DEF Chain
<1>3. \A k \in 1..n : DOMAIN deltas[k].idx.data = 1..Len(deltas[k].idx.data)
                      /\ \A m \in 1..Len(deltas[k].idx.data) : deltas[k].idx.data[m] \in Nat
  <2> TAKE k \in 1..n
  <2> DEFINE d == deltas[k]
  <2>1. d.idx \in [codec : {"zstd", "gzip"}, data : Seq(Nat)]
    BY <1>2 DEF DeltaRows
  <2> HIDE DEF d
  <2>2. d.idx.data \in Seq(Nat)
    BY <2>1
  <2>3. DOMAIN d.idx.data = 1..Len(d.idx.data) /\ \A m \in 1..Len(d.idx.data) : d.idx.data[m] \in Nat
    BY <2>2
  <2> QED BY <2>3 DEF d
<1>4. \A i : i \in I <=> \E k \in 1..n : \E m \in 1..Len(deltas[k].idx.data) : i = deltas[k].idx.data[m]
  <2>1. Range(deltas) = {deltas[k] : k \in 1..n}
    BY <1>2 DEF Range
  <2>2. \A k \in 1..n : Range(deltas[k].idx.data) = {deltas[k].idx.data[m] : m \in 1..Len(deltas[k].idx.data)}
    BY <1>3 DEF Range
  <2>3. \A i : i \in I <=> \E d \in Range(deltas) : i \in Range(d.idx.data)
    OBVIOUS
  <2>4. \A i : i \in I <=> \E k \in 1..n : i \in Range(deltas[k].idx.data)
    <3> DEFINE D == Range(deltas)
    <3>1. \A d : d \in D <=> \E k \in 1..n : d = deltas[k]
      BY <2>1
    <3>2. \A i : i \in I <=> \E d \in D : i \in Range(d.idx.data)
      BY <2>3
    <3> HIDE DEF D, n, I
    <3> TAKE i
    <3>3. ASSUME i \in I PROVE \E k \in 1..n : i \in Range(deltas[k].idx.data)
      <4>1. PICK d \in D : i \in Range(d.idx.data)
        BY <3>2, <3>3
      <4>2. PICK k \in 1..n : d = deltas[k]
        BY <3>1
      <4> QED BY <4>1, <4>2
    <3>4. ASSUME NEW k \in 1..n, i \in Range(deltas[k].idx.data) PROVE i \in I
      <4>1. deltas[k] \in D
        BY <3>1
      <4> QED BY <3>2, <3>4, <4>1
    <3> QED BY <3>3, <3>4
  <2> HIDE DEF n, I, T, L
  <2>5. ASSUME NEW k \in 1..n, NEW i
        PROVE  i \in Range(deltas[k].idx.data) <=> \E m \in 1..Len(deltas[k].idx.data) : i = deltas[k].idx.data[m]
    <3> DEFINE q == deltas[k].idx.data
    <3>1. Range(q) = {q[m] : m \in 1..Len(q)}
      BY <2>2
    <3> HIDE DEF q
    <3>2. i \in Range(q) <=> \E m \in 1..Len(q) : i = q[m]
      BY <3>1
    <3> QED BY <3>2 DEF q
  <2> TAKE i
  <2>6. ASSUME i \in I PROVE \E k \in 1..n : \E m \in 1..Len(deltas[k].idx.data) : i = deltas[k].idx.data[m]
    <3>1. PICK k \in 1..n : i \in Range(deltas[k].idx.data)
      BY <2>4, <2>6
    <3>2. \E m \in 1..Len(deltas[k].idx.data) : i = deltas[k].idx.data[m]
      BY <2>5, <3>1
    <3> QED BY <3>2
  <2>7. ASSUME NEW k \in 1..n, \E m \in 1..Len(deltas[k].idx.data) : i = deltas[k].idx.data[m] PROVE i \in I
    <3>1. i \in Range(deltas[k].idx.data)
      BY <2>5, <2>7
    <3> QED BY <2>4, <3>1
  <2> QED BY <2>6, <2>7
<1> HIDE DEF I
<1>5. ASSUME NEW t \in T PROVE t \in 1..L
  <2>1. CASE t = Len(base)
    <3>1. Len(base) = ln(0) /\ 0 \in 0..n
      BY <1>1 DEF Chain
    <3> HIDE DEF ln, L
    <3> QED BY <1>1, <2>1, <3>1
  <2>2. CASE t # Len(base)
    <3>1. PICK i \in I : t = (i + 1) * Grain
      BY <2>2
    <3>0. PICK k \in 1..n : \E m \in 1..Len(deltas[k].idx.data) : i = deltas[k].idx.data[m]
      BY <1>4
    <3>2. PICK m \in 1..Len(deltas[k].idx.data) : i = deltas[k].idx.data[m]
      BY <3>0
    <3>3. i \in Nat /\ t <= ln(k) /\ k \in 0..n
      <4>1. (deltas[k].idx.data[m] + 1) * Grain <= Len(imgs[k])
        BY <1>2 DEF Sized
      <4>2. i \in Nat
        BY <1>3, <3>2
      <4> QED BY <1>1, <3>1, <3>2, <4>1, <4>2
    <3>4. t \in Nat /\ t >= 1
      <4> DEFINE x == i * Grain
      <4>1. Grain \in Nat \ {0}
        BY ImageAssumption
      <4>2. (i + 1) * Grain = x + Grain /\ x \in Nat
        BY <3>3, <4>1, Products
      <4> HIDE DEF x
      <4> QED BY <3>1, <4>1, <4>2
    <3> HIDE DEF ln, L
    <3> QED BY <1>1, <3>3, <3>4
  <2> QED BY <2>1, <2>2
<1>6. L \in T
  <2> DEFINE S == {m \in 0..n : ln(m) \in T}
  <2>1. 0 \in S
    <3>1. Len(base) = ln(0) /\ 0 \in 0..n
      BY <1>1 DEF Chain
    <3> QED BY <3>1
  <2>2. ASSUME NEW m \in 0..(n - 1), m \in S PROVE m + 1 \in S
    <3>1. m + 1 \in 1..n /\ (m + 1) - 1 = m /\ m \in 0..n /\ m + 1 \in 0..n
      BY <1>1
    <3>2. Sized(deltas[m + 1], imgs[m], imgs[m + 1])
      BY <1>2, <3>1
    <3>3. CASE ln(m) = ln(m + 1)
      BY <2>2, <3>1, <3>3
    <3>4. CASE ln(m) # ln(m + 1)
      <4>1. ln(m) < ln(m + 1)
        BY <1>1, <3>1, <3>2, <3>4 DEF Sized
      <4>2. PICK k \in 1..Len(deltas[m + 1].idx.data) : (deltas[m + 1].idx.data[k] + 1) * Grain = ln(m + 1)
        BY <3>2, <4>1 DEF Sized
      <4>3. deltas[m + 1].idx.data[k] \in I
        BY <1>4, <3>1
      <4>4. ln(m + 1) \in T
        BY <4>2, <4>3
      <4> HIDE DEF T, ln
      <4> QED BY <3>1, <4>4
    <3> QED BY <3>3, <3>4
  <2> HIDE DEF S
  <2>3. 0..n \subseteq S
    BY <1>1, <2>1, <2>2, BoundedInduction
  <2>4. n \in S
    BY <1>1, <2>3
  <2> QED BY <2>4 DEF S
<1>7. T \in SUBSET (1..L) /\ T # {}
  <2> HIDE DEF T
  <2> QED BY <1>5, <1>6
<1>8. Max(T) \in T /\ Max(T) >= L
  <2> HIDE DEF T, L
  <2> QED BY <1>1, <1>6, <1>7, MaxOfNumbers
<1>9. Max(T) = L
  <2> HIDE DEF L
  <2>1. Max(T) \in 1..L
    <3> HIDE DEF T
    <3> QED BY <1>5, <1>8
  <2> HIDE DEF T
  <2> QED BY <1>1, <1>8, <2>1
<1> QED BY <1>9 DEF Extent, I

(* Growing keeps the bytes there are.                                      *)
LEMMA GrowIs ==
    ASSUME NEW img \in Seq(Byte), NEW n \in Nat, Len(img) <= n
    PROVE  /\ Grow(img, n) \in Seq(Byte) /\ Len(Grow(img, n)) = n
           /\ \A j \in 1..Len(img) : Grow(img, n)[j] = img[j]
<1> DEFINE z == Zeros(n - Len(img))
<1>1. Len(img) \in Nat /\ n - Len(img) \in Nat
  OBVIOUS
<1>2. z \in Seq(Byte) /\ Len(z) = n - Len(img)
  BY <1>1 DEF Zeros, Byte
<1> HIDE DEF z
<1>3. CASE n > Len(img)
  <2>1. Grow(img, n) = img \o z
    BY <1>3 DEF Grow, z
  <2>2. img \o z \in Seq(Byte) /\ Len(img \o z) = Len(img) + Len(z) /\ \A j \in 1..Len(img) : (img \o z)[j] = img[j]
    BY <1>1, <1>2
  <2> QED BY <1>1, <1>2, <2>1, <2>2
<1>4. CASE ~(n > Len(img))
  <2>1. Grow(img, n) = img /\ Len(img) = n
    BY <1>1, <1>4 DEF Grow
  <2> QED BY <2>1
<1> QED BY <1>3, <1>4

(* A chain rebuilds an image of the length of the last dump, and if no     *)
(* delta was damaged its very bytes.                                       *)
LEMMA RebuildIs ==
    ASSUME NEW base, NEW deltas, NEW imgs, Chain(base, deltas, imgs)
    PROVE  LET L == imgs[Len(deltas)]  R == Rebuild(base, deltas) IN
           R \in Seq(Byte) /\ Len(R) = Len(L) /\ (Undamaged(deltas, imgs) => R = L)
<1> DEFINE n == Len(deltas)  end == imgs[n]  L == Len(end)  start == Grow(base, Extent(base, deltas))
           Long(img) == img \in Seq(Byte) /\ Len(img) = L
           Has(img, k) == \A j \in 1..Len(imgs[k]) : img[j] = imgs[k][j]
<1>1. n \in Nat /\ L \in Nat \ {0} /\ \A k \in 0..n : Len(imgs[k]) \in Nat \ {0} /\ Len(imgs[k]) <= L
  <2>1. n \in Nat
    BY DEF Chain
  <2> QED BY <2>1, ChainGrows
<1>2. Long(start) /\ Has(start, 0)
  <2>1. base = imgs[0] /\ base \in Seq(Byte) /\ Len(base) <= L
    BY <1>1 DEF Chain, Image
  <2>2. Extent(base, deltas) = L
    BY ExtentIs
  <2> HIDE DEF L
  <2> QED BY <1>1, <2>1, <2>2, GrowIs
<1> HIDE DEF start
<1>3. deltas \in Seq(DeltaRows) /\ \A k \in 1..n : deltas[k] \in DeltaRows
  BY DEF Chain
<1>4. PICK G : Applies(G, start, deltas)
  BY <1>2, <1>3, RebuildUnfolds
<1>5. G[0] = start /\ Rebuild(base, deltas) = G[n] /\ \A k \in 0..(n - 1) : G[k + 1] = ApplyDelta(G[k], deltas[k + 1])
  BY <1>4 DEF Applies, Rebuild, start
<1> HIDE DEF n, end, L
<1> DEFINE S == {k \in 0..n : Long(G[k]) /\ (Undamaged(deltas, imgs) => Has(G[k], k))}
<1>6. 0 \in S
  BY <1>1, <1>2, <1>5
<1>7. ASSUME NEW k \in 0..(n - 1), k \in S PROVE k + 1 \in S
  <2> DEFINE img == G[k]  d == deltas[k + 1]  new == G[k + 1]
  <2>1. k + 1 \in 1..n /\ k + 1 \in 0..n /\ k \in 0..n /\ (k + 1) - 1 = k
    BY <1>1
  <2>2. Long(img) /\ (Undamaged(deltas, imgs) => Has(img, k)) /\ new = ApplyDelta(img, d) /\ d \in DeltaRows
    BY <1>3, <1>5, <1>7, <2>1
  <2> HIDE DEF img, d, new
  <2>3. /\ new \in Seq(Byte) /\ Len(new) = L
        /\ \A j \in 1..L :
              \/ (\A m \in 1..Len(d.idx.data) : d.idx.data[m] # (j - 1) \div Grain) /\ new[j] = img[j]
              \/ \E m \in 1..Len(d.idx.data) :
                    /\ d.idx.data[m] = (j - 1) \div Grain
                    /\ new[j] = d.payload.data[(m - 1) * Grain + ((j - 1) % Grain) + 1]
    BY <2>2, ApplyType
  <2>4. ASSUME Undamaged(deltas, imgs), NEW j \in 1..Len(imgs[k + 1]) PROVE new[j] = imgs[k + 1][j]
    <3>1. /\ \A m \in 1..Len(d.idx.data) :
                d.idx.data[m] = (j - 1) \div Grain =>
                    d.payload.data[(m - 1) * Grain + ((j - 1) % Grain) + 1] = imgs[k + 1][j]
          /\ (\A m \in 1..Len(d.idx.data) : d.idx.data[m] # (j - 1) \div Grain) =>
                j <= Len(imgs[k]) /\ imgs[k][j] = imgs[k + 1][j]
      <4>1. Carries(d, imgs[k], imgs[k + 1])
        <5>1. k + 1 \in 1..Len(deltas)
          BY <2>1 DEF n
        <5>2. Carries(deltas[k + 1], imgs[(k + 1) - 1], imgs[k + 1])
          BY <2>4, <5>1 DEF Undamaged
        <5> QED BY <2>1, <5>2 DEF d
      <4> QED BY <4>1 DEF Carries
    <3>2. j \in 1..L /\ Len(imgs[k]) \in Nat
      BY <1>1, <2>1
    <3>3. CASE (\A m \in 1..Len(d.idx.data) : d.idx.data[m] # (j - 1) \div Grain) /\ new[j] = img[j]
      <4>1. j \in 1..Len(imgs[k]) /\ imgs[k][j] = imgs[k + 1][j]
        BY <3>1, <3>2, <3>3
      <4>2. img[j] = imgs[k][j]
        BY <2>2, <2>4, <4>1
      <4> QED BY <3>3, <4>1, <4>2
    <3>4. CASE \E m \in 1..Len(d.idx.data) :
                  /\ d.idx.data[m] = (j - 1) \div Grain
                  /\ new[j] = d.payload.data[(m - 1) * Grain + ((j - 1) % Grain) + 1]
      BY <3>1, <3>4
    <3> QED BY <2>3, <3>2, <3>3, <3>4
  <2>5. Long(new) /\ (Undamaged(deltas, imgs) => Has(new, k + 1))
    BY <2>3, <2>4
  <2> HIDE DEF Long, Has
  <2> QED BY <2>1, <2>5 DEF new
<1>8. n \in S
  <2> HIDE DEF S
  <2>1. 0..n \subseteq S
    BY <1>1, <1>6, <1>7, BoundedInduction
  <2> QED BY <1>1, <2>1
<1> DEFINE R == G[n]
<1>9. R \in Seq(Byte) /\ Len(R) = L /\ (Undamaged(deltas, imgs) => Has(R, n))
  BY <1>8
<1>10. end \in Seq(Byte) /\ L = Len(end) /\ end = imgs[n]
  BY <1>1 DEF Chain, Image, end, n, L
<1> HIDE DEF R
<1>11. Undamaged(deltas, imgs) => R = end
  <2> HAVE Undamaged(deltas, imgs)
  <2>1. \A j \in 1..Len(R) : R[j] = end[j]
    BY <1>9, <1>10
  <2>2. Len(R) = Len(end)
    BY <1>9, <1>10
  <2> QED BY <1>9, <1>10, <2>1, <2>2
<1> QED BY <1>5, <1>9, <1>10, <1>11 DEF R, n

(* A full base is a chain by itself ...                                    *)
LEMMA ChainOfBase ==
    ASSUME NEW img, Image(img)
    PROVE  \E imgs : Chain(img, <<>>, imgs) /\ imgs[Len(<<>>)] = img /\ Undamaged(<<>>, imgs)
<1> DEFINE imgs == [k \in 0..0 |-> img]  none == <<>>
<1>1. none \in Seq(DeltaRows) /\ Len(none) = 0 /\ 1..Len(none) = {}
  OBVIOUS
<1>2. \A k \in 0..0 : imgs[k] = img
  OBVIOUS
<1> HIDE DEF imgs, none
<1>3. Chain(img, none, imgs) /\ Undamaged(none, imgs) /\ imgs[Len(none)] = img
  BY <1>1, <1>2 DEF Chain, Undamaged
<1> QED BY <1>3 DEF none

(* ... and a delta of the last image makes the chain longer.               *)
LEMMA ChainExtended ==
    ASSUME NEW base, NEW deltas, NEW imgs, Chain(base, deltas, imgs), NEW d, NEW img, Image(img),
           Sized(d, imgs[Len(deltas)], img), Carries(d, imgs[Len(deltas)], img)
    PROVE  \E more : /\ Chain(base, Append(deltas, d), more) /\ more[Len(Append(deltas, d))] = img
                     /\ Undamaged(deltas, imgs) => Undamaged(Append(deltas, d), more)
<1> DEFINE n == Len(deltas)  ds == Append(deltas, d)
           more == [k \in 0..(n + 1) |-> IF k <= n THEN imgs[k] ELSE img]
<1>1. deltas \in Seq(DeltaRows) /\ n \in Nat /\ d \in DeltaRows
  BY DEF Chain, Sized
<1>2. ds \in Seq(DeltaRows) /\ Len(ds) = n + 1 /\ ds[n + 1] = d /\ \A k \in 1..n : ds[k] = deltas[k]
  BY <1>1
<1>3. (\A k \in 0..n : more[k] = imgs[k]) /\ more[n + 1] = img /\ more[0] = imgs[0]
  BY <1>1
<1>4. imgs[0] = base /\ (\A k \in 0..n : Image(imgs[k])) /\ (\A k \in 1..n : Sized(deltas[k], imgs[k - 1], imgs[k]))
      /\ Sized(d, imgs[n], img) /\ Carries(d, imgs[n], img)
  BY DEF Chain
<1> HIDE DEF more, ds, n
<1>5. ASSUME NEW k \in 1..(n + 1)
      PROVE  \/ k \in 1..n /\ k - 1 \in 0..n /\ k \in 0..n
             \/ k = n + 1 /\ k - 1 = n /\ n \in 0..n
  BY <1>1
<1>6. \A k \in 0..(n + 1) : Image(more[k])
  <2> TAKE k \in 0..(n + 1)
  <2>1. k \in 0..n \/ k = n + 1
    BY <1>1
  <2> QED BY <1>3, <1>4, <2>1
<1>7. \A k \in 1..(n + 1) : Sized(ds[k], more[k - 1], more[k])
  <2> TAKE k \in 1..(n + 1)
  <2>1. CASE k \in 1..n /\ k - 1 \in 0..n /\ k \in 0..n
    BY <1>2, <1>3, <1>4, <2>1
  <2>2. CASE k = n + 1 /\ k - 1 = n /\ n \in 0..n
    BY <1>2, <1>3, <1>4, <2>2
  <2> QED BY <1>5, <2>1, <2>2
<1>8. Undamaged(deltas, imgs) => \A k \in 1..(n + 1) : Carries(ds[k], more[k - 1], more[k])
  <2> HAVE Undamaged(deltas, imgs)
  <2>0. \A k \in 1..n : Carries(deltas[k], imgs[k - 1], imgs[k])
    BY DEF Undamaged, n
  <2> TAKE k \in 1..(n + 1)
  <2>1. CASE k \in 1..n /\ k - 1 \in 0..n /\ k \in 0..n
    BY <1>2, <1>3, <2>0, <2>1
  <2>2. CASE k = n + 1 /\ k - 1 = n /\ n \in 0..n
    BY <1>2, <1>3, <1>4, <2>2
  <2> QED BY <1>5, <2>1, <2>2
<1>9. Chain(base, ds, more) /\ (Undamaged(deltas, imgs) => Undamaged(ds, more)) /\ more[Len(ds)] = img
  BY <1>2, <1>3, <1>4, <1>6, <1>7, <1>8 DEF Chain, Undamaged
<1> QED BY <1>9 DEF ds

(* A damaged delta still says the right size.                              *)
Damaged(d) == [d EXCEPT !.payload.data = Zeros(Len(@))]

(* Damage changes the payload's bytes only.                                *)
LEMMA DamagedSized ==
    ASSUME NEW d \in DeltaRows
    PROVE  /\ Damaged(d) \in DeltaRows
           /\ Damaged(d).idx = d.idx /\ Damaged(d).payload.codec = d.payload.codec /\ Damaged(d).codec = d.codec
<1> DEFINE n == Len(d.payload.data)  z == Zeros(n)  pay == [d.payload EXCEPT !.data = z]  e == [d EXCEPT !.payload = pay]
<1>1. /\ d \in [idx : [codec : {"zstd", "gzip"}, data : Seq(Nat)],
                payload : [codec : {"zstd", "gzip"}, data : Seq(Byte)], codec : {"", "zstd"}]
      /\ Len(d.payload.data) = Len(d.idx.data) * Grain
  BY DEF DeltaRows
<1>2. d.payload \in [codec : {"zstd", "gzip"}, data : Seq(Byte)]
  BY <1>1
<1>3. n \in Nat
  BY <1>2
<1>4. z \in Seq(Byte) /\ Len(z) = n
  <2> HIDE DEF n
  <2> QED BY <1>3 DEF Zeros, Byte
<1>5. Damaged(d) = e
  <2> HIDE DEF z
  <2>1. Damaged(d) = [d EXCEPT !.payload.data = z]
    BY DEF Damaged, z
  <2> QED BY <1>1, <1>2, <2>1
<1> HIDE DEF z, n
<1>6. pay \in [codec : {"zstd", "gzip"}, data : Seq(Byte)] /\ pay.data = z /\ pay.codec = d.payload.codec
  BY <1>2, <1>4
<1> HIDE DEF pay
<1>7. e.idx = d.idx /\ e.payload = pay /\ e.codec = d.codec
      /\ e \in [idx : [codec : {"zstd", "gzip"}, data : Seq(Nat)],
                payload : [codec : {"zstd", "gzip"}, data : Seq(Byte)], codec : {"", "zstd"}]
  BY <1>1, <1>6
<1> HIDE DEF e
<1>8. Len(e.payload.data) = Len(e.idx.data) * Grain
  BY <1>1, <1>4, <1>6, <1>7 DEF n
<1> QED BY <1>5, <1>6, <1>7, <1>8 DEF DeltaRows

-----------------------------------------------------------------------------
RowsType ==
    [base : [codec : {"zstd", "gzip"}, data : Seq(Byte)], tag : {"", "zstd"}, deltas : Seq(DeltaRows),
     len : Nat, crc : Seq(Byte)]

(* The rows stand for a chain of images that ends in the committed one ... *)
RowsChain ==
    \E imgs : /\ Chain(rows.base.data, rows.deltas, imgs) /\ imgs[Len(rows.deltas)] = committed
              /\ ~damaged => Undamaged(rows.deltas, imgs)

RowsOk ==
    rows # None =>
        /\ rows \in RowsType
        /\ rows.base.codec = NormCodec(rows.tag) /\ \A k \in 1..Len(rows.deltas) : Tagged(rows.deltas[k])
        /\ Image(committed) /\ Len(committed) <= SafeBuffer
        /\ rows.len = Len(committed) /\ rows.crc = committed
        /\ RowsChain

(* ... the retained image is the committed one ...                         *)
LastOk == last # None /\ rows # None => last = committed

(* ... and a dump on its way is the next image, as a base or as a delta of *)
(* the committed one.                                                      *)
DumpOk ==
    dumped # None =>
        /\ Image(dumped.image) /\ Len(dumped.image) <= SafeBuffer
        /\ dumped.mode = "delta" =>
                /\ rows # None /\ Len(committed) <= Len(dumped.image)
                /\ dumped.blob = Delta(dumped.image, Changed(dumped.image, committed))
        /\ dumped.mode # "delta" => dumped.blob = Compress(dumped.image)
        /\ pending # None => pending = dumped.image
        /\ pending = None => last = None

ImageInv == Image(live) /\ RowsOk /\ LastOk /\ DumpOk

(* A restore of rows that stand for a chain.                               *)
LEMMA RestoreIs ==
    ASSUME RowsOk, rows # None
    PROVE  RestoreW4(rows) \in {committed} \cup IF damaged THEN {Refused} ELSE {}
<1> DEFINE R == Rebuild(rows.base.data, rows.deltas)
<1>1. PICK imgs : /\ Chain(rows.base.data, rows.deltas, imgs) /\ imgs[Len(rows.deltas)] = committed
                  /\ ~damaged => Undamaged(rows.deltas, imgs)
  BY DEF RowsOk, RowsChain
<1>2. R \in Seq(Byte) /\ Len(R) = Len(committed) /\ (~damaged => R = committed)
  BY <1>1, RebuildIs
<1>3. Readable(rows.base, rows.tag)
  BY DEF RowsOk, Readable
<1>4. \A d \in Range(rows.deltas) : Readable(d.idx, d.codec) /\ Readable(d.payload, d.codec)
  <2>1. rows.deltas \in Seq(DeltaRows)
    BY DEF RowsOk, RowsType
  <2>2. \A k \in 1..Len(rows.deltas) : Tagged(rows.deltas[k])
    BY DEF RowsOk
  <2>3. DOMAIN rows.deltas = 1..Len(rows.deltas)
    BY <2>1
  <2> QED BY <2>2, <2>3 DEF Range, Readable, Tagged
<1> HIDE DEF R
<1>5. SubSeq(R, 1, Len(R)) = R
  BY <1>2
<1>6. rows.len = Len(R) /\ rows.crc = committed /\ Len(R) <= SafeBuffer /\ ~(Len(R) < rows.len) /\ ~(Len(R) > SafeBuffer)
  <2>1. rows.len = Len(R) /\ rows.crc = committed /\ Len(R) <= SafeBuffer
    BY <1>2 DEF RowsOk
  <2>2. SafeBuffer \in Nat /\ Len(R) \in Nat
    BY <1>2, ImageAssumption
  <2> QED BY <2>1, <2>2
<1>7. RestoreW4(rows) = IF R # committed THEN Refused ELSE R
  <2>1. RestoreW4(rows) =
            IF \/ ~Readable(rows.base, rows.tag)
               \/ \E d \in Range(rows.deltas) : ~Readable(d.idx, d.codec) \/ ~Readable(d.payload, d.codec)
               \/ Len(R) < rows.len
               \/ SubSeq(R, 1, rows.len) # rows.crc
               \/ Len(R) > SafeBuffer
            THEN Refused ELSE R
    BY DEF RestoreW4, R
  <2>2. SubSeq(R, 1, rows.len) = R
    BY <1>5, <1>6
  <2> QED BY <1>3, <1>4, <1>6, <2>1, <2>2
<1> QED BY <1>2, <1>7

(* The conjuncts of the invariant read these variables only.               *)
LEMMA ImageKept ==
    /\ RowsOk /\ UNCHANGED <<rows, committed, damaged>> => RowsOk'
    /\ LastOk /\ UNCHANGED <<last, rows, committed>> => LastOk'
    /\ DumpOk /\ UNCHANGED <<dumped, rows, committed, pending, last, build>> => DumpOk'
<1>1. ASSUME RowsOk, UNCHANGED <<rows, committed, damaged>> PROVE RowsOk'
  <2>1. rows' = rows /\ committed' = committed /\ damaged' = damaged
    BY <1>1
  <2> QED BY <1>1, <2>1 DEF RowsOk, RowsChain
<1>2. ASSUME LastOk, UNCHANGED <<last, rows, committed>> PROVE LastOk'
  BY <1>2 DEF LastOk
<1>3. ASSUME DumpOk, UNCHANGED <<dumped, rows, committed, pending, last, build>> PROVE DumpOk'
  <2>1. /\ dumped' = dumped /\ rows' = rows /\ committed' = committed
        /\ pending' = pending /\ last' = last /\ build' = build
    BY <1>3
  <2>2. Tag' = Tag
    BY <2>1 DEF Tag
  <2> HIDE DEF Tag
  <2>3. \A x : Compress(x)' = Compress(x)
    BY <2>2 DEF Compress
  <2>4. \A x, y : Delta(x, y)' = Delta(x, y)
    BY <2>2 DEF Delta, Compress
  <2> QED BY <1>3, <2>1, <2>2 DEF DumpOk, Delta, Compress
<1> QED BY <1>1, <1>2, <1>3

(* A fresh memory is an image.                                             *)
LEMMA ZerosAreImage == Image(Zeros(Page))
<1> DEFINE z == Zeros(Page)
<1>1. Grain \in Nat \ {0} /\ Page \in Nat \ {0} /\ Page % Grain = 0
  BY ImageAssumption
<1>2. z \in Seq(Byte) /\ Len(z) = Page
  BY <1>1 DEF Zeros, Byte
<1>3. z # <<>>
  BY <1>1, <1>2
<1>4. Page \div Grain \in Nat /\ Page = (Page \div Grain) * Grain + 0
  BY <1>1, Divided
<1> DEFINE q == Page \div Grain
<1>5. q * Grain \in Nat
  BY <1>1, <1>4
<1>6. Page = q * Grain
  <2> DEFINE x == q * Grain
  <2>1. Page = x + 0 /\ x \in Nat
    BY <1>4, <1>5
  <2> HIDE DEF x
  <2>2. Page = x
    BY <2>1
  <2> QED BY <2>2 DEF x
<1> HIDE DEF q, z
<1>7. q \in Nat /\ Len(z) = q * Grain
  BY <1>2, <1>4, <1>6 DEF q
<1>8. Image(z)
  BY <1>2, <1>3, <1>7 DEF Image
<1> QED BY <1>8 DEF z

(* One lemma per action of ImageChain.                                     *)
LEMMA WriteKeeps ==
    ASSUME ImageInv, NEW j \in 1..(SafeBuffer + Page), NEW b \in Byte, Write(j, b)
    PROVE  ImageInv'
<1>1. Image(live)'
  <2>1. Image(live) /\ j <= Len(live) /\ live' = [live EXCEPT ![j] = b]
    BY DEF Write, ImageInv
  <2>2. live \in Seq(Byte) /\ live # <<>>
    BY <2>1 DEF Image
  <2>3. PICK n \in Nat : Len(live) = n * Grain
    BY <2>1 DEF Image
  <2> DEFINE img == [live EXCEPT ![j] = b]
  <2>4. j \in 1..Len(live)
    BY <2>1, <2>2, ImageAssumption
  <2>5. img \in Seq(Byte) /\ Len(img) = Len(live) /\ img # <<>>
    BY <2>2, <2>4
  <2> HIDE DEF img
  <2>6. Image(img)
    BY <2>3, <2>5 DEF Image
  <2> QED BY <2>1, <2>6 DEF img
<1> QED BY <1>1, ImageKept DEF Write, ImageInv

LEMMA GrowMemoryKeeps ==
    ASSUME ImageInv, GrowMemory
    PROVE  ImageInv'
<1>1. Image(live)'
  <2> DEFINE z == Zeros(Page)  img == live \o z
  <2>1. Image(live) /\ live' = img
    BY DEF GrowMemory, ImageInv
  <2>2. live \in Seq(Byte) /\ live # <<>> /\ z \in Seq(Byte)
    BY <2>1, ZerosAreImage DEF Image
  <2>3. PICK n \in Nat : Len(live) = n * Grain
    BY <2>1 DEF Image
  <2>4. PICK m \in Nat : Len(z) = m * Grain
    BY ZerosAreImage DEF Image
  <2> HIDE DEF z
  <2>5. img \in Seq(Byte) /\ Len(img) = Len(live) + Len(z) /\ img # <<>>
    BY <2>2
  <2>6. (n + m) * Grain = n * Grain + m * Grain /\ n + m \in Nat
    BY <2>3, <2>4, ImageAssumption
  <2> HIDE DEF img
  <2>7. Len(img) = (n + m) * Grain
    BY <2>3, <2>4, <2>5, <2>6
  <2>8. Image(img)
    BY <2>5, <2>6, <2>7 DEF Image
  <2> QED BY <2>1, <2>8
<1> QED BY <1>1, ImageKept DEF GrowMemory, ImageInv

LEMMA DumpW4Keeps ==
    ASSUME ImageInv, NEW forceFull, NEW used, NEW fits, DumpW4(forceFull, used, fits)
    PROVE  ImageInv'
<1> DEFINE idx == Changed(live, last)
           delta == ~forceFull /\ last # None /\ Len(live) >= Len(last) /\ ~Dense(live, idx) /\ fits
<1>1. /\ Admitted(live, used)
      /\ forceFull = (rows = None \/ (rows # None /\ Len(rows.deltas) >= MaxDeltas))
      /\ dumped' = [mode |-> IF delta THEN "delta" ELSE "full", image |-> live,
                    blob |-> IF delta THEN Delta(live, idx) ELSE Compress(live)]
      /\ pending' = IF delta \/ Len(live) <= NoRetain THEN live ELSE None
      /\ last' = IF ~delta /\ Len(live) > NoRetain THEN None ELSE last
      /\ UNCHANGED <<live, rows, build, damaged, writes, committed>>
  BY DEF DumpW4
<1>2. Image(live) /\ Len(live) <= SafeBuffer /\ live # None
  BY <1>1 DEF ImageInv, Admitted, Image, None
<1>3. delta => rows # None /\ last = committed /\ Len(committed) <= Len(live) /\ idx = Changed(live, committed)
  <2> HAVE delta
  <2>1. rows # None /\ last = committed
    BY <1>1 DEF ImageInv, LastOk
  <2>2. Len(committed) \in Nat /\ Len(live) \in Nat
    BY <1>2, <2>1 DEF ImageInv, RowsOk, Image
  <2> QED BY <2>1, <2>2
<1> HIDE DEF idx, delta
<1>4. dumped'.mode = (IF delta THEN "delta" ELSE "full") /\ dumped'.image = live
      /\ dumped'.blob = IF delta THEN Delta(live, idx) ELSE Compress(live)
  BY <1>1
<1>5. Tag' = Tag
  BY <1>1 DEF Tag
<1>6. DumpOk'
  <2>1. dumped'.mode = "delta" =>
            rows' # None /\ Len(committed') <= Len(dumped'.image)
            /\ dumped'.blob = Delta(dumped'.image, Changed(dumped'.image, committed'))
    BY <1>1, <1>3, <1>4
  <2>2. dumped'.mode # "delta" => dumped'.blob = Compress(dumped'.image)
    BY <1>4
  <2>3. (pending' # None => pending' = dumped'.image) /\ (pending' = None => last' = None)
    <3>1. CASE delta \/ Len(live) <= NoRetain
      <4>1. pending' = live
        BY <1>1, <3>1
      <4> QED BY <1>2, <1>4, <4>1
    <3>2. CASE ~(delta \/ Len(live) <= NoRetain)
      <4>1. Len(live) > NoRetain /\ ~delta
        BY <1>2, <3>2, ImageAssumption DEF Image
      <4> QED BY <1>1, <3>2, <4>1
    <3> QED BY <3>1, <3>2
  <2>4. Image(dumped'.image) /\ Len(dumped'.image) <= SafeBuffer
    BY <1>2, <1>4
  <2> QED BY <1>5, <2>1, <2>2, <2>3, <2>4 DEF DumpOk, Delta, Compress
<1>7. LastOk'
  BY <1>1 DEF ImageInv, LastOk
<1>8. Image(live)' /\ RowsOk'
  BY <1>1, <1>2, ImageKept DEF ImageInv
<1> QED BY <1>6, <1>7, <1>8 DEF ImageInv

LEMMA TxnCommitsKeeps ==
    ASSUME ImageInv, TxnCommits
    PROVE  ImageInv'
<1> DEFINE img == dumped.image  blob == dumped.blob
<1>1. /\ dumped # None /\ committed' = img
      /\ last' = IF pending # None THEN pending ELSE last
      /\ dumped' = None /\ live' = live /\ build' = build
  BY DEF TxnCommits
<1>2. /\ Image(img) /\ Len(img) <= SafeBuffer /\ Len(img) \in Nat /\ img \in Seq(Byte)
      /\ pending # None => pending = img
      /\ pending = None => last = None
  BY <1>1 DEF ImageInv, DumpOk, Image
<1>3. LastOk' /\ DumpOk' /\ Image(live)'
  BY <1>1, <1>2 DEF ImageInv, LastOk, DumpOk
<1>4. CASE dumped.mode = "delta"
  <2>1. rows' = [rows EXCEPT !.deltas = Append(@, blob), !.len = Len(img), !.crc = img] /\ damaged' = damaged
    BY <1>4 DEF TxnCommits
  <2>2. rows # None /\ Len(committed) <= Len(img) /\ blob = Delta(img, Changed(img, committed))
    BY <1>1, <1>4 DEF ImageInv, DumpOk
  <2>3. /\ rows \in RowsType /\ Image(committed) /\ RowsChain
        /\ rows.base.codec = NormCodec(rows.tag) /\ \A k \in 1..Len(rows.deltas) : Tagged(rows.deltas[k])
    BY <2>2 DEF ImageInv, RowsOk
  <2>4. Sized(blob, committed, img) /\ Carries(blob, committed, img) /\ Tagged(blob)
    BY <1>2, <2>2, <2>3, DeltaCarries
  <2> HIDE DEF img, blob
  <2> DEFINE ds == rows.deltas  more == Append(ds, blob)
  <2>5. blob \in DeltaRows /\ ds \in Seq(DeltaRows)
    BY <2>3, <2>4 DEF Sized, RowsType
  <2> HIDE DEF ds
  <2>6. more \in Seq(DeltaRows) /\ Len(more) = Len(ds) + 1 /\ more[Len(ds) + 1] = blob
        /\ Len(ds) \in Nat /\ \A k \in 1..Len(ds) : more[k] = ds[k]
    BY <2>5
  <2>7. /\ rows' \in RowsType /\ rows'.base = rows.base /\ rows'.tag = rows.tag /\ rows'.deltas = more
        /\ rows'.len = Len(img) /\ rows'.crc = img
    <3>1. rows' = [rows EXCEPT !.deltas = more, !.len = Len(img), !.crc = img]
      BY <2>1, <2>3 DEF ds, RowsType
    <3> HIDE DEF more
    <3> QED BY <1>2, <2>3, <2>6, <3>1 DEF RowsType
  <2>8. \A k \in 1..Len(more) : Tagged(more[k])
    <3>1. \A k \in 1..Len(ds) : Tagged(ds[k])
      BY <2>3 DEF ds
    <3> TAKE k \in 1..Len(more)
    <3>2. k \in 1..Len(ds) \/ k = Len(ds) + 1
      BY <2>6
    <3> HIDE DEF more
    <3> QED BY <2>4, <2>6, <3>1, <3>2
  <2>9. RowsChain'
    <3>1. PICK imgs : /\ Chain(rows.base.data, ds, imgs) /\ imgs[Len(ds)] = committed
                      /\ ~damaged => Undamaged(ds, imgs)
      BY <2>3 DEF RowsChain, ds
    <3>2. PICK imgs2 : /\ Chain(rows.base.data, more, imgs2) /\ imgs2[Len(more)] = img
                       /\ Undamaged(ds, imgs) => Undamaged(more, imgs2)
      BY <1>2, <2>4, <3>1, ChainExtended
    <3> HIDE DEF more
    <3>3. committed' = img
      BY <1>1 DEF img
    <3> QED BY <2>1, <2>7, <3>1, <3>2, <3>3 DEF RowsChain
  <2>10. RowsOk'
    <3> HIDE DEF more
    <3>1. committed' = img
      BY <1>1 DEF img
    <3> QED BY <1>2, <2>3, <2>7, <2>8, <2>9, <3>1 DEF RowsOk
  <2> QED BY <1>3, <2>10 DEF ImageInv
<1>5. CASE dumped.mode # "delta"
  <2>1. rows' = [base |-> blob, tag |-> Tag, deltas |-> <<>>, len |-> Len(img), crc |-> img] /\ damaged' = FALSE
    BY <1>5 DEF TxnCommits
  <2>2. blob = [codec |-> NormCodec(Tag), data |-> img]
    BY <1>1, <1>5 DEF ImageInv, DumpOk, Compress
  <2> HIDE DEF img, blob
  <2>3. Tag \in {"", "zstd"} /\ NormCodec(Tag) \in {"zstd", "gzip"}
    BY DEF Tag, NormCodec
  <2> DEFINE t == Tag  c == NormCodec(Tag)  none == <<>>
  <2>4. none \in Seq(DeltaRows) /\ Len(none) = 0 /\ 1..Len(none) = {}
    OBVIOUS
  <2>5. rows' = [base |-> blob, tag |-> t, deltas |-> none, len |-> Len(img), crc |-> img] /\ blob = [codec |-> c, data |-> img]
    BY <2>1, <2>2
  <2>6. t \in {"", "zstd"} /\ c \in {"zstd", "gzip"} /\ c = NormCodec(t)
    BY <2>3
  <2> HIDE DEF t, c, none
  <2>7. /\ rows'.base = blob /\ rows'.tag = t /\ rows'.deltas = none /\ rows'.len = Len(img) /\ rows'.crc = img
        /\ blob.codec = c /\ blob.data = img /\ blob \in [codec : {"zstd", "gzip"}, data : Seq(Byte)]
    BY <1>2, <2>5, <2>6
  <2>8. rows' \in RowsType
    BY <1>2, <2>4, <2>5, <2>6, <2>7 DEF RowsType
  <2>9. PICK imgs : Chain(img, none, imgs) /\ imgs[Len(none)] = img /\ Undamaged(none, imgs)
    BY <1>2, ChainOfBase DEF none
  <2>10. committed' = img
    BY <1>1 DEF img
  <2>11. RowsChain'
    BY <2>7, <2>9, <2>10 DEF RowsChain
  <2>12. RowsOk'
    BY <1>2, <2>4, <2>6, <2>7, <2>8, <2>10, <2>11 DEF RowsOk
  <2> QED BY <1>3, <2>12 DEF ImageInv
<1> QED BY <1>4, <1>5

LEMMA RestartKeeps ==
    ASSUME ImageInv, NEW b, Restart(b)
    PROVE  ImageInv'
<1> DEFINE image == RestoreW4(rows)
<1>1. /\ rows # None /\ dumped' = None /\ UNCHANGED <<rows, damaged, writes, committed>>
      /\ live' = IF image = Refused THEN Zeros(Page) ELSE image
      /\ last' = IF image = Refused THEN None ELSE image
  BY DEF Restart
<1>2. image = committed \/ image = Refused
  BY <1>1, RestoreIs DEF ImageInv
<1>3. Image(committed) /\ Image(Zeros(Page))
  BY <1>1, ZerosAreImage DEF ImageInv, RowsOk
<1> HIDE DEF image
<1>4. Image(live)' /\ LastOk'
  BY <1>1, <1>2, <1>3 DEF LastOk
<1>5. RowsOk' /\ DumpOk'
  BY <1>1, ImageKept DEF ImageInv, DumpOk
<1> QED BY <1>4, <1>5 DEF ImageInv

LEMMA DamageRowKeeps ==
    ASSUME ImageInv, NEW k, DamageRow(k)
    PROVE  ImageInv'
<1> DEFINE ds == rows.deltas  d == ds[k]  hurt == [ds EXCEPT ![k] = Damaged(d)]
<1>1. /\ rows # None /\ k \in DOMAIN ds /\ dumped = None /\ damaged' = TRUE
      /\ UNCHANGED <<live, last, pending, dumped, build, writes, committed>>
  BY DEF DamageRow
<1>2. /\ rows \in RowsType /\ Image(committed) /\ RowsChain /\ Len(committed) <= SafeBuffer
      /\ rows.len = Len(committed) /\ rows.crc = committed
      /\ rows.base.codec = NormCodec(rows.tag) /\ \A m \in 1..Len(ds) : Tagged(ds[m])
  BY <1>1 DEF ImageInv, RowsOk
<1>3. ds \in Seq(DeltaRows)
  BY <1>2 DEF RowsType
<1>4. rows' = [rows EXCEPT !.deltas = hurt]
  <2>1. rows' = [rows EXCEPT !.deltas[k].payload.data = Zeros(Len(@))]
    BY DEF DamageRow
  <2> QED BY <1>1, <1>2, <1>3, <2>1 DEF RowsType, Damaged
<1> HIDE DEF ds
<1>5. k \in 1..Len(ds) /\ d \in DeltaRows
  BY <1>1, <1>3
<1> HIDE DEF d
<1>6. /\ Damaged(d) \in DeltaRows
      /\ Damaged(d).idx = d.idx /\ Damaged(d).payload.codec = d.payload.codec /\ Damaged(d).codec = d.codec
  BY <1>5, DamagedSized
<1> DEFINE e == Damaged(d)
<1> HIDE DEF e
<1>7. hurt \in Seq(DeltaRows) /\ Len(hurt) = Len(ds) /\ hurt[k] = e /\ \A m \in 1..Len(ds) : m # k => hurt[m] = ds[m]
  BY <1>3, <1>5, <1>6 DEF e
<1> HIDE DEF hurt
<1>8. /\ rows' \in RowsType /\ rows'.base = rows.base /\ rows'.tag = rows.tag /\ rows'.deltas = hurt
      /\ rows'.len = rows.len /\ rows'.crc = rows.crc
  BY <1>2, <1>4, <1>7 DEF RowsType
<1>9. ASSUME NEW m \in 1..Len(ds)
      PROVE  hurt[m] \in DeltaRows /\ hurt[m].idx = ds[m].idx /\ hurt[m].payload.codec = ds[m].payload.codec
             /\ hurt[m].codec = ds[m].codec
  BY <1>3, <1>6, <1>7 DEF d, e
<1>10. \A m \in 1..Len(hurt) : Tagged(hurt[m])
  BY <1>2, <1>7, <1>9 DEF Tagged
<1>11. RowsChain'
  <2>1. PICK imgs : Chain(rows.base.data, ds, imgs) /\ imgs[Len(ds)] = committed
    BY <1>2 DEF RowsChain, ds
  <2>2. Chain(rows.base.data, hurt, imgs)
    <3>1. \A m \in 1..Len(ds) : Sized(ds[m], imgs[m - 1], imgs[m])
      BY <2>1 DEF Chain
    <3>2. \A m \in 1..Len(ds) : Sized(hurt[m], imgs[m - 1], imgs[m])
      BY <1>9, <3>1 DEF Sized
    <3> QED BY <1>7, <2>1, <3>2 DEF Chain
  <2> QED BY <1>1, <1>7, <1>8, <2>1, <2>2 DEF RowsChain
<1>12. RowsOk'
  BY <1>1, <1>2, <1>8, <1>10, <1>11 DEF RowsOk
<1>13. Image(live)' /\ LastOk' /\ DumpOk'
  BY <1>1, <1>2, <1>8, <1>4 DEF ImageInv, LastOk, DumpOk
<1> QED BY <1>12, <1>13 DEF ImageInv

LEMMA ImageStep == ImageInv /\ [ImageNext]_imageVars => ImageInv'
<1> SUFFICES ASSUME ImageInv, [ImageNext]_imageVars PROVE ImageInv'
  OBVIOUS
<1>1. ASSUME NEW j \in 1..(SafeBuffer + Page), NEW b \in Byte, Write(j, b) PROVE ImageInv'
  BY <1>1, WriteKeeps
<1>2. CASE GrowMemory
  BY <1>2, GrowMemoryKeeps
<1>3. ASSUME NEW force \in BOOLEAN, NEW fits \in BOOLEAN, NEW used \in {0, Incompressible}, DumpW4(force, used, fits)
      PROVE  ImageInv'
  BY <1>3, DumpW4Keeps
<1>4. CASE TxnCommits
  BY <1>4, TxnCommitsKeeps
<1>5. CASE TxnFails
  <2>1. dumped' = None /\ UNCHANGED <<live, last, pending, rows, build, damaged, writes, committed>>
    BY <1>5 DEF TxnFails
  <2> QED BY <2>1, ImageKept DEF ImageInv, DumpOk
<1>6. ASSUME NEW b \in {"old", "new"}, Restart(b) PROVE ImageInv'
  BY <1>6, RestartKeeps
<1>7. ASSUME NEW k \in 1..MaxDeltas, DamageRow(k) PROVE ImageInv'
  BY <1>7, DamageRowKeeps
<1>8. CASE UNCHANGED imageVars
  BY <1>8, ImageKept DEF ImageInv, imageVars
<1> QED BY <1>1, <1>2, <1>3, <1>4, <1>5, <1>6, <1>7, <1>8 DEF ImageNext

(* What the stored rows decode to is, byte for byte, the memory of the     *)
(* last committed dump, for every grain, page, ceiling and number of       *)
(* deltas and whatever mix of bases, deltas, growth, failed transactions,  *)
(* restores and codecs wrote them; a damaged chain may only be refused     *)
(* (restoreW4 and dumpW4, kernel-glue.ts).                                 *)
THEOREM AlwaysRestoresOrRefuses == ImageSpec => []RestoresOrRefuses
<1>1. ImageInit => ImageInv
  BY ZerosAreImage DEF ImageInit, ImageInv, RowsOk, LastOk, DumpOk
<1>2. ImageInv => RestoresOrRefuses
  BY RestoreIs DEF ImageInv, RestoresOrRefuses
<1> QED BY <1>1, <1>2, ImageStep, PTL DEF ImageSpec

=============================================================================
