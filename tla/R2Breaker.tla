----------------------------- MODULE R2Breaker -----------------------------
(***************************************************************************)
(* The resilient R2 requests of the kernel (apps/kernel/src/lib.rs:        *)
(* r2_get_resilient, r2_put_resilient) and the circuit breaker they share. *)
(* Checkpoint flushes, vfs frames, worker registrations and cold wakes     *)
(* have requests in flight at the same time; the breaker's counters are in *)
(* the meta table and outlive the isolate.                                 *)
(*                                                                         *)
(* Time is kept as what is left of the cool-down and as the age of an      *)
(* attempt, in units of which a healthy R2 needs less than one for an      *)
(* answer; the back-offs (at most 400 ms, against 4 s for a time-out) take *)
(* no time.                                                                *)
(***************************************************************************)
EXTENDS Integers

CONSTANTS
    BrSlots,        \* concurrent requests
    BrAttempts,     \* R2_GET_ATTEMPTS
    BrTimeout,      \* R2_GET_TIMEOUT_MS
    BrTripAt,       \* R2_BREAKER_TRIP_AT
    BrCooldown      \* R2_BREAKER_COOLDOWN_MS

ASSUME BreakerAssumption == {BrAttempts, BrTimeout, BrTripAt, BrCooldown} \subseteq Nat \ {0}

VARIABLE br
    \* fails: r2BreakerFails, as far as BrTripAt tells apart; left: what is
    \* left until r2BreakerOpenUntil, 0 when it has passed; reqs; up: R2
    \* answers; healthy: for how long it has, as far as the property asks

NoRequest == [pc |-> "idle", attempt |-> 0, age |-> 0, doomed |-> FALSE]
HealTime == BrTimeout + BrCooldown

BreakerInit ==
    br = [fails |-> 0, left |-> 0, reqs |-> [w \in BrSlots |-> NoRequest], up |-> TRUE, healthy |-> 0]

BreakerOpen == br.left > 0

(* r2_breaker_record_success.                                              *)
RecordSuccess == [br EXCEPT !.fails = 0, !.left = 0]

(* Mutant: an open breaker is extended by another cool-down.               *)
RecordFailureExtends ==
    LET fails == IF br.fails < BrTripAt THEN br.fails + 1 ELSE br.fails IN
    [br EXCEPT !.fails = fails, !.left = IF fails >= BrTripAt THEN @ + BrCooldown ELSE @]

(* r2_breaker_record_failure: from the BrTripAt-th failure in a row on,    *)
(* every failure starts the cool-down anew.                                *)
RecordFailure ==
    LET fails == IF br.fails < BrTripAt THEN br.fails + 1 ELSE br.fails IN
    [br EXCEPT !.fails = fails, !.left = IF fails >= BrTripAt THEN BrCooldown ELSE @]

(* A PUT, or a cold wake's GET, that the open breaker does not refuse; the *)
(* GET that verifies a new base, or fetches a worker's source, does not    *)
(* ask the breaker.                                                        *)
BeginRequest(w, asks) ==
    /\ br.reqs[w].pc = "idle"
    /\ asks => ~BreakerOpen
    /\ br' = [br EXCEPT !.reqs[w] = [NoRequest EXCEPT !.pc = "attempt", !.doomed = ~br.up]]

(* The object, a durable miss or a completed PUT.                          *)
AttemptAnswers(w) ==
    /\ br.reqs[w].pc = "attempt" /\ br.up
    /\ br' = [RecordSuccess EXCEPT !.reqs[w] = NoRequest]

(* A transient error or the time-out: the next attempt, or none is left.   *)
AttemptFails(w) ==
    /\ br.reqs[w].pc = "attempt" /\ br.reqs[w].doomed
    /\ br' = IF br.reqs[w].attempt + 1 < BrAttempts
             THEN [br EXCEPT !.reqs[w] = [br.reqs[w] EXCEPT !.attempt = br.reqs[w].attempt + 1, !.age = 0,
                                                          !.doomed = ~br.up]]
             ELSE [RecordFailure EXCEPT !.reqs[w] = NoRequest]

(* The isolate dies with its requests; meta stays.                         *)
BreakerCrash ==
    /\ \E w \in BrSlots : br.reqs[w].pc # "idle"
    /\ br' = [br EXCEPT !.reqs = [w \in BrSlots |-> NoRequest]]

(* R2 degrades, and with it every attempt under way; R2 recovers.          *)
R2Degrades ==
    /\ br.up
    /\ br' = [br EXCEPT !.up = FALSE, !.healthy = 0,
                        !.reqs = [w \in BrSlots |-> [br.reqs[w] EXCEPT !.doomed = (br.reqs[w].pc = "attempt")]]]

R2Recovers ==
    /\ ~br.up
    /\ br' = [br EXCEPT !.up = TRUE]

(* Time passes, but not beyond a time-out, nor beyond the answer of a      *)
(* healthy R2.                                                             *)
BreakerTick ==
    /\ \A w \in BrSlots : br.reqs[w].pc = "attempt" =>
            br.reqs[w].age < IF br.reqs[w].doomed THEN BrTimeout ELSE 1
    /\ br' = [br EXCEPT !.left = IF @ > 0 THEN @ - 1 ELSE @,
                        !.healthy = IF br.up /\ @ < HealTime THEN @ + 1 ELSE @,
                        !.reqs = [w \in BrSlots |->
                            IF br.reqs[w].pc = "attempt" THEN [br.reqs[w] EXCEPT !.age = @ + 1] ELSE br.reqs[w]]]

BreakerNext ==
    \/ \E w \in BrSlots :
        \/ AttemptAnswers(w) \/ AttemptFails(w)
        \/ \E asks \in BOOLEAN : BeginRequest(w, asks)
    \/ BreakerCrash \/ R2Degrades \/ R2Recovers \/ BreakerTick

BreakerSpec == BreakerInit /\ [][BreakerNext]_br

-----------------------------------------------------------------------------
(* The breaker heals by itself: once R2 has answered for a time-out and a  *)
(* cool-down, no request is refused any more, whichever requests were in   *)
(* flight when R2 recovered, in whatever order they failed and succeeded,  *)
(* and whether or not anybody asked R2 since ("skip R2 entirely ... until  *)
(* the cooldown elapses", lib.rs:4239-4240).                               *)
BreakerHeals == br.healthy >= HealTime => ~BreakerOpen

=============================================================================
