----------------------------- MODULE Supervisor -----------------------------
(***************************************************************************)
(* One shard of the cloud control plane (SupervisorDO in                   *)
(* apps/cloud/src/supervisor.ts): it proxies a tenant's requests to the    *)
(* kernel facet of the session, keeps a registry of sessions with their    *)
(* access cadence, and sweeps it on its alarm: facets that look active are *)
(* pinged, idle ones aborted.                                              *)
(*                                                                         *)
(* Time is kept as ages: since a session's last activity, until its warm   *)
(* horizon, until the alarm.  One unit is WARM_SWEEP_INTERVAL_MS.  A facet *)
(* is its (tenant, session) pair; ids have no ':' in them, so the name     *)
(* determines the pair.                                                    *)
(***************************************************************************)
EXTENDS Integers, Sequences, FiniteSets, SequencesExt

CONSTANTS
    Facets,         \* the facets the sessions of this shard have
    TenantOf,       \* the tenant of each
    Slots,          \* concurrent requests
    Ops,            \* the routes that are requested
    MAX_FACETS,     \* MAX_FACETS_PER_SUPERVISOR
    IDLE_TTL,       \* FACET_IDLE_TTL_MS
    WARM_HORIZON,   \* WARM_HORIZON_MS
    WARM_MAX_EWMA,  \* WARM_MAX_EWMA_MS
    WARM_MIN_EVALS,
    MaxRequests,    \* bound: requests in all
    MaxAge          \* bound: larger ages count as this one

SweepInterval == 1

Touching == {"create", "eval", "frame"}
Untouching == {"gen", "ping", "reset"}

ASSUME SupervisorAssumption ==
    /\ Ops \subseteq Touching \cup Untouching \cup {"warm", "evict"}
    /\ {MAX_FACETS, IDLE_TTL, WARM_HORIZON, WARM_MAX_EWMA, WARM_MIN_EVALS} \subseteq Nat \ {0}
    /\ MaxRequests \in Nat /\ MaxAge \in Nat /\ MaxAge >= IDLE_TTL /\ 2 * MaxAge > 5 * (WARM_MAX_EWMA - 1)

VARIABLES
    row,        \* the sessions table
    alarm,      \* units until the alarm, NoAlarm: none is set
    sweep,      \* an alarm() that waits for a ping: the decisions left, its own first
    facet,      \* the tenant a running facet's egress gateway is scoped to
    loaded,     \* the tenant the kernel code was loaded for
    req,        \* the requests in flight
    count,      \* requests so far, for the bound
    aborted     \* observation: the facets the last sweep step aborted, each with
                \* the age of its session's last activity at that moment

supVars == <<row, alarm, sweep, facet, loaded, req, count, aborted>>

NoAlarm == -1
NoTenant == "none"
NoSweep == [on |-> FALSE, todo |-> <<>>]
NoRow == [known |-> FALSE, active |-> FALSE, age |-> 0, evals |-> 0, ewma |-> 0,
          warm |-> 0, sensitive |-> FALSE, big |-> FALSE]
NoReq == [pc |-> "idle", op |-> "eval", f |-> CHOOSE f \in Facets : TRUE]

SupInit ==
    /\ row = [f \in Facets |-> NoRow]
    /\ alarm = NoAlarm /\ sweep = NoSweep
    /\ facet = [f \in Facets |-> NoTenant] /\ loaded = NoTenant
    /\ req = [r \in Slots |-> NoReq] /\ count = 0
    /\ aborted = {}

-----------------------------------------------------------------------------
(* The cadence: an exponential average of the gaps, alpha 0.4, rounded.    *)
Ewma(old, gap) == IF old > 0 THEN (4 * gap + 6 * old + 5) \div 10 ELSE gap

(* A session that was evicted has no last activity to measure a gap from.  *)
Touched(w) ==
    IF ~w.known
    THEN [NoRow EXCEPT !.known = TRUE, !.active = TRUE, !.evals = 1]
    ELSE [w EXCEPT !.active = TRUE, !.age = 0,
                   !.evals = IF @ < WARM_MIN_EVALS THEN @ + 1 ELSE @,
                   !.ewma = IF w.active THEN Ewma(@, w.age) ELSE @]

Full == Cardinality({f \in Facets : row[f].known}) >= MAX_FACETS

(* _touch: refused when the shard is full, else the row and the alarm.     *)
Touch(f) ==
    /\ row' = [row EXCEPT ![f] = Touched(@)]
    /\ alarm' = IF alarm = NoAlarm THEN SweepInterval ELSE alarm

(* Mutant: the recency limit is left out of the decision.                  *)
ShouldWarmForever(w) ==
    /\ w.active
    /\ \/ w.sensitive
       \/ /\ w.evals >= WARM_MIN_EVALS
          /\ w.ewma > 0 /\ w.ewma < WARM_MAX_EWMA
          /\ ~w.big

(* _shouldWarm, WARM_RECENCY_K = 2.5.                                      *)
ShouldWarm(w) ==
    /\ w.active
    /\ \/ w.sensitive
       \/ /\ w.evals >= WARM_MIN_EVALS
          /\ w.ewma > 0 /\ w.ewma < WARM_MAX_EWMA
          /\ 2 * w.age <= 5 * w.ewma
          /\ ~w.big

Idle(w) == w.age >= IDLE_TTL /\ w.warm = 0

-----------------------------------------------------------------------------
(* Requests.  The gate has resolved the tenant and checked the permission. *)

Counted == count < MaxRequests /\ count' = count + 1

Go(r, q) == req' = [req EXCEPT ![r] = q]

(* The Worker Loader (external) keeps what it loaded under KERNEL_CODE_ID: *)
(* the callback, with the gateway of its tenant, runs for the first.       *)
LoadKernel(tenant) == IF loaded = NoTenant THEN tenant ELSE loaded

(* #facet: a request that reaches a facet starts it when it does not run.  *)
Send(f) ==
    IF facet[f] # NoTenant THEN UNCHANGED <<facet, loaded>>
    ELSE /\ loaded' = LoadKernel(TenantOf[f])
         /\ facet' = [facet EXCEPT ![f] = loaded']

(* /create reads its body between the touch and the frame.                 *)

Arrive(r, op, f) ==
    /\ req[r].pc = "idle" /\ op \in Touching \cup Untouching
    /\ IF op \in Touching /\ ~row[f].known /\ Full
       THEN UNCHANGED <<row, alarm, facet, loaded, req>>
       ELSE /\ IF op \in Touching THEN Touch(f) ELSE UNCHANGED <<row, alarm>>
            /\ IF op = "create" THEN UNCHANGED <<facet, loaded>> ELSE Send(f)
            /\ Go(r, [pc |-> IF op = "create" THEN "body" ELSE "frame", op |-> op, f |-> f])
    /\ Counted
    /\ UNCHANGED <<sweep, aborted>>

CreateSends(r) ==
    /\ req[r].pc = "body"
    /\ Send(req[r].f)
    /\ Go(r, [req[r] EXCEPT !.pc = "frame"])
    /\ UNCHANGED <<row, alarm, sweep, count, aborted>>

(* The facet answers; an eval reports the size of its checkpoint.  A       *)
(* request whose facet was aborted ends with an error.                     *)
FrameReturns(r, big) ==
    /\ req[r].pc \in {"frame", "failed"}
    /\ row' = IF req[r].pc = "frame" /\ req[r].op = "eval"
              THEN [row EXCEPT ![req[r].f].big = big] ELSE row
    /\ Go(r, NoReq)
    /\ UNCHANGED <<alarm, sweep, facet, loaded, count, aborted>>

(* /warm?latencySensitive=                                                 *)
SetLatencySensitive(f, on) ==
    /\ "warm" \in Ops /\ row[f].known /\ row[f].sensitive # on
    /\ row' = [row EXCEPT ![f].sensitive = on]
    /\ Counted
    /\ UNCHANGED <<alarm, sweep, facet, loaded, req, aborted>>

(* ctx.facets.abort: what runs in the facets fails.                        *)
Failed(gone) ==
    [r \in Slots |-> IF req[r].pc = "frame" /\ req[r].f \in gone
                     THEN [req[r] EXCEPT !.pc = "failed"] ELSE req[r]]
Stopped(gone) == [f \in Facets |-> IF f \in gone THEN NoTenant ELSE facet[f]]
Evicted(w, gone) ==
    [f \in Facets |-> IF f \in gone THEN [w[f] EXCEPT !.active = FALSE, !.warm = 0] ELSE w[f]]

Evict(f) ==
    /\ "evict" \in Ops /\ facet[f] # NoTenant
    /\ facet' = Stopped({f}) /\ req' = Failed({f}) /\ row' = Evicted(row, {f})
    /\ Counted
    /\ UNCHANGED <<alarm, sweep, loaded, aborted>>

-----------------------------------------------------------------------------
(* The alarm.  The rows are read once; what is done with each is decided   *)
(* from what was read then.  The handler gives way to requests only while  *)
(* it waits for a ping.                                                    *)
Decision(f) ==
    IF ShouldWarm(row[f]) THEN "warm" ELSE IF Idle(row[f]) THEN "abort" ELSE "keep"

Active(w) == \E f \in Facets : w[f].active

(* The handler's last step: another sweep while a session is active.       *)
Rearm(w, gone, cur) == IF Active(w) THEN SweepInterval ELSE cur

(* From here to the next ping, or to the end.                              *)
Carry(todo, w, cur) ==
    LET n == SelectInSeq(todo, LAMBDA d : d.do = "warm")
        now == IF n = 0 THEN todo ELSE SubSeq(todo, 1, n - 1)
        gone == {now[i].f : i \in {k \in DOMAIN now : now[k].do = "abort"}}
    IN  /\ row' = Evicted(w, gone)
        /\ req' = Failed(gone)
        /\ aborted' = {[f |-> f, age |-> row[f].age] : f \in gone}
        /\ IF n = 0
           THEN /\ sweep' = NoSweep /\ alarm' = Rearm(row', gone, cur)
                /\ facet' = Stopped(gone) /\ UNCHANGED loaded
           ELSE LET f == todo[n].f
                IN  /\ sweep' = [on |-> TRUE, todo |-> SubSeq(todo, n, Len(todo))]
                    /\ alarm' = cur
                    /\ IF facet[f] # NoTenant THEN facet' = Stopped(gone) /\ UNCHANGED loaded
                       ELSE /\ loaded' = LoadKernel(TenantOf[f])
                            /\ facet' = [Stopped(gone) EXCEPT ![f] = loaded']
        /\ UNCHANGED count

AlarmFires ==
    /\ alarm = 0 /\ ~sweep.on
    /\ \E order \in SetToSeqs({f \in Facets : row[f].active}) :
          Carry([i \in DOMAIN order |-> [f |-> order[i], do |-> Decision(order[i])]],
                row, NoAlarm)

(* The heartbeat was answered, or failed.                                  *)
SweepPinged ==
    /\ sweep.on
    /\ Carry(Tail(sweep.todo), [row EXCEPT ![Head(sweep.todo).f].warm = WARM_HORIZON], alarm)

(* Time passes.                                                            *)
SupTick ==
    /\ row' = [f \in Facets |->
                 IF ~row[f].active THEN row[f]
                 ELSE [row[f] EXCEPT !.age = IF @ < MaxAge THEN @ + 1 ELSE @,
                                     !.warm = IF @ > 0 THEN @ - 1 ELSE @]]
    /\ alarm' = IF alarm > 0 THEN alarm - 1 ELSE alarm
    /\ <<row', alarm'>> # <<row, alarm>>
    /\ UNCHANGED <<sweep, facet, loaded, req, count, aborted>>

SupNext ==
    \/ \E r \in Slots :
          \/ \E op \in Ops, f \in Facets : Arrive(r, op, f)
          \/ CreateSends(r)
          \/ \E big \in BOOLEAN : FrameReturns(r, big)
    \/ \E f \in Facets : Evict(f) \/ \E on \in BOOLEAN : SetLatencySensitive(f, on)
    \/ AlarmFires \/ SweepPinged
    \/ SupTick

-----------------------------------------------------------------------------
(* Properties.                                                             *)

(* A session that nobody uses any more and that is not latency-sensitive   *)
(* is hibernated, whatever its cadence was: keep-warm heartbeats do not    *)
(* sustain themselves (_shouldWarm, alarm).                                *)
Quiet(f) ==
    /\ ~row[f].sensitive
    /\ \A r \in Slots : req[r].pc # "idle" => req[r].f # f
Hibernates == \A f \in Facets : <>[]Quiet(f) => <>[](~row[f].active)

(* "PER-TENANT MEDIATED EGRESS": a facet's outbound gateway is scoped to   *)
(* the facet's own tenant.                                                 *)
EgressIsTenants == \A f \in Facets : facet[f] \in {NoTenant, TenantOf[f]}

(* "Idle TTL: a facet untouched this long is hard-evicted": the sweep      *)
(* aborts no facet whose session was touched more recently.                *)
AbortsOnlyIdle == \A a \in aborted : a.age >= IDLE_TTL
=============================================================================
