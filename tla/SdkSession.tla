----------------------------- MODULE SdkSession -----------------------------
(***************************************************************************)
(* An EngramSession of the SDK (packages/sdk/src/index.ts) and what it     *)
(* keeps inside the VM: the bootstrap that every (re)connect runs wraps    *)
(* host, registers the host modules and seeds the ctx map; eval reports    *)
(* the value the cell passed to host.final, which comes back as a hostcall *)
(* and lands in one field of the session.  The VM may be evicted and       *)
(* restored, and the socket may drop, at any time.                         *)
(*                                                                         *)
(* The cells of the bootstrap, of a shim and of eval commit before they    *)
(* are answered (the default durability); the one of ctx.set, whose reply  *)
(* the SDK does not look at, may also be refused or fail its checkpoint.   *)
(***************************************************************************)
EXTENDS Integers, FiniteSets

CONSTANTS
    SeKeys,         \* keys of the ctx map
    SeSeed,         \* opts.ctx: the keys connect seeds
    SeModules,      \* host-module namespaces
    SeConnect,      \* opts.hostModules: the ones given to connect
    SeEvals,        \* eval calls
    SeMade          \* bound: ctx.set, resets and evictions

VARIABLE se
    \* http: the transport is HttpTransport (no host calls, no reconnect);
    \* link: closed, opening, ready; sock: the socket's number; boot: namespaces in session.bootstrap;
    \* fns: host functions bound in the transport; heap: the VM's globals, or
    \* what a restore makes of them; warm; snap: the snapshot; captured:
    \* capturedFinal; evals; made; want: observation, the ctx a user expects;
    \* unkept: observation, keys whose last set returned without a commit

NoValue == 0
SeedValue == 1
EmptyHeap == [host |-> "base", ns |-> {}, ctx |-> [k \in SeKeys |-> NoValue]]
NotAsked == [pc |-> "new", sock |-> 0, sent |-> NoValue, final |-> NoValue, shared |-> FALSE]

SessionInit(http) ==
    se = [http |-> http, link |-> IF http THEN "opening" ELSE "closed", sock |-> 0, boot |-> SeConnect, fns |-> SeConnect,
          heap |-> EmptyHeap, warm |-> FALSE, snap |-> EmptyHeap, captured |-> NoValue,
          evals |-> [e \in SeEvals |-> NotAsked], made |-> 0, want |-> [k \in SeKeys |-> NoValue],
          unkept |-> {}]

-----------------------------------------------------------------------------
(* The kernel: a frame for the VM restores it or creates it first; either  *)
(* way _seedExtMeta makes host a new wrapper of the engine's own proxy.    *)
Woken == IF se.warm THEN se.heap ELSE [se.snap EXCEPT !.host = "ext"]

(* One cell at a time: an rpc waits for the one before it.                 *)
NoCell == \A e \in SeEvals : se.evals[e].pc # "running"

(* A cell that leaves the globals h, and commits them.                     *)
Runs(h) == [se EXCEPT !.heap = h, !.warm = TRUE, !.snap = h,
                      !.unkept = {k \in @ : h.ctx[k] # se.want[k]}]

(* Mutant: the seed overwrites what is there.                              *)
CtxSeedOverwrites(ctx) == [k \in SeKeys |-> IF k \in SeSeed THEN SeedValue ELSE ctx[k]]

(* The ctx seed of connect: only keys that are absent.                     *)
CtxSeed(ctx) == [k \in SeKeys |-> IF k \in SeSeed /\ ctx[k] = NoValue THEN SeedValue ELSE ctx[k]]

(* composeBootstrap: the prelude's host proxy, the shims, the ctx seed.    *)
Bootstrapped(h) == [host |-> "sdk", ns |-> h.ns \cup SeConnect, ctx |-> CtxSeed(h.ctx)]

(* WsTransport.open and its onReady: a new socket, then create and the     *)
(* bootstrap connect composed, on every (re)connect.  (Over HTTP           *)
(* _applyConfig does the same, once.)                                      *)
OpenSocket ==
    /\ se.link = "closed"
    /\ se' = [se EXCEPT !.link = "opening", !.sock = @ + 1]

OnReady ==
    /\ se.link = "opening"
    /\ LET expected == [k \in SeKeys |-> IF k \in SeSeed /\ se.want[k] = NoValue THEN SeedValue ELSE se.want[k]] IN
       se' = [Runs(Bootstrapped(Woken)) EXCEPT !.link = "ready", !.want = expected]

LinkDrops ==
    /\ ~se.http /\ se.link # "closed" /\ se.made < SeMade
    /\ se' = [se EXCEPT !.link = "closed", !.made = @ + 1]

(* The kernel is evicted (session.evict, hibernateThenResume, its alarm):  *)
(* the socket may well stay open.                                          *)
EvictVm ==
    /\ se.warm /\ NoCell
    /\ se.made < SeMade
    /\ se' = [se EXCEPT !.warm = FALSE, !.heap = se.snap, !.made = @ + 1]

(* session.reset: the namespace and its snapshot; over HTTP only the live  *)
(* kernel.                                                                 *)
ResetSession ==
    /\ se.link = "ready" /\ se.made < SeMade /\ NoCell
    /\ se' = IF se.http THEN [se EXCEPT !.warm = FALSE, !.heap = se.snap, !.made = @ + 1]
             ELSE [se EXCEPT !.warm = FALSE, !.heap = EmptyHeap, !.snap = EmptyHeap, !.made = @ + 1,
                             !.want = [k \in SeKeys |-> NoValue], !.unkept = {}]

(* session.ctx.set (and set, over another global): one cell.  It resolves  *)
(* whatever the reply says: the cell was refused, or ran and its           *)
(* checkpoint failed.                                                      *)
CtxSet(k, outcome) ==
    /\ se.link = "ready" /\ NoCell /\ se.made < SeMade
    /\ LET v == se.made + 2
           h == [Woken EXCEPT !.ctx[k] = v]
           ran == IF outcome = "commits" THEN Runs(h)
                  ELSE IF outcome = "volatile" THEN [se EXCEPT !.heap = h, !.warm = TRUE] ELSE se IN
       se' = [ran EXCEPT !.made = @ + 1, !.want[k] = v,
                         !.unkept = IF outcome = "commits" THEN @ \ {k} ELSE @ \cup {k}]

(* defineHostModule: bound at once, kept for bootstrap, and the shim is    *)
(* sent best-effort.  bindHost and defineHost are the binding alone.       *)
DefineHostModule(m, sent) ==
    /\ m \notin se.boot /\ se.link = "ready" /\ NoCell
    /\ LET bound == IF sent THEN Runs([Woken EXCEPT !.ns = @ \cup {m}]) ELSE se IN
       se' = [bound EXCEPT !.fns = @ \cup {m}, !.boot = @ \cup {m}]

-----------------------------------------------------------------------------
Asked == {e \in SeEvals : se.evals[e].pc \in {"queued", "running"}}

(* Mutant: the captured final of the eval before is kept.                  *)
EvalCoreKeepsFinal(e) ==
    /\ se.evals[e].pc = "new" /\ se.link = "ready"
    /\ se' = [se EXCEPT !.evals = [d \in SeEvals |->
                    IF d = e THEN [NotAsked EXCEPT !.pc = "queued", !.shared = Asked # {}]
                    ELSE [se.evals[d] EXCEPT !.shared = @ \/ d \in Asked]]]

(* eval, past its interceptors (_evalCore): capturedFinal is cleared when  *)
(* the call is made, the rpc waits its turn.                               *)
EvalCore(e) ==
    /\ se.evals[e].pc = "new" /\ se.link = "ready"
    /\ se' = [se EXCEPT !.captured = NoValue,
                        !.evals = [d \in SeEvals |->
                            IF d = e THEN [NotAsked EXCEPT !.pc = "queued", !.shared = Asked # {}]
                            ELSE [se.evals[d] EXCEPT !.shared = @ \/ d \in Asked]]]

CellBegins(e) ==
    /\ se.evals[e].pc = "queued" /\ se.link = "ready" /\ NoCell
    /\ se' = [Runs(Woken) EXCEPT !.evals[e].pc = "running", !.evals[e].sock = se.sock]

(* The cell calls host.final or FINAL: the hostcall goes to the socket the *)
(* frame came on, the SDK's captureFinal records it.  Over HTTP, or when   *)
(* that socket is gone, the call is refused in the VM.                     *)
HostFinal(e, v) ==
    /\ se.evals[e].pc = "running" /\ ~se.http
    /\ se.link = "ready" /\ se.evals[e].sock = se.sock
    /\ se' = [se EXCEPT !.captured = v, !.evals[e].sent = v]

(* The reply (of the first attempt, or the stored one when the transport   *)
(* retried it): normalize, then the captured final.                        *)
EvalReplies(e) ==
    /\ se.evals[e].pc = "running" /\ se.link = "ready"
    /\ se' = [se EXCEPT !.evals[e].pc = "done", !.evals[e].final = se.captured]

(* The rpc times out, or the session is closed: the socket is dropped, so  *)
(* the orphaned cell's host calls go nowhere.                              *)
EvalFails(e) ==
    /\ se.evals[e].pc = "running"
    /\ se' = [se EXCEPT !.evals[e].pc = "failed", !.link = IF se.http THEN @ ELSE "closed"]

SessionNext ==
    \/ OpenSocket \/ OnReady \/ LinkDrops \/ EvictVm \/ ResetSession
    \/ \E k \in SeKeys, outcome \in {"commits", "volatile", "refused"} : CtxSet(k, outcome)
    \/ \E m \in SeModules, sent \in BOOLEAN : DefineHostModule(m, sent)
    \/ \E e \in SeEvals :
        \/ EvalCore(e) \/ CellBegins(e) \/ EvalReplies(e) \/ EvalFails(e)
        \/ \E v \in {10, 20} : HostFinal(e, v)

SessionSpec == (\E http \in BOOLEAN : SessionInit(http)) /\ [][SessionNext]_se

-----------------------------------------------------------------------------
(* The ctx map holds the value the user last set, or the seed where none   *)
(* was set since the last reset, whatever evictions, restores, reconnects  *)
(* and re-run bootstraps came between (connect: "a value later changed via *)
(* session.ctx.set survives a cold restore"), unless the cell of that set  *)
(* did not commit and no cell after it committed its value.                *)
CtxKeepsLatest == \A k \in SeKeys \ se.unkept : se.heap.ctx[k] = se.want[k]

(* Not of every set that returned: "Persist `value` under `key` in the     *)
(* durable ctx map (survives hibernation)" (index.ts:1157), but the reply  *)
(* is dropped, and with it ok:false and a checkpoint that failed.  It does *)
(* not hold.                                                               *)
CtxSetPersists == se.heap.ctx = se.want

(* An eval that was alone on its session reports the last value its own    *)
(* cell got through to host.final, and none when there was none: not the   *)
(* one of an earlier eval, nor of a cell that timed out and ran on.        *)
FinalIsOwn ==
    \A e \in SeEvals :
        se.evals[e].pc = "done" /\ ~se.evals[e].shared => se.evals[e].final = se.evals[e].sent

(* While the session is connected and its VM live, host.ctx and every      *)
(* module defined on the session are reachable in it ("re-applied on every *)
(* reconnect / cold restore").                                             *)
HostSurface == se.link = "ready" /\ se.warm => se.heap.host = "sdk" /\ se.boot \subseteq se.heap.ns

=============================================================================
